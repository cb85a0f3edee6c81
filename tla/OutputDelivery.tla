---------------------------- MODULE OutputDelivery ----------------------------
(***************************************************************************)
(* The way of request outputs from an engine to the streams of the API     *)
(* servers: the put loop of LLMEngineLlumnix and AsyncPutQueueActor        *)
(* (vLLM 0.6), Llumlet._forward_v1_outputs (V1), ZmqClient and ZmqServer,  *)
(* and get_request_outputs_loop of the client.                             *)
(*                                                                         *)
(* A put is one RPC over a socket of its own: puts of different steps may  *)
(* overtake each other, a put whose reply is late has failed for the       *)
(* sender, and its message may still arrive.  Outputs are numbered; the    *)
(* last one of a request is Final.  A batch has at most one output of a    *)
(* request and its order matters to nobody: it is a function from its      *)
(* requests to the numbers of their outputs.                               *)
(***************************************************************************)
EXTENDS Integers, FiniteSets, Sequences

CONSTANTS
  Req, Srv,
  Final,                      \* outputs of a request
  Placements,                \* [Req -> Srv]: the servers the requests may come from
  MaxFaults                  \* bound: timeouts of live servers and server deaths

ASSUME DeliveryAssumption ==
  /\ IsFiniteSet(Req) /\ IsFiniteSet(Srv)
  /\ Final \in Nat \ {0} /\ MaxFaults \in Nat
  /\ Placements \subseteq [Req -> Srv]

VARIABLES
  v1,        \* the backend is vLLM V1
  server,    \* [Req -> Srv]: server_info of the requests
  made,      \* [Req -> 0 .. Final]: outputs the engine has made
  state,     \* [Req -> "none", "running", "finished" or "aborted"] in the engine
  step,      \* engine steps so far
  puts,      \* RPCs: [step, to, outs, st]
  late,      \* messages whose sender has given up: [to, outs]
  queue,     \* [Srv -> Seq(batch)]: ZmqServer.queue
  stream,    \* [Req -> Seq(number)]: what the stream was given
  open,      \* requests with an entry in request_streams
  up,        \* live servers
  failed,    \* requests of a put that failed
  faults

vars == <<v1, server, made, state, step, puts, late, queue, stream, open, up, failed, faults>>

Requests(outs) == DOMAIN outs

Init ==
  /\ v1 \in BOOLEAN /\ server \in Placements
  /\ made = [r \in Req |-> 0] /\ state = [r \in Req |-> "none"]
  /\ step = 0 /\ puts = {} /\ late = {}
  /\ queue = [s \in Srv |-> << >>]
  /\ stream = [r \in Req |-> << >>] /\ open = Req
  /\ up = Srv /\ failed = {} /\ faults = 0

-------------------------------------------------------------------------------
(* The engine                                                                  *)

\* The requests of R get their next outputs.
Produce(R) ==
  /\ made' = [r \in Req |-> IF r \in R THEN made[r] + 1 ELSE made[r]]
  /\ state' = [r \in Req |-> IF r \in R /\ made[r] + 1 = Final THEN "finished" ELSE state[r]]
  /\ step' = step + 1

\* The next outputs of the requests of R, as one put per server.
PutsOf(R) ==
  {[step |-> step, to |-> s, st |-> "sent",
    outs |-> [r \in {x \in R : server[x] = s} |-> made[r] + 1]] :
     s \in {server[r] : r \in R}}

\* add_request; its stream is there since generate.
Arrive(r) ==
  /\ state[r] = "none"
  /\ state' = [state EXCEPT ![r] = "running"]
  /\ UNCHANGED <<v1, server, made, step, puts, late, queue, stream, open, up, failed, faults>>

\* vLLM 0.6: a step, its outputs regrouped by server and put without waiting
\* for the puts of earlier steps.
StepV0 ==
  LET R == {r \in Req : state[r] = "running"} IN
  /\ ~v1 /\ R # {}
  /\ Produce(R)
  /\ puts' = puts \cup PutsOf(R)
  /\ UNCHANGED <<v1, server, late, queue, stream, open, up, failed, faults>>

\* Not waiting for the put before.
ForwardV1Eager(r) ==
  /\ v1 /\ state[r] = "running"
  /\ Produce({r})
  /\ puts' = puts \cup PutsOf({r})
  /\ UNCHANGED <<v1, server, late, queue, stream, open, up, failed, faults>>

\* V1: _forward_v1_outputs puts one output of a request and waits.
ForwardV1(r) ==
  /\ v1 /\ state[r] = "running"
  /\ \A p \in puts : r \notin Requests(p.outs)
  /\ Produce({r})
  /\ puts' = puts \cup PutsOf({r})
  /\ UNCHANGED <<v1, server, late, queue, stream, open, up, failed, faults>>

-------------------------------------------------------------------------------
(* The RPC                                                                     *)

Becomes(p, st) == puts' = (puts \ {p}) \cup {[p EXCEPT !.st = st]}

\* ZmqServer stores the batch; the reply is under way.
Store(p) ==
  /\ p.st = "sent" /\ p.to \in up
  /\ queue' = [queue EXCEPT ![p.to] = Append(@, p.outs)]
  /\ Becomes(p, "stored")
  /\ UNCHANGED <<v1, server, made, state, step, late, stream, open, up, failed, faults>>

Reply(p) ==
  /\ p.st = "stored" /\ p.to \in up
  /\ Becomes(p, "ok")
  /\ UNCHANGED <<v1, server, made, state, step, late, queue, stream, open, up, failed, faults>>

\* No reply in time, from a dead server or from a slow one: TimeoutError.  The
\* message of a put that was not stored may arrive later.
TimeOut(p) ==
  /\ p.st \in {"sent", "stored"}
  /\ \/ p.to \notin up /\ UNCHANGED faults
     \/ faults < MaxFaults /\ faults' = faults + 1
  /\ late' = IF p.st = "sent" /\ p.to \in up THEN late \cup {[to |-> p.to, outs |-> p.outs]} ELSE late
  /\ Becomes(p, "error")
  /\ failed' = failed \cup Requests(p.outs)
  /\ UNCHANGED <<v1, server, made, state, step, queue, stream, open, up>>

LateStore(m) ==
  /\ m.to \in up
  /\ queue' = [queue EXCEPT ![m.to] = Append(@, m.outs)]
  /\ late' = late \ {m}
  /\ UNCHANGED <<v1, server, made, state, step, puts, stream, open, up, failed, faults>>

\* The socket was closed without linger.
LateLost(m) ==
  /\ late' = late \ {m}
  /\ UNCHANGED <<v1, server, made, state, step, puts, queue, stream, open, up, failed, faults>>

\* Aborting every request of the step when one of its puts failed.
VictimsAll(P) == IF \E p \in P : p.st = "error" THEN UNION {Requests(p.outs) : p \in P} ELSE {}

\* The requests that are aborted when the puts P of a step have ended.
Victims(P) == UNION {Requests(p.outs) : p \in {q \in P : q.st = "error"}}

\* put_nowait_to_servers has gathered all puts of a step (one, in V1), and
\* aborts the requests of those that failed.
Gathered(n) ==
  LET P == {p \in puts : p.step = n} IN
  /\ P # {} /\ \A p \in P : p.st \in {"ok", "error"}
  /\ state' = [r \in Req |-> IF r \in Victims(P) /\ state[r] = "running" THEN "aborted" ELSE state[r]]
  /\ puts' = puts \ P
  /\ UNCHANGED <<v1, server, made, step, late, queue, stream, open, up, failed, faults>>

-------------------------------------------------------------------------------
(* The API servers                                                             *)

\* Leaving a batch at an output without a stream.
ApplyKnownOnly(outs) == IF Requests(outs) \subseteq open THEN Requests(outs) ELSE {}

\* The requests of a batch whose outputs go to a stream.
Apply(outs) == Requests(outs) \cap open

\* get_request_outputs_loop handles one batch.
Consume(s) ==
  /\ s \in up /\ queue[s] # << >>
  /\ queue' = [queue EXCEPT ![s] = Tail(@)]
  /\ LET outs == Head(queue[s]) IN
       /\ stream' = [r \in Req |-> IF r \in Apply(outs) THEN Append(stream[r], outs[r])
                                   ELSE stream[r]]
       /\ open' = open \ {r \in Apply(outs) : outs[r] = Final}
  /\ UNCHANGED <<v1, server, made, state, step, puts, late, up, failed, faults>>

ServerDies(s) ==
  /\ s \in up /\ faults < MaxFaults /\ faults' = faults + 1
  /\ up' = up \ {s}
  /\ queue' = [queue EXCEPT ![s] = << >>]
  /\ late' = {m \in late : m.to # s}
  /\ UNCHANGED <<v1, server, made, state, step, puts, stream, open, failed>>

-------------------------------------------------------------------------------
Next ==
  \/ StepV0
  \/ \E r \in Req : Arrive(r) \/ ForwardV1(r)
  \/ \E p \in puts : Store(p) \/ Reply(p) \/ TimeOut(p)
  \/ \E m \in late : LateStore(m) \/ LateLost(m)
  \/ \E n \in 0 .. step : Gathered(n)
  \/ \E s \in Srv : Consume(s) \/ ServerDies(s)

Spec == Init /\ [][Next]_vars

\* The engine goes on, every RPC ends, and the loop of a live server runs.
FairSpec ==
  /\ Spec
  /\ WF_vars(StepV0) /\ \A r \in Req : WF_vars(ForwardV1(r))
  /\ WF_vars(\E p \in puts : Store(p) \/ Reply(p) \/ (p.to \notin up /\ TimeOut(p)))
  /\ WF_vars(\E n \in 0 .. step : Gathered(n))
  /\ \A s \in Srv : WF_vars(Consume(s))

-------------------------------------------------------------------------------
(* Properties                                                                  *)

TypeOK ==
  /\ v1 \in BOOLEAN /\ server \in [Req -> Srv]
  /\ made \in [Req -> 0 .. Final] /\ state \in [Req -> {"none", "running", "finished", "aborted"}]
  /\ \A p \in puts : p.to \in Srv /\ p.st \in {"sent", "stored", "ok", "error"}
                     /\ Requests(p.outs) \subseteq Req /\ p.step \in 0 .. step - 1
  /\ \A m \in late : m.to \in Srv
  /\ stream \in [Req -> Seq(1 .. Final)] /\ open \subseteq Req /\ failed \subseteq Req
  /\ up \subseteq Srv /\ faults \in 0 .. MaxFaults

\* A V1 stream is given the outputs 1, 2, ... in order, none twice and none left
\* out, through timeouts and messages that arrive after their sender gave up.
StreamInOrder ==
  TypeOK /\ (v1 => \A r \in Req : stream[r] = [k \in 1 .. Len(stream[r]) |-> k])

\* A server that is dead or slow takes down its own requests only: a request is
\* aborted only when a put to its own server failed.
ServersIsolated == \A r \in Req : state[r] = "aborted" => r \in failed

\* The stream of a request that finished in its engine ends, although outputs of
\* several requests travel together and overtake each other, unless a put of its
\* outputs failed or its server died.
StreamsEnd ==
  \A r \in Req : state[r] = "finished" ~> (r \notin open \/ r \in failed \/ server[r] \notin up)
===============================================================================
