------------------------- MODULE OutputDeliveryProofs -------------------------
(***************************************************************************)
(* Proofs about OutputDelivery: the streams of V1 are in order and without *)
(* gaps, and a failing server takes down its own requests only, for any    *)
(* number of requests, servers, outputs, timeouts and server deaths.       *)
(***************************************************************************)
EXTENDS OutputDelivery, TLAPS

Batch == UNION {[R -> 1 .. Final] : R \in SUBSET Req}
PutStates == {"sent", "stored", "ok", "error"}

\* The shape of what is under way: every batch is for the server of its requests.
ShapeInv ==
  /\ step \in Nat
  /\ puts \subseteq [step : Nat, to : Srv, st : PutStates, outs : Batch]
  /\ late \subseteq [to : Srv, outs : Batch]
  /\ queue \in [Srv -> Seq(Batch)]
  /\ \A p \in puts : \A r \in DOMAIN p.outs : server[r] = p.to
  /\ \A m \in late : \A r \in DOMAIN m.outs : server[r] = m.to
  /\ \A s \in Srv : \A k \in DOMAIN queue[s] : \A r \in DOMAIN queue[s][k] : server[r] = s

\* A request that runs has an output left to make, one that has not arrived has
\* made none.
MadeInv ==
  \A r \in Req : /\ state[r] = "running" => made[r] < Final
                 /\ state[r] = "none" => made[r] = 0

\* The requests of a put that failed, and those that were aborted, have failed.
FailedInv ==
  /\ \A p \in puts : p.st = "error" => DOMAIN p.outs \subseteq failed
  /\ ServersIsolated

\* V1 has one put of a request at a time, with its latest output.  A message
\* whose sender gave up is the only one, and its request makes no more outputs.
Over(r) == state[r] \in {"finished", "aborted"}
Erred(r) == \E p \in puts : r \in DOMAIN p.outs /\ p.st = "error"

SingleInv ==
  /\ \A p, q \in puts : \A r \in Req : r \in DOMAIN p.outs /\ r \in DOMAIN q.outs => p = q
  /\ \A l, m \in late : \A r \in Req : r \in DOMAIN l.outs /\ r \in DOMAIN m.outs => l = m
  /\ \A p \in puts : \A r \in DOMAIN p.outs : p.outs[r] = made[r]
  /\ \A m \in late : \A r \in DOMAIN m.outs :
       /\ m.outs[r] = made[r]
       /\ Over(r) \/ Erred(r)
       /\ \A p \in puts : r \in DOMAIN p.outs => p.st = "error"

\* The latest output of r is still on its way.
Waiting(r) ==
  \/ \E p \in puts : r \in DOMAIN p.outs /\ p.st = "sent"
  \/ \E m \in late : r \in DOMAIN m.outs

\* What the queue of a server holds of a request goes up, starts after what its
\* stream was given and ends before what is on its way.
QueueInv ==
  \A s \in Srv, r \in Req :
    /\ \A k \in DOMAIN queue[s] : r \in DOMAIN queue[s][k] =>
         /\ Len(stream[r]) < queue[s][k][r] /\ queue[s][k][r] <= made[r]
         /\ Waiting(r) => queue[s][k][r] < made[r]
    /\ \A j, k \in DOMAIN queue[s] :
         j < k /\ r \in DOMAIN queue[s][j] /\ r \in DOMAIN queue[s][k]
           => queue[s][j][r] < queue[s][k][r]

\* Nothing is left out but the latest output, when it is on its way or its put
\* has failed.
CompleteInv ==
  \A r \in Req : server[r] \in up =>
    \A n \in 1 .. made[r] : n > Len(stream[r]) =>
      \/ \E k \in DOMAIN queue[server[r]] :
           r \in DOMAIN queue[server[r]][k] /\ queue[server[r]][k][r] = n
      \/ n = made[r] /\ (Waiting(r) \/ Over(r) \/ Erred(r))

\* The stream of a request: what it was given, and that it is closed at the end.
StreamInv ==
  \A r \in Req :
    /\ stream[r] = [k \in 1 .. Len(stream[r]) |-> k]
    /\ Len(stream[r]) <= made[r] /\ (Waiting(r) => Len(stream[r]) < made[r])
    /\ r \notin open => Len(stream[r]) = Final

\* The inductive invariant.
IInv ==
  /\ TypeOK /\ ShapeInv /\ MadeInv /\ FailedInv
  /\ v1 => SingleInv /\ QueueInv /\ CompleteInv /\ StreamInv

-------------------------------------------------------------------------------
(* The steps                                                                   *)

\* No output is made and nothing is under way at the start.
LEMMA InitInv == Init => IInv
<1>. SUFFICES ASSUME Init PROVE IInv
  OBVIOUS
<1>1. TypeOK
  BY DeliveryAssumption DEF Init, TypeOK
<1>2. ShapeInv /\ MadeInv /\ FailedInv
  BY DeliveryAssumption DEF Init, ShapeInv, MadeInv, FailedInv, ServersIsolated
<1>3. SingleInv /\ QueueInv /\ CompleteInv
  BY DEF Init, SingleInv, QueueInv, CompleteInv
<1>4. StreamInv
  BY DEF Init, StreamInv, Waiting
<1>. QED
  BY <1>1, <1>2, <1>3, <1>4 DEF IInv

\* A put that moves on keeps its step, its server and its batch.
LEMMA MovedPut ==
  ASSUME ShapeInv, NEW p \in puts, NEW st \in PutStates, Becomes(p, st)
  PROVE  \E x \in [step : Nat, to : Srv, st : PutStates, outs : Batch] :
           /\ puts' = (puts \ {p}) \cup {x}
           /\ x.step = p.step /\ x.to = p.to /\ x.outs = p.outs /\ x.st = st
<1>1. p \in [step : Nat, to : Srv, st : PutStates, outs : Batch]
  BY DEF ShapeInv
<1>2. PICK x : x = [p EXCEPT !.st = st]
  OBVIOUS
<1>3. x \in [step : Nat, to : Srv, st : PutStates, outs : Batch]
  BY <1>1, <1>2
<1>4. x.step = p.step /\ x.to = p.to /\ x.outs = p.outs /\ x.st = st
  BY <1>1, <1>2
<1>5. puts' = (puts \ {p}) \cup {x}
  BY <1>2 DEF Becomes
<1>. QED
  BY <1>3, <1>4, <1>5

\* The puts of a step carry the next outputs of its requests to their servers.
LEMMA NewPuts ==
  ASSUME TypeOK, ShapeInv, NEW R \in SUBSET Req, \A r \in R : made[r] < Final,
         NEW x \in PutsOf(R)
  PROVE  /\ x \in [step : Nat, to : Srv, st : PutStates, outs : Batch]
         /\ x.step = step /\ x.st = "sent"
         /\ \A r \in DOMAIN x.outs : r \in R /\ server[r] = x.to /\ x.outs[r] = made[r] + 1
<1>1. PICK s \in {server[r] : r \in R} :
        x = [step |-> step, to |-> s, st |-> "sent",
             outs |-> [r \in {y \in R : server[y] = s} |-> made[r] + 1]]
  BY DEF PutsOf
<1>2. PICK S \in SUBSET Req : S = {y \in R : server[y] = s}
  OBVIOUS
<1>3. PICK f : f = [r \in S |-> made[r] + 1]
  OBVIOUS
<1>4. f \in [S -> 1 .. Final]
  BY <1>2, <1>3, DeliveryAssumption DEF TypeOK
<1>5. f \in Batch
  BY <1>4 DEF Batch
<1>6. x = [step |-> step, to |-> s, st |-> "sent", outs |-> f] /\ s \in Srv
  BY <1>1, <1>2, <1>3 DEF TypeOK
<1>7. x \in [step : Nat, to : Srv, st : PutStates, outs : Batch]
  BY <1>5, <1>6 DEF ShapeInv, PutStates
<1>. QED
  BY <1>2, <1>3, <1>6, <1>7

\* V1 puts one output of one request.
LEMMA NewPut ==
  ASSUME TypeOK, ShapeInv, NEW r \in Req, made[r] < Final
  PROVE  \E x \in [step : Nat, to : Srv, st : PutStates, outs : Batch] :
           /\ PutsOf({r}) = {x}
           /\ x.step = step /\ x.st = "sent" /\ x.to = server[r]
           /\ DOMAIN x.outs = {r} /\ x.outs[r] = made[r] + 1
<1>1. PICK x : x = [step |-> step, to |-> server[r], st |-> "sent",
                    outs |-> [y \in {z \in {r} : server[z] = server[r]} |-> made[y] + 1]]
  OBVIOUS
<1>2. PutsOf({r}) = {x}
  BY <1>1 DEF PutsOf
<1>3. x \in [step : Nat, to : Srv, st : PutStates, outs : Batch]
  BY <1>2, NewPuts
<1>4. DOMAIN x.outs = {r} /\ x.outs[r] = made[r] + 1
  BY <1>1
<1>. QED
  BY <1>1, <1>2, <1>3, <1>4

\* What is known of a batch that is queued.
LEMMA QueuedBatch ==
  ASSUME ShapeInv
  PROVE  \A s \in Srv : \A k \in DOMAIN queue[s] :
           queue[s][k] \in Batch /\ DOMAIN queue[s][k] \subseteq Req
           /\ \A r \in DOMAIN queue[s][k] : queue[s][k][r] \in 1 .. Final
<1>1. \A s \in Srv : \A k \in DOMAIN queue[s] : queue[s][k] \in Batch
  BY DEF ShapeInv
<1>2. \A b \in Batch : DOMAIN b \subseteq Req /\ \A r \in DOMAIN b : b[r] \in 1 .. Final
  BY DEF Batch
<1>. QED
  BY <1>1, <1>2

\* Storing a batch for its own server keeps the shape of the queues.
LEMMA PushedShape ==
  ASSUME ShapeInv, NEW t \in Srv, NEW b \in Batch, \A r \in DOMAIN b : server[r] = t,
         queue' = [queue EXCEPT ![t] = Append(@, b)]
  PROVE  /\ queue' \in [Srv -> Seq(Batch)]
         /\ \A s \in Srv : \A k \in DOMAIN queue'[s] : \A r \in DOMAIN queue'[s][k] : server[r] = s
<1>1. queue' \in [Srv -> Seq(Batch)]
  BY DEF ShapeInv
<1>2. \A s \in Srv : s # t => queue'[s] = queue[s]
  BY DEF ShapeInv
<1>3. queue'[t] = Append(queue[t], b) /\ queue[t] \in Seq(Batch)
  BY DEF ShapeInv
<1>4. \A k \in DOMAIN queue'[t] : \/ k \in DOMAIN queue[t] /\ queue'[t][k] = queue[t][k]
                                  \/ queue'[t][k] = b
  BY <1>3
<1>. QED
  BY <1>1, <1>2, <1>4 DEF ShapeInv

\* A put that moves on, but does not fail, keeps what V1 knows of its puts.
LEMMA MovedSingle ==
  ASSUME SingleInv, NEW p \in puts, p.st # "error", NEW x, x.outs = p.outs,
         puts' = (puts \ {p}) \cup {x}, UNCHANGED <<made, state, late>>
  PROVE  SingleInv'
<1>1. \A r : Over(r) => Over(r)'
  BY DEF Over
<1>2. \A r : Erred(r) => Erred(r)'
  BY DEF Erred
<1>3. \A q \in puts' : \E o \in puts : q.outs = o.outs /\ (o.st = "error" => q.st = "error")
  OBVIOUS
<1>4. \A q, o \in puts' : \A r \in Req : r \in DOMAIN q.outs /\ r \in DOMAIN o.outs => q = o
  BY DEF SingleInv
<1>5. \A q \in puts' : \A r \in DOMAIN q.outs : q.outs[r] = made[r]
  BY DEF SingleInv
<1>6. \A m \in late : \A r \in DOMAIN m.outs :
        /\ m.outs[r] = made[r]
        /\ Over(r)' \/ Erred(r)'
        /\ \A q \in puts' : r \in DOMAIN q.outs => q.st = "error"
  BY <1>1, <1>2, <1>3 DEF SingleInv
<1>. QED
  BY <1>4, <1>5, <1>6 DEF SingleInv

\* The batch b of server t was on its way and is stored.
Pushed(t, b) ==
  /\ queue' = [queue EXCEPT ![t] = Append(@, b)]
  /\ UNCHANGED <<stream, made, state, server, up>>
  /\ \A r \in DOMAIN b : server[r] = t /\ b[r] = made[r] /\ Waiting(r) /\ ~Waiting(r)'
  /\ \A r \in Req : r \notin DOMAIN b =>
       (Waiting(r)' <=> Waiting(r)) /\ (Erred(r) => Erred(r)')

\* A batch that is stored continues what the queue holds of its requests.
LEMMA PushedQueue ==
  ASSUME IInv, v1, NEW t \in Srv, NEW b \in Batch, Pushed(t, b)
  PROVE  QueueInv'
<1>1. \A s \in Srv : s # t => queue'[s] = queue[s]
  BY DEF IInv, ShapeInv, Pushed
<1>2. queue'[t] = Append(queue[t], b) /\ queue[t] \in Seq(Batch)
  BY DEF IInv, ShapeInv, Pushed
<1>3. PICK L \in Nat : L = Len(queue[t]) /\ DOMAIN queue[t] = 1 .. L
  BY <1>2
<1>4. /\ DOMAIN queue'[t] = 1 .. L + 1 /\ queue'[t][L + 1] = b
      /\ \A k \in 1 .. L : queue'[t][k] = queue[t][k]
  BY <1>2, <1>3
<1>5. \A r \in DOMAIN b : r \in Req /\ b[r] = made[r] /\ Len(stream[r]) < made[r] /\ made[r] \in Nat
  BY DEF IInv, TypeOK, StreamInv, Pushed, Batch
<1>6. ASSUME NEW s \in Srv, NEW r \in Req, NEW k \in DOMAIN queue[s], r \in DOMAIN queue[s][k]
      PROVE  /\ Len(stream[r]) < queue[s][k][r] /\ queue[s][k][r] <= made[r]
             /\ Waiting(r)' => queue[s][k][r] < made[r]
             /\ r \in DOMAIN b => queue[s][k][r] < made[r]
  <2>1. r \in DOMAIN b => Waiting(r)
    BY DEF Pushed
  <2>2. Waiting(r)' => Waiting(r)
    BY DEF Pushed
  <2>. QED
    BY <1>6, <2>1, <2>2 DEF IInv, QueueInv
<1>7. ASSUME NEW s \in Srv, NEW r \in Req, s # t
      PROVE  /\ \A k \in DOMAIN queue'[s] : r \in DOMAIN queue'[s][k] =>
                  /\ Len(stream'[r]) < queue'[s][k][r] /\ queue'[s][k][r] <= made'[r]
                  /\ Waiting(r)' => queue'[s][k][r] < made'[r]
             /\ \A j, k \in DOMAIN queue'[s] :
                  j < k /\ r \in DOMAIN queue'[s][j] /\ r \in DOMAIN queue'[s][k]
                    => queue'[s][j][r] < queue'[s][k][r]
  BY <1>1, <1>6, <1>7 DEF Pushed, IInv, QueueInv
<1>8. ASSUME NEW r \in Req
      PROVE  /\ \A k \in DOMAIN queue'[t] : r \in DOMAIN queue'[t][k] =>
                  /\ Len(stream'[r]) < queue'[t][k][r] /\ queue'[t][k][r] <= made'[r]
                  /\ Waiting(r)' => queue'[t][k][r] < made'[r]
             /\ \A j, k \in DOMAIN queue'[t] :
                  j < k /\ r \in DOMAIN queue'[t][j] /\ r \in DOMAIN queue'[t][k]
                    => queue'[t][j][r] < queue'[t][k][r]
  <2>1. stream' = stream /\ made' = made
    BY DEF Pushed
  <2>2. r \in DOMAIN b => ~Waiting(r)'
    BY DEF Pushed
  <2>3. ASSUME NEW k \in 1 .. L + 1, r \in DOMAIN queue'[t][k]
        PROVE  /\ Len(stream[r]) < queue'[t][k][r] /\ queue'[t][k][r] <= made[r]
               /\ Waiting(r)' => queue'[t][k][r] < made[r]
    <3>1. CASE k = L + 1
      BY <1>4, <1>5, <2>2, <2>3, <3>1
    <3>2. CASE k \in 1 .. L
      BY <1>3, <1>4, <1>6, <2>3, <3>2
    <3>. QED
      BY <3>1, <3>2
  <2>4. ASSUME NEW j \in 1 .. L + 1, NEW k \in 1 .. L + 1, j < k,
               r \in DOMAIN queue'[t][j], r \in DOMAIN queue'[t][k]
        PROVE  queue'[t][j][r] < queue'[t][k][r]
    <3>1. CASE k = L + 1
      BY <1>3, <1>4, <1>5, <1>6, <2>4, <3>1
    <3>2. CASE k \in 1 .. L
      BY <1>3, <1>4, <2>4, <3>2 DEF IInv, QueueInv
    <3>. QED
      BY <3>1, <3>2
  <2>. QED
    BY <1>4, <2>1, <2>3, <2>4
<1>. QED
  BY <1>7, <1>8 DEF QueueInv

\* Storing the latest output leaves nothing out.
LEMMA PushedComplete ==
  ASSUME IInv, v1, NEW t \in Srv, NEW b \in Batch, Pushed(t, b)
  PROVE  CompleteInv'
<1>. SUFFICES ASSUME NEW r \in Req, server[r] \in up, NEW n \in 1 .. made[r], n > Len(stream[r])
              PROVE  \/ \E k \in DOMAIN queue'[server[r]] :
                          r \in DOMAIN queue'[server[r]][k] /\ queue'[server[r]][k][r] = n
                     \/ n = made[r] /\ (Waiting(r)' \/ Over(r)' \/ Erred(r)')
  BY DEF Pushed, CompleteInv
<1>1. \A s \in Srv : s # t => queue'[s] = queue[s]
  BY DEF IInv, ShapeInv, Pushed
<1>2. queue'[t] = Append(queue[t], b) /\ queue[t] \in Seq(Batch)
  BY DEF IInv, ShapeInv, Pushed
<1>3. \A k \in DOMAIN queue[t] : k \in DOMAIN queue'[t] /\ queue'[t][k] = queue[t][k]
  BY <1>2
<1>4. \E k \in DOMAIN queue'[t] : queue'[t][k] = b
  BY <1>2
<1>5. server[r] \in Srv
  BY DEF IInv, TypeOK
<1>6. \A k \in DOMAIN queue[server[r]] :
        k \in DOMAIN queue'[server[r]] /\ queue'[server[r]][k] = queue[server[r]][k]
  BY <1>1, <1>3, <1>5
<1>7. \/ \E k \in DOMAIN queue[server[r]] :
           r \in DOMAIN queue[server[r]][k] /\ queue[server[r]][k][r] = n
      \/ n = made[r] /\ (Waiting(r) \/ Over(r) \/ Erred(r))
  BY DEF IInv, CompleteInv
<1>8. Over(r)' = Over(r)
  BY DEF Over, Pushed
<1>9. CASE r \in DOMAIN b
  BY <1>4, <1>6, <1>7, <1>9 DEF Pushed
<1>10. CASE r \notin DOMAIN b
  BY <1>6, <1>7, <1>8, <1>10 DEF Pushed
<1>. QED
  BY <1>9, <1>10

\* What Store(p) does, as the storing of a batch.
StoredPut(p) == p.to \in Srv /\ p.outs \in Batch /\ Pushed(p.to, p.outs)

\* ZmqServer stores a batch that was on its way.
LEMMA StoredFacts ==
  ASSUME IInv, v1, NEW p \in puts, Store(p)
  PROVE  StoredPut(p)
<1>1. PICK x \in [step : Nat, to : Srv, st : PutStates, outs : Batch] :
        puts' = (puts \ {p}) \cup {x} /\ x.outs = p.outs /\ x.st = "stored"
  BY MovedPut DEF IInv, Store, PutStates
<1>2. p.to \in Srv /\ p.outs \in Batch /\ p.st = "sent" /\ DOMAIN p.outs \subseteq Req
      /\ \A r \in DOMAIN p.outs : server[r] = p.to
  BY DEF IInv, ShapeInv, Store, Batch
<1>3. late' = late
  BY DEF Store
<1>4. ASSUME NEW r \in DOMAIN p.outs PROVE p.outs[r] = made[r] /\ Waiting(r) /\ ~Waiting(r)'
  BY <1>1, <1>2, <1>3 DEF IInv, SingleInv, Waiting
<1>5. ASSUME NEW r \in Req, r \notin DOMAIN p.outs
      PROVE  (Waiting(r)' <=> Waiting(r)) /\ (Erred(r) => Erred(r)')
  BY <1>1, <1>3, <1>5 DEF Waiting, Erred
<1>. QED
  BY <1>2, <1>4, <1>5 DEF StoredPut, Pushed, Store

\* What LateStore(m) does, as the storing of a batch.
LEMMA LateStoredFacts ==
  ASSUME IInv, v1, NEW m \in late, LateStore(m)
  PROVE  m.to \in Srv /\ m.outs \in Batch /\ Pushed(m.to, m.outs)
<1>1. m.to \in Srv /\ m.outs \in Batch /\ DOMAIN m.outs \subseteq Req
      /\ \A r \in DOMAIN m.outs : server[r] = m.to
  BY DEF IInv, ShapeInv, Batch
<1>2. late' = late \ {m} /\ puts' = puts
  BY DEF LateStore
<1>3. ASSUME NEW r \in DOMAIN m.outs PROVE m.outs[r] = made[r] /\ Waiting(r) /\ ~Waiting(r)'
  BY <1>1, <1>2 DEF IInv, SingleInv, Waiting
<1>4. ASSUME NEW r \in Req, r \notin DOMAIN m.outs
      PROVE  (Waiting(r)' <=> Waiting(r)) /\ (Erred(r) => Erred(r)')
  BY <1>2, <1>4 DEF Waiting, Erred
<1>. QED
  BY <1>1, <1>3, <1>4 DEF Pushed, LateStore

\* A put that fails: its message may be on its way still, and its requests have
\* erred.
LEMMA TimeOutFacts ==
  ASSUME IInv, NEW p \in puts, TimeOut(p)
  PROVE  \E x \in [step : Nat, to : Srv, st : PutStates, outs : Batch] :
           /\ puts' = (puts \ {p}) \cup {x}
           /\ x.step = p.step /\ x.to = p.to /\ x.outs = p.outs /\ x.st = "error"
           /\ late' = late \/ (p.st = "sent" /\ late' = late \cup {[to |-> p.to, outs |-> p.outs]})
           /\ \A r : Erred(r) => Erred(r)'
           /\ \A r \in DOMAIN p.outs : Erred(r)'
           /\ \A r : (Waiting(r)' => Waiting(r)) /\ (Waiting(r) => Waiting(r)' \/ Erred(r)')
<1>1. PICK x \in [step : Nat, to : Srv, st : PutStates, outs : Batch] :
        /\ puts' = (puts \ {p}) \cup {x}
        /\ x.step = p.step /\ x.to = p.to /\ x.outs = p.outs /\ x.st = "error"
  BY MovedPut DEF IInv, TimeOut, PutStates
<1>2. late' = late \/ (p.st = "sent" /\ late' = late \cup {[to |-> p.to, outs |-> p.outs]})
  BY DEF TimeOut
<1>3. \A r : Erred(r) => Erred(r)'
  BY <1>1 DEF Erred
<1>4. \A r \in DOMAIN p.outs : Erred(r)'
  BY <1>1 DEF Erred
<1>5. ASSUME NEW r PROVE (Waiting(r)' => Waiting(r)) /\ (Waiting(r) => Waiting(r)' \/ Erred(r)')
  BY <1>1, <1>2, <1>4 DEF Waiting
<1>. QED
  BY <1>1, <1>2, <1>3, <1>4, <1>5

\* The put_nowait_to_servers call that has gathered its puts aborts the requests
\* of those that failed.
LEMMA GatheredFacts ==
  ASSUME IInv, v1, NEW n \in 0 .. step, Gathered(n)
  PROVE  /\ puts' \subseteq puts
         /\ \A r \in Req : Over(r) => Over(r)'
         /\ \A r \in Req : Erred(r) => Erred(r)' \/ Over(r)'
         /\ \A r : Waiting(r)' <=> Waiting(r)
<1>1. /\ puts' = puts \ {p \in puts : p.step = n}
      /\ \A p \in puts : p.step = n => p.st \in {"ok", "error"}
  BY DEF Gathered
<1>2. \A r \in Req : Over(r) => Over(r)'
  BY DEF Gathered, Over
<1>3. ASSUME NEW r \in Req, NEW p \in puts, r \in DOMAIN p.outs, p.st = "error", p.step = n
      PROVE  Over(r)'
  <2>1. r \in Victims({q \in puts : q.step = n})
    BY <1>3 DEF Victims, Requests
  <2>2. made[r] = p.outs[r] /\ p.outs[r] \in 1 .. Final
    BY <1>3 DEF IInv, SingleInv, ShapeInv, Batch
  <2>3. state[r] # "none"
    BY <2>2 DEF IInv, MadeInv
  <2>. QED
    BY <2>1, <2>3 DEF IInv, TypeOK, Gathered, Over
<1>4. \A r \in Req : Erred(r) => Erred(r)' \/ Over(r)'
  BY <1>1, <1>3 DEF Erred
<1>5. \A r : Waiting(r)' <=> Waiting(r)
  BY <1>1 DEF Gathered, Waiting
<1>. QED
  BY <1>1, <1>2, <1>4, <1>5

\* The first batch of a queue continues the streams of its requests, which are
\* open.
LEMMA HeadContinues ==
  ASSUME IInv, v1, NEW s \in up, queue[s] # << >>, NEW r \in DOMAIN queue[s][1]
  PROVE  /\ r \in Req /\ r \in open /\ server[r] = s
         /\ queue[s][1][r] = Len(stream[r]) + 1
<1>1. s \in Srv /\ queue[s] \in Seq(Batch) /\ 1 \in DOMAIN queue[s]
  BY DEF IInv, TypeOK, ShapeInv
<1>2. r \in Req /\ queue[s][1][r] \in 1 .. Final /\ server[r] = s
  BY <1>1, QueuedBatch DEF IInv, ShapeInv
<1>3. Len(stream[r]) \in Nat /\ made[r] \in 0 .. Final /\ Final \in Nat
  BY <1>2, DeliveryAssumption DEF IInv, TypeOK
<1>4. Len(stream[r]) < queue[s][1][r] /\ queue[s][1][r] <= made[r]
  BY <1>1, <1>2 DEF IInv, QueueInv
<1>5. r \in open
  <2>1. r \notin open => Len(stream[r]) = Final
    BY <1>2 DEF IInv, StreamInv
  <2>. QED
    BY <1>2, <1>3, <1>4, <2>1
<1>6. ASSUME queue[s][1][r] # Len(stream[r]) + 1 PROVE FALSE
  <2>1. PICK n \in 1 .. made[r] : n = Len(stream[r]) + 1 /\ n < queue[s][1][r]
    BY <1>2, <1>3, <1>4, <1>6
  <2>2. n # made[r] /\ n > Len(stream[r])
    BY <1>2, <1>3, <1>4, <2>1
  <2>3. PICK k \in DOMAIN queue[s] : r \in DOMAIN queue[s][k] /\ queue[s][k][r] = n
    BY <1>2, <2>1, <2>2 DEF IInv, CompleteInv
  <2>4. 1 < k
    BY <1>1, <2>1, <2>3
  <2>5. queue[s][1][r] < queue[s][k][r]
    BY <1>1, <1>2, <2>3, <2>4 DEF IInv, QueueInv
  <2>. QED
    BY <1>2, <1>3, <2>1, <2>3, <2>5
<1>. QED
  BY <1>2, <1>5, <1>6

\* Taking the first batch off a queue.
LEMMA Popped ==
  ASSUME ShapeInv, NEW s \in Srv, queue[s] # << >>, queue' = [queue EXCEPT ![s] = Tail(@)]
  PROVE  /\ queue' \in [Srv -> Seq(Batch)]
         /\ \A t \in Srv : t # s => queue'[t] = queue[t]
         /\ \A k \in DOMAIN queue'[s] : k + 1 \in DOMAIN queue[s] /\ queue'[s][k] = queue[s][k + 1]
                                        /\ k \in Nat /\ 1 < k + 1
         /\ \A k \in DOMAIN queue[s] : k # 1 => k - 1 \in DOMAIN queue'[s] /\ queue'[s][k - 1] = queue[s][k]
         /\ 1 \in DOMAIN queue[s] /\ Head(queue[s]) = queue[s][1]
<1>1. queue[s] \in Seq(Batch) /\ queue'[s] = Tail(queue[s])
  BY DEF ShapeInv
<1>2. Len(queue[s]) \in Nat \ {0} /\ DOMAIN queue[s] = 1 .. Len(queue[s])
  BY <1>1
<1>3. PICK q \in Seq(Batch) : q = queue[s] /\ q # << >> /\ queue'[s] = Tail(q)
  BY <1>1
<1>4. /\ Tail(q) \in Seq(Batch) /\ DOMAIN Tail(q) = 1 .. Len(q) - 1
      /\ \A k \in 1 .. Len(q) - 1 : Tail(q)[k] = q[k + 1]
  <2>1. Tail(q) \in Seq(Batch) /\ Len(Tail(q)) = Len(q) - 1
    BY <1>3
  <2>2. DOMAIN Tail(q) = 1 .. Len(q) - 1
    BY <2>1
  <2>. QED
    BY <1>3, <2>1, <2>2
<1>5. queue' \in [Srv -> Seq(Batch)] /\ \A t \in Srv : t # s => queue'[t] = queue[t]
  BY <1>3, <1>4 DEF ShapeInv
<1>. QED
  BY <1>2, <1>3, <1>4, <1>5

\* What a batch does to the streams of V1: each of its requests gets its next
\* output.
LEMMA ConsumeFacts ==
  ASSUME IInv, v1, NEW s \in Srv, Consume(s)
  PROVE  /\ \A r \in Req : r \notin DOMAIN queue[s][1] => stream'[r] = stream[r]
         /\ \A r \in DOMAIN queue[s][1] :
              /\ r \in Req /\ server[r] = s /\ queue[s][1][r] = Len(stream[r]) + 1
              /\ stream'[r] = Append(stream[r], Len(stream[r]) + 1)
              /\ Len(stream'[r]) = Len(stream[r]) + 1
         /\ \A r \in Req : r \in open /\ r \notin open' =>
              r \in DOMAIN queue[s][1] /\ queue[s][1][r] = Final
         /\ \A r : Waiting(r)' <=> Waiting(r)
<1>1. s \in up /\ queue[s] # << >> /\ queue' = [queue EXCEPT ![s] = Tail(@)]
  BY DEF Consume
<1>2. Head(queue[s]) = queue[s][1]
  BY <1>1, Popped DEF IInv
<1>3. \A r \in DOMAIN queue[s][1] : r \in Req /\ r \in open /\ server[r] = s
                                    /\ queue[s][1][r] = Len(stream[r]) + 1
  BY <1>1, HeadContinues
<1>4. \A r \in Req : stream'[r] = IF r \in Apply(queue[s][1]) THEN Append(stream[r], queue[s][1][r])
                                  ELSE stream[r]
  BY <1>2 DEF Consume
<1>5. Apply(queue[s][1]) = DOMAIN queue[s][1]
  BY <1>3 DEF Apply, Requests
<1>6. \A r \in Req : stream[r] \in Seq(1 .. Final)
  BY DEF IInv, TypeOK
<1>7. \A r \in DOMAIN queue[s][1] : stream'[r] = Append(stream[r], Len(stream[r]) + 1)
                                    /\ Len(stream'[r]) = Len(stream[r]) + 1
  <2>1. \A q \in Seq(1 .. Final) : Len(Append(q, Len(q) + 1)) = Len(q) + 1
    OBVIOUS
  <2>. QED
    BY <1>3, <1>4, <1>5, <1>6, <2>1
<1>8. \A r \in Req : r \in open /\ r \notin open' =>
        r \in DOMAIN queue[s][1] /\ queue[s][1][r] = Final
  BY <1>2, <1>5 DEF Consume
<1>9. \A r : Waiting(r)' <=> Waiting(r)
  BY DEF Consume, Waiting
<1>. QED
  BY <1>3, <1>4, <1>5, <1>7, <1>8, <1>9

\* A request that arrives has no outputs yet.
LEMMA ArriveStep ==
  ASSUME IInv, NEW r \in Req, Arrive(r)
  PROVE  IInv'
<1>1. TypeOK'
  BY DeliveryAssumption DEF IInv, TypeOK, Requests, ShapeInv, MadeInv, Arrive
<1>2. ShapeInv'
  BY DeliveryAssumption DEF IInv, TypeOK, ShapeInv, Arrive
<1>3. MadeInv'
  BY DeliveryAssumption DEF IInv, TypeOK, MadeInv, Arrive
<1>4. FailedInv'
  BY DeliveryAssumption DEF IInv, TypeOK, FailedInv, ServersIsolated, ShapeInv,
     Arrive
<1>5. v1 => SingleInv'
  BY DeliveryAssumption DEF IInv, TypeOK, ShapeInv, MadeInv, SingleInv, Over, Erred,
     Arrive
<1>6. v1 => QueueInv'
  BY DeliveryAssumption DEF IInv, TypeOK, ShapeInv, MadeInv, SingleInv, QueueInv,
     Waiting, Arrive
<1>7. v1 => CompleteInv'
  <2>1. \A s \in Req : Over(s) => Over(s)'
    BY DEF IInv, TypeOK, Arrive, Over
  <2>2. \A s \in Req : (Waiting(s) => Waiting(s)') /\ (Erred(s) => Erred(s)')
    BY DEF Arrive, Waiting, Erred
  <2>. QED
    BY <2>1, <2>2 DEF IInv, CompleteInv, Arrive
<1>8. v1 => StreamInv'
  BY DeliveryAssumption DEF IInv, TypeOK, ShapeInv, StreamInv, Waiting, Arrive
<1>. QED
  BY <1>1, <1>2, <1>3, <1>4, <1>5, <1>6, <1>7, <1>8 DEF IInv, Arrive

\* A step of vLLM 0.6 makes the next outputs of all running requests.
LEMMA StepV0Step ==
  ASSUME IInv, StepV0
  PROVE  IInv'
<1>1. TypeOK'
  <2>1. PICK R \in SUBSET Req : R = {r \in Req : state[r] = "running"}
    OBVIOUS
  <2>2. Produce(R) /\ puts' = puts \cup PutsOf(R)
    BY <2>1 DEF StepV0
  <2>3. \A r \in R : made[r] < Final
    BY <2>1 DEF IInv, MadeInv
  <2>4. made' \in [Req -> 0 .. Final]
    BY <2>2, <2>3, DeliveryAssumption DEF IInv, TypeOK, Produce
  <2>5. state' \in [Req -> {"none", "running", "finished", "aborted"}]
    BY <2>2 DEF IInv, TypeOK, Produce
  <2>6. step' = step + 1 /\ step \in Nat
    BY <2>2 DEF IInv, ShapeInv, Produce
  <2>7. \A p \in puts' : p.to \in Srv /\ p.st \in {"sent", "stored", "ok", "error"}
                         /\ Requests(p.outs) \subseteq Req /\ p.step \in 0 .. step' - 1
    <3>1. \A p \in PutsOf(R) : p.to \in Srv /\ p.st = "sent" /\ DOMAIN p.outs \subseteq Req /\ p.step = step
      BY <2>3, NewPuts DEF IInv
    <3>2. \A p \in puts : p.to \in Srv /\ p.st \in {"sent", "stored", "ok", "error"}
                           /\ DOMAIN p.outs \subseteq Req /\ p.step \in 0 .. step - 1
      BY DEF IInv, TypeOK, Requests
    <3>. QED
      BY <2>2, <2>6, <3>1, <3>2 DEF Requests
  <2>8. UNCHANGED <<v1, server, late, stream, open, failed, up, faults>>
    BY DEF StepV0
  <2>. QED
    BY <2>4, <2>5, <2>7, <2>8 DEF IInv, TypeOK
<1>2. ShapeInv'
  <2>1. PICK R \in SUBSET Req : R = {r \in Req : state[r] = "running"}
    OBVIOUS
  <2>2. puts' = puts \cup PutsOf(R) /\ step' = step + 1
    BY <2>1 DEF StepV0, Produce
  <2>3. \A r \in R : made[r] < Final
    BY <2>1 DEF IInv, MadeInv
  <2>. QED
    BY <2>2, <2>3, NewPuts DEF IInv, ShapeInv, StepV0
<1>3. MadeInv'
  BY DeliveryAssumption DEF IInv, TypeOK, MadeInv, StepV0, Produce
<1>4. FailedInv'
  <2>1. PICK R \in SUBSET Req : R = {r \in Req : state[r] = "running"}
    OBVIOUS
  <2>2. puts' = puts \cup PutsOf(R) /\ \A r \in Req : state'[r] = "aborted" => state[r] = "aborted"
    BY <2>1 DEF StepV0, Produce
  <2>3. \A r \in R : made[r] < Final
    BY <2>1 DEF IInv, MadeInv
  <2>4. \A x \in PutsOf(R) : x.st = "sent"
    BY <2>3, NewPuts DEF IInv
  <2>. QED
    BY <2>2, <2>4 DEF IInv, FailedInv, ServersIsolated, StepV0
<1>5. v1 => SingleInv'
  BY DeliveryAssumption DEF IInv, TypeOK, ShapeInv, MadeInv, SingleInv, Over, Erred,
     StepV0, Produce
<1>6. v1 => QueueInv'
  BY DeliveryAssumption DEF IInv, TypeOK, ShapeInv, MadeInv, SingleInv, QueueInv,
     Waiting, StepV0, Produce
<1>7. v1 => CompleteInv'
  BY DeliveryAssumption DEF IInv, TypeOK, ShapeInv, MadeInv, SingleInv, CompleteInv,
     Waiting, Over, Erred, StepV0, Produce
<1>8. v1 => StreamInv'
  BY DeliveryAssumption DEF IInv, TypeOK, ShapeInv, StreamInv, Waiting, StepV0,
     Produce
<1>. QED
  BY <1>1, <1>2, <1>3, <1>4, <1>5, <1>6, <1>7, <1>8 DEF IInv, StepV0

\* V1 makes the next output when the put before has ended well: everything made so
\* far is in the stream or in the queue.
LEMMA ForwardV1Step ==
  ASSUME IInv, NEW r \in Req, ForwardV1(r)
  PROVE  IInv'
<1>1. TypeOK'
  <2>1. made[r] < Final
    BY DEF IInv, MadeInv, ForwardV1
  <2>2. PICK x \in [step : Nat, to : Srv, st : PutStates, outs : Batch] :
          /\ PutsOf({r}) = {x}
          /\ x.step = step /\ DOMAIN x.outs = {r}
    BY <2>1, NewPut DEF IInv
  <2>3. puts' = puts \cup {x} /\ step' = step + 1 /\ step \in Nat
    BY <2>2 DEF ForwardV1, Produce, IInv, ShapeInv
  <2>4. made' \in [Req -> 0 .. Final]
    BY <2>1, DeliveryAssumption DEF IInv, TypeOK, ForwardV1, Produce
  <2>5. state' \in [Req -> {"none", "running", "finished", "aborted"}]
    BY DEF IInv, TypeOK, ForwardV1, Produce
  <2>6. \A p \in puts' : p.to \in Srv /\ p.st \in {"sent", "stored", "ok", "error"}
                         /\ Requests(p.outs) \subseteq Req /\ p.step \in 0 .. step' - 1
    BY <2>2, <2>3 DEF IInv, TypeOK, Requests, PutStates
  <2>7. UNCHANGED <<v1, server, late, stream, open, failed, up, faults>>
    BY DEF ForwardV1
  <2>. QED
    BY <2>4, <2>5, <2>6, <2>7 DEF IInv, TypeOK
<1>2. ShapeInv'
  <2>1. made[r] < Final
    BY DEF IInv, MadeInv, ForwardV1
  <2>2. PICK x \in [step : Nat, to : Srv, st : PutStates, outs : Batch] :
          PutsOf({r}) = {x} /\ x.to = server[r] /\ DOMAIN x.outs = {r}
    BY <2>1, NewPut DEF IInv
  <2>3. puts' = puts \cup {x} /\ step' = step + 1
    BY <2>2 DEF ForwardV1, Produce
  <2>4. puts' \subseteq [step : Nat, to : Srv, st : PutStates, outs : Batch]
    BY <2>2, <2>3 DEF IInv, ShapeInv
  <2>5. \A p \in puts' : \A y \in DOMAIN p.outs : server[y] = p.to
    BY <2>2, <2>3 DEF IInv, ShapeInv
  <2>6. UNCHANGED <<late, queue, server>> /\ step' \in Nat
    BY <2>3 DEF IInv, ShapeInv, ForwardV1
  <2>. QED
    BY <2>4, <2>5, <2>6 DEF IInv, ShapeInv
<1>3. MadeInv'
  BY DeliveryAssumption DEF IInv, TypeOK, MadeInv, ForwardV1, Produce
<1>4. FailedInv'
  <2>1. made[r] < Final
    BY DEF IInv, MadeInv, ForwardV1
  <2>2. PICK x : PutsOf({r}) = {x} /\ x.st = "sent"
    BY <2>1, NewPut DEF IInv
  <2>3. puts' = puts \cup {x} /\ \A y \in Req : state'[y] = "aborted" => state[y] = "aborted"
    BY <2>2 DEF ForwardV1, Produce
  <2>. QED
    BY <2>2, <2>3 DEF IInv, FailedInv, ServersIsolated, ForwardV1
<1>5. v1 => SingleInv'
  <2>. SUFFICES ASSUME v1 PROVE SingleInv'
    OBVIOUS
  <2>1. made[r] < Final /\ state[r] = "running" /\ \A p \in puts : r \notin DOMAIN p.outs
    BY DEF IInv, MadeInv, ForwardV1, Requests
  <2>2. PICK x \in [step : Nat, to : Srv, st : PutStates, outs : Batch] :
          /\ PutsOf({r}) = {x}
          /\ x.st = "sent" /\ DOMAIN x.outs = {r} /\ x.outs[r] = made[r] + 1
    BY <2>1, NewPut DEF IInv
  <2>3. puts' = puts \cup {x} /\ late' = late
    BY <2>2 DEF ForwardV1
  <2>4. /\ made'[r] = made[r] + 1
        /\ \A y \in Req : y # r => made'[y] = made[y] /\ state'[y] = state[y]
    BY DEF ForwardV1, Produce
  <2>5. \A m \in late : r \notin DOMAIN m.outs
    BY <2>1 DEF IInv, SingleInv, Over, Erred
  <2>6. \A p \in puts : DOMAIN p.outs \subseteq Req
    BY DEF IInv, TypeOK, Requests
  <2>7. \A m \in late : DOMAIN m.outs \subseteq Req
    BY DEF IInv, ShapeInv, Batch
  <2>8. \A y \in Req : y # r => (Over(y) => Over(y)') /\ (Erred(y) => Erred(y)')
    BY <2>3, <2>4 DEF Over, Erred
  <2>9. \A p, q \in puts' : \A y \in Req : y \in DOMAIN p.outs /\ y \in DOMAIN q.outs => p = q
    BY <2>1, <2>2, <2>3 DEF IInv, SingleInv
  <2>10. \A p \in puts' : \A y \in DOMAIN p.outs : p.outs[y] = made'[y]
    BY <2>1, <2>2, <2>3, <2>4, <2>6 DEF IInv, SingleInv
  <2>11. \A m \in late' : \A y \in DOMAIN m.outs :
           /\ m.outs[y] = made'[y]
           /\ Over(y)' \/ Erred(y)'
           /\ \A p \in puts' : y \in DOMAIN p.outs => p.st = "error"
    BY <2>2, <2>3, <2>4, <2>5, <2>7, <2>8 DEF IInv, SingleInv
  <2>. QED
    BY <2>3, <2>9, <2>10, <2>11 DEF IInv, SingleInv
<1>6. v1 => QueueInv'
  <2>. SUFFICES ASSUME v1 PROVE QueueInv'
    OBVIOUS
  <2>1. made[r] < Final
    BY DEF IInv, MadeInv, ForwardV1
  <2>2. PICK x : PutsOf({r}) = {x} /\ DOMAIN x.outs = {r}
    BY <2>1, NewPut DEF IInv
  <2>3. puts' = puts \cup {x} /\ UNCHANGED <<late, queue, stream>>
    BY <2>2 DEF ForwardV1
  <2>4. /\ made'[r] = made[r] + 1 /\ made[r] \in Nat
        /\ \A y \in Req : y # r => made'[y] = made[y]
    BY DEF IInv, TypeOK, ForwardV1, Produce
  <2>5. \A y \in Req : y # r => (Waiting(y)' => Waiting(y))
    BY <2>2, <2>3 DEF Waiting
  <2>6. \A s \in Srv : \A k \in DOMAIN queue[s] : r \in DOMAIN queue[s][k] => queue[s][k][r] \in Nat
    BY QueuedBatch DEF IInv
  <2>7. \A s \in Srv : \A k \in DOMAIN queue[s] : r \in DOMAIN queue[s][k] =>
          queue[s][k][r] <= made[r] /\ Len(stream[r]) < queue[s][k][r]
    BY DEF IInv, QueueInv
  <2>8. \A s \in Srv : \A k \in DOMAIN queue[s] : r \in DOMAIN queue[s][k] =>
          queue[s][k][r] < made'[r] /\ queue[s][k][r] <= made'[r]
    BY <2>4, <2>6, <2>7
  <2>. QED
    BY <2>3, <2>4, <2>5, <2>7, <2>8 DEF IInv, QueueInv
<1>7. v1 => CompleteInv'
  <2>. SUFFICES ASSUME v1 PROVE CompleteInv'
    OBVIOUS
  <2>1. made[r] < Final /\ state[r] = "running" /\ \A p \in puts : r \notin DOMAIN p.outs
    BY DEF IInv, MadeInv, ForwardV1, Requests
  <2>2. PICK x : PutsOf({r}) = {x} /\ x.st = "sent" /\ DOMAIN x.outs = {r}
    BY <2>1, NewPut DEF IInv
  <2>3. puts' = puts \cup {x} /\ UNCHANGED <<late, queue, stream, server, up>>
    BY <2>2 DEF ForwardV1
  <2>4. /\ made'[r] = made[r] + 1 /\ made[r] \in Nat
        /\ \A y \in Req : y # r => made'[y] = made[y] /\ state'[y] = state[y]
    BY DEF IInv, TypeOK, ForwardV1, Produce
  <2>5. ~Waiting(r) /\ ~Over(r) /\ ~Erred(r)
    BY <2>1 DEF IInv, SingleInv, Over, Erred, Waiting
  <2>6. Waiting(r)'
    BY <2>2, <2>3 DEF Waiting
  <2>7. \A y \in Req : y # r => /\ Waiting(y) => Waiting(y)'
                                /\ Over(y) => Over(y)'
                                /\ Erred(y) => Erred(y)'
    BY <2>3, <2>4 DEF Waiting, Over, Erred
  <2>8. \A n \in 1 .. made'[r] : n \in 1 .. made[r] \/ n = made'[r]
    BY <2>4
  <2>. QED
    BY <2>3, <2>4, <2>5, <2>6, <2>7, <2>8 DEF IInv, CompleteInv
<1>8. v1 => StreamInv'
  <2>. SUFFICES ASSUME v1 PROVE StreamInv'
    OBVIOUS
  <2>1. UNCHANGED <<stream, open, late>>
    BY DEF ForwardV1
  <2>2. made[r] < Final
    BY DEF IInv, MadeInv, ForwardV1
  <2>3. PICK x : PutsOf({r}) = {x} /\ DOMAIN x.outs = {r}
    BY <2>2, NewPut DEF IInv
  <2>4. puts' = puts \cup {x}
    BY <2>3 DEF ForwardV1
  <2>5. \A y \in Req : y # r => (Waiting(y)' => Waiting(y))
    BY <2>1, <2>3, <2>4 DEF Waiting
  <2>6. /\ \A y \in Req : y # r => made'[y] = made[y]
        /\ made'[r] = made[r] + 1 /\ made[r] \in Nat /\ Len(stream[r]) \in Nat
    BY DEF IInv, TypeOK, ForwardV1, Produce
  <2>7. Len(stream[r]) <= made[r]
    BY DEF IInv, StreamInv
  <2>8. Len(stream[r]) <= made'[r] /\ Len(stream[r]) < made'[r]
    BY <2>6, <2>7
  <2>. QED
    BY <2>1, <2>5, <2>6, <2>8 DEF IInv, StreamInv
<1>. QED
  BY <1>1, <1>2, <1>3, <1>4, <1>5, <1>6, <1>7, <1>8 DEF IInv, ForwardV1

\* The batch joins the end of the queue of its server.
LEMMA StoreStep ==
  ASSUME IInv, NEW p \in puts, Store(p)
  PROVE  IInv'
<1>1. TypeOK'
  BY DeliveryAssumption DEF IInv, TypeOK, Requests, ShapeInv, MadeInv, Store,
     Becomes
<1>2. ShapeInv'
  <2>1. PICK x \in [step : Nat, to : Srv, st : PutStates, outs : Batch] :
          puts' = (puts \ {p}) \cup {x} /\ x.to = p.to /\ x.outs = p.outs
    BY MovedPut DEF IInv, Store, PutStates
  <2>2. p.to \in Srv /\ p.outs \in Batch /\ \A r \in DOMAIN p.outs : server[r] = p.to
    BY DEF IInv, ShapeInv
  <2>3. puts' \subseteq [step : Nat, to : Srv, st : PutStates, outs : Batch]
    BY <2>1 DEF IInv, ShapeInv
  <2>4. \A q \in puts' : \A y \in DOMAIN q.outs : server[y] = q.to
    BY <2>1, <2>2 DEF IInv, ShapeInv
  <2>5. queue' = [queue EXCEPT ![p.to] = Append(@, p.outs)]
    BY DEF Store
  <2>6. /\ queue' \in [Srv -> Seq(Batch)]
        /\ \A s \in Srv : \A k \in DOMAIN queue'[s] : \A r \in DOMAIN queue'[s][k] : server[r] = s
    BY <2>2, <2>5, PushedShape DEF IInv
  <2>. QED
    BY <2>3, <2>4, <2>6 DEF IInv, ShapeInv, Store
<1>3. MadeInv'
  BY DeliveryAssumption DEF IInv, TypeOK, MadeInv, Store, Becomes
<1>4. FailedInv'
  BY DeliveryAssumption DEF IInv, TypeOK, FailedInv, ServersIsolated, ShapeInv,
     Store, Becomes
<1>5. v1 => SingleInv'
  <2>. SUFFICES ASSUME v1 PROVE SingleInv'
    OBVIOUS
  <2>1. PICK x \in [step : Nat, to : Srv, st : PutStates, outs : Batch] :
          puts' = (puts \ {p}) \cup {x} /\ x.outs = p.outs /\ x.st = "stored"
    BY MovedPut DEF IInv, Store, PutStates
  <2>2. p.st # "error"
    BY DEF Store
  <2>. QED
    BY <2>1, <2>2, MovedSingle DEF IInv, Store
<1>6. v1 => QueueInv'
  <2>. SUFFICES ASSUME v1 PROVE QueueInv'
    OBVIOUS
  <2>1. StoredPut(p)
    BY StoredFacts
  <2>. QED
    BY <2>1, PushedQueue DEF StoredPut, Store
<1>7. v1 => CompleteInv'
  <2>. SUFFICES ASSUME v1 PROVE CompleteInv'
    OBVIOUS
  <2>1. StoredPut(p)
    BY StoredFacts
  <2>. QED
    BY <2>1, PushedComplete DEF StoredPut, Store
<1>8. v1 => StreamInv'
  BY DeliveryAssumption DEF IInv, TypeOK, ShapeInv, StreamInv, Waiting, Store,
     Becomes
<1>. QED
  BY <1>1, <1>2, <1>3, <1>4, <1>5, <1>6, <1>7, <1>8 DEF IInv, Store

\* The reply to a put that was stored.
LEMMA ReplyStep ==
  ASSUME IInv, NEW p \in puts, Reply(p)
  PROVE  IInv'
<1>1. TypeOK'
  BY DeliveryAssumption DEF IInv, TypeOK, Requests, ShapeInv, MadeInv, Reply,
     Becomes
<1>2. ShapeInv'
  <2>1. PICK x \in [step : Nat, to : Srv, st : PutStates, outs : Batch] :
          puts' = (puts \ {p}) \cup {x} /\ x.to = p.to /\ x.outs = p.outs
    BY MovedPut DEF IInv, Reply, PutStates
  <2>2. UNCHANGED <<late, queue, server, step>>
    BY DEF Reply
  <2>. QED
    BY <2>1, <2>2 DEF IInv, ShapeInv
<1>3. MadeInv'
  BY DeliveryAssumption DEF IInv, TypeOK, MadeInv, Reply, Becomes
<1>4. FailedInv'
  BY DeliveryAssumption DEF IInv, TypeOK, FailedInv, ServersIsolated, ShapeInv,
     Reply, Becomes
<1>5. v1 => SingleInv'
  <2>. SUFFICES ASSUME v1 PROVE SingleInv'
    OBVIOUS
  <2>1. PICK x \in [step : Nat, to : Srv, st : PutStates, outs : Batch] :
          puts' = (puts \ {p}) \cup {x} /\ x.outs = p.outs
    BY MovedPut DEF IInv, Reply, PutStates
  <2>2. p.st # "error"
    BY DEF Reply
  <2>. QED
    BY <2>1, <2>2, MovedSingle DEF IInv, Reply
<1>6. v1 => QueueInv'
  BY DeliveryAssumption DEF IInv, TypeOK, ShapeInv, MadeInv, SingleInv, QueueInv,
     Waiting, Reply, Becomes
<1>7. v1 => CompleteInv'
  BY ZenonT(30), DeliveryAssumption DEF IInv, TypeOK, ShapeInv, MadeInv, SingleInv, CompleteInv,
     Waiting, Over, Erred, Reply, Becomes
<1>8. v1 => StreamInv'
  BY DeliveryAssumption DEF IInv, TypeOK, ShapeInv, StreamInv, Waiting, Reply,
     Becomes
<1>. QED
  BY <1>1, <1>2, <1>3, <1>4, <1>5, <1>6, <1>7, <1>8 DEF IInv, Reply

\* A put that timed out has failed for its sender; its message may be late.
LEMMA TimeOutStep ==
  ASSUME IInv, NEW p \in puts, TimeOut(p)
  PROVE  IInv'
<1>1. TypeOK'
  <2>1. PICK x \in [step : Nat, to : Srv, st : PutStates, outs : Batch] :
          /\ puts' = (puts \ {p}) \cup {x}
          /\ x.step = p.step /\ x.to = p.to /\ x.outs = p.outs /\ x.st = "error"
          /\ late' = late \/ late' = late \cup {[to |-> p.to, outs |-> p.outs]}
    BY TimeOutFacts
  <2>2. p.to \in Srv /\ Requests(p.outs) \subseteq Req /\ p.step \in 0 .. step - 1
    BY DEF IInv, TypeOK
  <2>3. \A q \in puts' : q.to \in Srv /\ q.st \in {"sent", "stored", "ok", "error"}
                         /\ Requests(q.outs) \subseteq Req /\ q.step \in 0 .. step - 1
    BY <2>1, <2>2 DEF IInv, TypeOK
  <2>4. \A m \in late' : m.to \in Srv
    BY <2>1, <2>2 DEF IInv, TypeOK
  <2>5. faults' \in 0 .. MaxFaults /\ failed' \subseteq Req
    BY <2>2, DeliveryAssumption DEF IInv, TypeOK, TimeOut
  <2>6. UNCHANGED <<v1, server, made, state, step, stream, open, up>>
    BY DEF TimeOut
  <2>. QED
    BY <2>3, <2>4, <2>5, <2>6 DEF IInv, TypeOK
<1>2. ShapeInv'
  <2>1. PICK x \in [step : Nat, to : Srv, st : PutStates, outs : Batch] :
          /\ puts' = (puts \ {p}) \cup {x}
          /\ x.to = p.to /\ x.outs = p.outs
          /\ late' = late \/ late' = late \cup {[to |-> p.to, outs |-> p.outs]}
    BY TimeOutFacts
  <2>2. p.to \in Srv /\ p.outs \in Batch /\ \A r \in DOMAIN p.outs : server[r] = p.to
    BY DEF IInv, ShapeInv
  <2>3. /\ puts' \subseteq [step : Nat, to : Srv, st : PutStates, outs : Batch]
        /\ \A q \in puts' : \A r \in DOMAIN q.outs : server[r] = q.to
    BY <2>1, <2>2 DEF IInv, ShapeInv
  <2>4. late' \subseteq [to : Srv, outs : Batch] /\ \A m \in late' : \A r \in DOMAIN m.outs : server[r] = m.to
    BY <2>1, <2>2 DEF IInv, ShapeInv
  <2>5. UNCHANGED <<queue, server, step>>
    BY DEF TimeOut
  <2>. QED
    BY <2>3, <2>4, <2>5 DEF IInv, ShapeInv
<1>3. MadeInv'
  BY DeliveryAssumption DEF IInv, TypeOK, MadeInv, TimeOut, Becomes, Requests
<1>4. FailedInv'
  BY DeliveryAssumption DEF IInv, TypeOK, FailedInv, ServersIsolated, ShapeInv,
     TimeOut, Becomes, Requests
<1>5. v1 => SingleInv'
  <2>. SUFFICES ASSUME v1 PROVE SingleInv'
    OBVIOUS
  <2>1. PICK x \in [step : Nat, to : Srv, st : PutStates, outs : Batch] :
          /\ puts' = (puts \ {p}) \cup {x} /\ x.outs = p.outs /\ x.st = "error"
          /\ late' = late \/ (p.st = "sent" /\ late' = late \cup {[to |-> p.to, outs |-> p.outs]})
          /\ \A r : Erred(r) => Erred(r)'
          /\ \A r \in DOMAIN p.outs : Erred(r)'
    BY TimeOutFacts
  <2>2. made' = made /\ \A r : Over(r) => Over(r)'
    BY DEF TimeOut, Over
  <2>3. DOMAIN p.outs \subseteq Req
    BY DEF IInv, TypeOK, Requests
  <2>4. p.st = "sent" => \A m \in late : \A r \in DOMAIN p.outs : r \notin DOMAIN m.outs
    BY DEF IInv, SingleInv
  <2>5. \A q, o \in puts' : \A r \in Req : r \in DOMAIN q.outs /\ r \in DOMAIN o.outs => q = o
    BY <2>1 DEF IInv, SingleInv
  <2>6. \A q \in puts' : \A r \in DOMAIN q.outs : q.outs[r] = made[r]
    BY <2>1 DEF IInv, SingleInv
  <2>7. \A l, m \in late' : \A r \in Req : r \in DOMAIN l.outs /\ r \in DOMAIN m.outs => l = m
    BY <2>1, <2>4 DEF IInv, SingleInv
  <2>8. ASSUME NEW m \in late', NEW r \in DOMAIN m.outs
        PROVE  /\ m.outs[r] = made[r]
               /\ Over(r)' \/ Erred(r)'
               /\ \A q \in puts' : r \in DOMAIN q.outs => q.st = "error"
    <3>1. CASE m \in late
      BY <2>1, <2>2, <3>1 DEF IInv, SingleInv
    <3>2. CASE m.outs = p.outs
      BY <2>1, <2>3, <3>2 DEF IInv, SingleInv
    <3>. QED
      BY <2>1, <3>1, <3>2
  <2>. QED
    BY <2>2, <2>5, <2>6, <2>7, <2>8 DEF SingleInv
<1>6. v1 => QueueInv'
  <2>1. \A r : Waiting(r)' => Waiting(r)
    BY TimeOutFacts
  <2>. QED
    BY <2>1 DEF IInv, QueueInv, TimeOut
<1>7. v1 => CompleteInv'
  <2>1. \A r : (Waiting(r) => Waiting(r)' \/ Erred(r)') /\ (Erred(r) => Erred(r)')
    BY TimeOutFacts
  <2>2. \A r : Over(r) => Over(r)'
    BY DEF TimeOut, Over
  <2>. QED
    BY <2>1, <2>2 DEF IInv, CompleteInv, TimeOut
<1>8. v1 => StreamInv'
  <2>1. \A r : Waiting(r)' => Waiting(r)
    BY TimeOutFacts
  <2>. QED
    BY <2>1 DEF IInv, StreamInv, TimeOut
<1>. QED
  BY <1>1, <1>2, <1>3, <1>4, <1>5, <1>6, <1>7, <1>8 DEF IInv, TimeOut

\* A late message is stored after everything else of its request.
LEMMA LateStoreStep ==
  ASSUME IInv, NEW m \in late, LateStore(m)
  PROVE  IInv'
<1>1. TypeOK'
  BY DeliveryAssumption DEF IInv, TypeOK, Requests, ShapeInv, MadeInv, LateStore
<1>2. ShapeInv'
  BY DeliveryAssumption DEF IInv, TypeOK, ShapeInv, LateStore
<1>3. MadeInv'
  BY DeliveryAssumption DEF IInv, TypeOK, MadeInv, LateStore
<1>4. FailedInv'
  BY DeliveryAssumption DEF IInv, TypeOK, FailedInv, ServersIsolated, ShapeInv,
     LateStore
<1>5. v1 => SingleInv'
  BY DeliveryAssumption DEF IInv, TypeOK, ShapeInv, MadeInv, SingleInv, Over, Erred,
     LateStore
<1>6. v1 => QueueInv'
  BY LateStoredFacts, PushedQueue
<1>7. v1 => CompleteInv'
  BY LateStoredFacts, PushedComplete
<1>8. v1 => StreamInv'
  BY DeliveryAssumption DEF IInv, TypeOK, ShapeInv, StreamInv, Waiting, LateStore
<1>. QED
  BY <1>1, <1>2, <1>3, <1>4, <1>5, <1>6, <1>7, <1>8 DEF IInv, LateStore

\* A late message that is lost was the last one of its request.
LEMMA LateLostStep ==
  ASSUME IInv, NEW m \in late, LateLost(m)
  PROVE  IInv'
<1>1. TypeOK'
  BY DeliveryAssumption DEF IInv, TypeOK, Requests, ShapeInv, MadeInv, LateLost
<1>2. ShapeInv'
  BY DeliveryAssumption DEF IInv, TypeOK, ShapeInv, LateLost
<1>3. MadeInv'
  BY DeliveryAssumption DEF IInv, TypeOK, MadeInv, LateLost
<1>4. FailedInv'
  BY DeliveryAssumption DEF IInv, TypeOK, FailedInv, ServersIsolated, ShapeInv,
     LateLost
<1>5. v1 => SingleInv'
  BY DeliveryAssumption DEF IInv, TypeOK, ShapeInv, MadeInv, SingleInv, Over, Erred,
     LateLost
<1>6. v1 => QueueInv'
  BY DeliveryAssumption DEF IInv, TypeOK, ShapeInv, MadeInv, SingleInv, QueueInv,
     Waiting, LateLost
<1>7. v1 => CompleteInv'
  <2>. SUFFICES ASSUME v1 PROVE CompleteInv'
    BY DEF LateLost
  <2>1. \A r \in Req : (Over(r) => Over(r)') /\ (Erred(r) => Erred(r)')
    BY DEF Over, Erred, LateLost
  <2>2. \A r \in DOMAIN m.outs : Over(r) \/ Erred(r)
    BY DEF IInv, SingleInv
  <2>3. \A r \in Req : Waiting(r) => Waiting(r)' \/ r \in DOMAIN m.outs
    BY DEF Waiting, LateLost
  <2>4. /\ server' = server /\ up' = up /\ made' = made /\ stream' = stream
        /\ queue' = queue
    BY DEF LateLost
  <2>5. CompleteInv
    BY DEF IInv
  <2>. QED
    BY <2>1, <2>2, <2>3, <2>4, <2>5 DEF CompleteInv
<1>8. v1 => StreamInv'
  BY DeliveryAssumption DEF IInv, TypeOK, ShapeInv, StreamInv, Waiting, LateLost
<1>. QED
  BY <1>1, <1>2, <1>3, <1>4, <1>5, <1>6, <1>7, <1>8 DEF IInv, LateLost

\* The requests whose puts failed make no more outputs.
LEMMA GatheredStep ==
  ASSUME IInv, NEW n \in 0 .. step, Gathered(n)
  PROVE  IInv'
<1>1. TypeOK'
  BY DeliveryAssumption DEF IInv, TypeOK, Requests, ShapeInv, MadeInv, Gathered,
     Victims
<1>2. ShapeInv'
  BY DeliveryAssumption DEF IInv, TypeOK, ShapeInv, Gathered, Victims, Requests
<1>3. MadeInv'
  BY DeliveryAssumption DEF IInv, TypeOK, MadeInv, Gathered, Victims, Requests
<1>4. FailedInv'
  BY DeliveryAssumption DEF IInv, TypeOK, FailedInv, ServersIsolated, ShapeInv,
     Gathered, Victims, Requests
<1>5. v1 => SingleInv'
  <2>. SUFFICES ASSUME v1 PROVE SingleInv'
    OBVIOUS
  <2>1. puts' \subseteq puts /\ \A r \in Req : (Over(r) => Over(r)') /\ (Erred(r) => Erred(r)' \/ Over(r)')
    BY GatheredFacts
  <2>2. late' = late /\ made' = made
    BY DEF Gathered
  <2>3. \A m \in late : DOMAIN m.outs \subseteq Req
    BY DEF IInv, ShapeInv, Batch
  <2>. QED
    BY <2>1, <2>2, <2>3 DEF IInv, SingleInv
<1>6. v1 => QueueInv'
  BY DeliveryAssumption DEF IInv, TypeOK, ShapeInv, MadeInv, SingleInv, QueueInv,
     Waiting, Gathered, Victims, Requests
<1>7. v1 => CompleteInv'
  <2>. SUFFICES ASSUME v1 PROVE CompleteInv'
    OBVIOUS
  <2>1. \A r \in Req : /\ Over(r) => Over(r)'
                       /\ Erred(r) => Erred(r)' \/ Over(r)'
                       /\ Waiting(r) => Waiting(r)'
    BY GatheredFacts
  <2>. QED
    BY <2>1 DEF IInv, CompleteInv, Gathered
<1>8. v1 => StreamInv'
  BY DeliveryAssumption DEF IInv, TypeOK, ShapeInv, StreamInv, Waiting, Gathered,
     Victims, Requests
<1>. QED
  BY <1>1, <1>2, <1>3, <1>4, <1>5, <1>6, <1>7, <1>8 DEF IInv, Gathered

\* The streams of a batch get their next outputs.
LEMMA ConsumeStep ==
  ASSUME IInv, NEW s \in Srv, Consume(s)
  PROVE  IInv'
<1>1. TypeOK'
  <2>1. queue[s] # << >> /\ queue' = [queue EXCEPT ![s] = Tail(@)]
    BY DEF Consume
  <2>2. 1 \in DOMAIN queue[s] /\ Head(queue[s]) = queue[s][1]
    BY <2>1, Popped DEF IInv
  <2>3. \A r \in DOMAIN queue[s][1] : queue[s][1][r] \in 1 .. Final
    BY <2>2, QueuedBatch DEF IInv
  <2>4. stream' \in [Req -> Seq(1 .. Final)]
    <3>1. \A r \in Req : stream'[r] = IF r \in Apply(queue[s][1]) THEN Append(stream[r], queue[s][1][r])
                                      ELSE stream[r]
      BY <2>2 DEF Consume
    <3>2. \A r \in Req : stream[r] \in Seq(1 .. Final) /\ (r \in Apply(queue[s][1]) => queue[s][1][r] \in 1 .. Final)
      BY <2>3 DEF IInv, TypeOK, Apply, Requests
    <3>3. \A r \in Req : stream'[r] \in Seq(1 .. Final)
      <4>1. \A q \in Seq(1 .. Final) : \A v \in 1 .. Final : Append(q, v) \in Seq(1 .. Final)
        OBVIOUS
      <4>. QED
        BY <3>1, <3>2, <4>1
    <3>4. stream' = [r \in Req |-> stream'[r]]
      BY DEF Consume
    <3>. QED
      BY <3>3, <3>4
  <2>5. open' \subseteq Req
    BY DEF IInv, TypeOK, Consume
  <2>6. UNCHANGED <<v1, server, made, state, step, puts, late, up, failed, faults>>
    BY DEF Consume
  <2>. QED
    BY <2>4, <2>5, <2>6 DEF IInv, TypeOK
<1>2. ShapeInv'
  <2>1. queue[s] # << >> /\ queue' = [queue EXCEPT ![s] = Tail(@)]
    BY DEF Consume
  <2>2. queue' \in [Srv -> Seq(Batch)] /\ \A t \in Srv : t # s => queue'[t] = queue[t]
    BY <2>1, Popped DEF IInv
  <2>3. \A k \in DOMAIN queue'[s] : k + 1 \in DOMAIN queue[s] /\ queue'[s][k] = queue[s][k + 1]
    BY <2>1, Popped DEF IInv
  <2>4. UNCHANGED <<step, puts, late, server>>
    BY DEF Consume
  <2>5. \A t \in Srv : \A k \in DOMAIN queue'[t] : \A r \in DOMAIN queue'[t][k] : server[r] = t
    <3>1. \A t \in Srv : \A k \in DOMAIN queue[t] : \A r \in DOMAIN queue[t][k] : server[r] = t
      BY DEF IInv, ShapeInv
    <3>2. \A k \in DOMAIN queue'[s] : \A r \in DOMAIN queue'[s][k] : server[r] = s
      BY <2>3, <3>1
    <3>. QED
      BY <2>2, <3>1, <3>2
  <2>. QED
    BY <2>2, <2>4, <2>5 DEF IInv, ShapeInv
<1>3. MadeInv'
  BY DeliveryAssumption DEF IInv, TypeOK, MadeInv, Consume, Apply, Requests
<1>4. FailedInv'
  BY DeliveryAssumption DEF IInv, TypeOK, FailedInv, ServersIsolated, ShapeInv,
     Consume, Apply, Requests
<1>5. v1 => SingleInv'
  BY DeliveryAssumption DEF IInv, TypeOK, ShapeInv, MadeInv, SingleInv, Over, Erred,
     Consume, Apply, Requests
<1>6. v1 => QueueInv'
  <2>. SUFFICES ASSUME v1 PROVE QueueInv'
    OBVIOUS
  <2>1. queue[s] # << >> /\ queue' = [queue EXCEPT ![s] = Tail(@)] /\ made' = made
    BY DEF Consume
  <2>2. /\ \A t \in Srv : t # s => queue'[t] = queue[t]
        /\ \A k \in DOMAIN queue'[s] : k + 1 \in DOMAIN queue[s] /\ queue'[s][k] = queue[s][k + 1]
                                       /\ k \in Nat /\ 1 < k + 1
        /\ 1 \in DOMAIN queue[s]
    BY <2>1, Popped DEF IInv
  <2>3. \A r : Waiting(r)' <=> Waiting(r)
    BY ConsumeFacts
  <2>4. ASSUME NEW r \in Req, NEW t \in Srv, t # s
        PROVE  \A k \in DOMAIN queue[t] : r \in DOMAIN queue[t][k] => stream'[r] = stream[r]
    <3>1. \A k \in DOMAIN queue[t] : r \in DOMAIN queue[t][k] => server[r] = t
      BY DEF IInv, ShapeInv
    <3>2. r \in DOMAIN queue[s][1] => server[r] = s
      BY <2>2 DEF IInv, ShapeInv
    <3>3. r \notin DOMAIN queue[s][1] => stream'[r] = stream[r]
      BY ConsumeFacts
    <3>. QED
      BY <2>4, <3>1, <3>2, <3>3
  <2>5. ASSUME NEW r \in Req, NEW t \in Srv, t # s
        PROVE  /\ \A k \in DOMAIN queue'[t] : r \in DOMAIN queue'[t][k] =>
                    /\ Len(stream'[r]) < queue'[t][k][r] /\ queue'[t][k][r] <= made'[r]
                    /\ Waiting(r)' => queue'[t][k][r] < made'[r]
               /\ \A j, k \in DOMAIN queue'[t] :
                    j < k /\ r \in DOMAIN queue'[t][j] /\ r \in DOMAIN queue'[t][k]
                      => queue'[t][j][r] < queue'[t][k][r]
    BY <2>1, <2>2, <2>3, <2>4, <2>5 DEF IInv, QueueInv
  <2>6. ASSUME NEW r \in Req, NEW k \in DOMAIN queue'[s], r \in DOMAIN queue'[s][k]
        PROVE  /\ Len(stream'[r]) < queue'[s][k][r] /\ queue'[s][k][r] <= made'[r]
               /\ Waiting(r)' => queue'[s][k][r] < made'[r]
    <3>1. PICK v \in Nat : v = queue[s][k + 1][r]
      BY <2>2, <2>6, QueuedBatch DEF IInv
    <3>2. Len(stream[r]) < v /\ v <= made[r] /\ (Waiting(r) => v < made[r])
      BY <2>2, <2>6, <3>1 DEF IInv, QueueInv
    <3>3. r \in DOMAIN queue[s][1] => queue[s][1][r] < v
      BY <2>2, <2>6, <3>1 DEF IInv, QueueInv
    <3>4. Len(stream'[r]) < v
      BY <3>2, <3>3, ConsumeFacts
    <3>. QED
      BY <2>1, <2>2, <2>3, <2>6, <3>1, <3>2, <3>4
  <2>7. ASSUME NEW r \in Req, NEW j \in DOMAIN queue'[s], NEW k \in DOMAIN queue'[s], j < k,
               r \in DOMAIN queue'[s][j], r \in DOMAIN queue'[s][k]
        PROVE  queue'[s][j][r] < queue'[s][k][r]
    <3>1. j + 1 < k + 1
      BY <2>2, <2>7
    <3>. QED
      BY <2>2, <2>7, <3>1 DEF IInv, QueueInv
  <2>. QED
    BY <2>5, <2>6, <2>7 DEF QueueInv
<1>7. v1 => CompleteInv'
  <2>. SUFFICES ASSUME v1 PROVE CompleteInv'
    OBVIOUS
  <2>1. queue[s] # << >> /\ queue' = [queue EXCEPT ![s] = Tail(@)]
    BY DEF Consume
  <2>2. /\ \A t \in Srv : t # s => queue'[t] = queue[t]
        /\ \A k \in DOMAIN queue[s] : k # 1 => k - 1 \in DOMAIN queue'[s] /\ queue'[s][k - 1] = queue[s][k]
    BY <2>1, Popped DEF IInv
  <2>3. UNCHANGED <<made, server, up, state, puts, late>>
    BY DEF Consume
  <2>4. \A r : (Waiting(r)' <=> Waiting(r)) /\ (Over(r)' <=> Over(r)) /\ (Erred(r)' <=> Erred(r))
    BY <2>3 DEF Waiting, Over, Erred
  <2>5. ASSUME NEW r \in Req, server[r] \in up, NEW n \in 1 .. made[r], n > Len(stream'[r])
        PROVE  \/ \E k \in DOMAIN queue'[server[r]] :
                    r \in DOMAIN queue'[server[r]][k] /\ queue'[server[r]][k][r] = n
               \/ n = made[r] /\ (Waiting(r) \/ Over(r) \/ Erred(r))
    <3>1. Len(stream[r]) \in Nat /\ n \in Nat /\ server[r] \in Srv
      BY DEF IInv, TypeOK
    <3>2. Len(stream'[r]) = Len(stream[r]) \/ Len(stream'[r]) = Len(stream[r]) + 1
      BY ConsumeFacts
    <3>3. n > Len(stream[r])
      BY <2>5, <3>1, <3>2
    <3>4. \/ \E k \in DOMAIN queue[server[r]] :
                 r \in DOMAIN queue[server[r]][k] /\ queue[server[r]][k][r] = n
          \/ n = made[r] /\ (Waiting(r) \/ Over(r) \/ Erred(r))
      BY <2>5, <3>3 DEF IInv, CompleteInv
    <3>5. ASSUME server[r] = s, NEW k \in DOMAIN queue[s], r \in DOMAIN queue[s][k], queue[s][k][r] = n
          PROVE  k # 1
      BY <2>5, <3>1, <3>5, ConsumeFacts
    <3>. QED
      BY <2>2, <3>1, <3>4, <3>5
  <2>. QED
    BY <2>3, <2>4, <2>5 DEF CompleteInv
<1>8. v1 => StreamInv'
  <2>. SUFFICES ASSUME v1 PROVE StreamInv'
    OBVIOUS
  <2>1. made' = made /\ queue[s] # << >> /\ queue' = [queue EXCEPT ![s] = Tail(@)]
    BY DEF Consume
  <2>2. 1 \in DOMAIN queue[s]
    BY <2>1, Popped DEF IInv
  <2>3. ASSUME NEW r \in Req, r \notin DOMAIN queue[s][1]
        PROVE  /\ stream'[r] = [k \in 1 .. Len(stream'[r]) |-> k]
               /\ Len(stream'[r]) <= made[r] /\ (Waiting(r)' => Len(stream'[r]) < made[r])
               /\ r \notin open' => Len(stream'[r]) = Final
    BY ZenonT(30), <2>3, ConsumeFacts DEF IInv, StreamInv
  <2>4. ASSUME NEW r \in Req, r \in DOMAIN queue[s][1]
        PROVE  /\ stream'[r] = [k \in 1 .. Len(stream'[r]) |-> k]
               /\ Len(stream'[r]) <= made[r] /\ (Waiting(r)' => Len(stream'[r]) < made[r])
               /\ r \notin open' => Len(stream'[r]) = Final
    <3>1. PICK L \in Nat : L = Len(stream[r])
      BY DEF IInv, TypeOK
    <3>2. /\ stream'[r] = Append(stream[r], L + 1) /\ Len(stream'[r]) = L + 1
          /\ queue[s][1][r] = L + 1
      BY <2>4, <3>1, ConsumeFacts
    <3>3. stream[r] = [k \in 1 .. L |-> k] /\ stream[r] \in Seq(1 .. Final)
      BY <3>1 DEF IInv, TypeOK, StreamInv
    <3>4. stream'[r] = [k \in 1 .. L + 1 |-> k]
      BY <3>1, <3>2, <3>3
    <3>5. L + 1 <= made[r] /\ (Waiting(r) => L + 1 < made[r])
      BY <2>2, <2>4, <3>2 DEF IInv, QueueInv
    <3>6. (Waiting(r)' <=> Waiting(r)) /\ (r \in open /\ r \notin open' => L + 1 = Final)
      BY <3>2, ConsumeFacts
    <3>7. r \in open
      BY <2>1, <2>4, HeadContinues DEF Consume
    <3>. QED
      BY <3>2, <3>4, <3>5, <3>6, <3>7
  <2>. QED
    BY <2>1, <2>3, <2>4 DEF StreamInv
<1>. QED
  BY <1>1, <1>2, <1>3, <1>4, <1>5, <1>6, <1>7, <1>8 DEF IInv, Consume

\* The queue of a dead server is gone, and nothing is stored there again.
LEMMA ServerDiesStep ==
  ASSUME IInv, NEW s \in Srv, ServerDies(s)
  PROVE  IInv'
<1>1. TypeOK'
  BY DeliveryAssumption DEF IInv, TypeOK, Requests, ShapeInv, MadeInv, ServerDies
<1>2. ShapeInv'
  BY DeliveryAssumption DEF IInv, TypeOK, ShapeInv, ServerDies
<1>3. MadeInv'
  BY DeliveryAssumption DEF IInv, TypeOK, MadeInv, ServerDies
<1>4. FailedInv'
  BY DeliveryAssumption DEF IInv, TypeOK, FailedInv, ServersIsolated, ShapeInv,
     ServerDies
<1>5. v1 => SingleInv'
  BY DeliveryAssumption DEF IInv, TypeOK, ShapeInv, MadeInv, SingleInv, Over, Erred,
     ServerDies
<1>6. v1 => QueueInv'
  BY DeliveryAssumption DEF IInv, TypeOK, ShapeInv, MadeInv, SingleInv, QueueInv,
     Waiting, ServerDies
<1>7. v1 => CompleteInv'
  <2>. SUFFICES ASSUME v1 PROVE CompleteInv'
    BY DEF ServerDies
  <2>1. \A r \in Req : (Over(r) => Over(r)') /\ (Erred(r) => Erred(r)')
    BY DEF Over, Erred, ServerDies
  <2>4. \A m \in late : \A r \in DOMAIN m.outs : Over(r) \/ Erred(r)
    BY DEF IInv, SingleInv
  <2>5. \A r \in Req : Waiting(r) => Waiting(r)' \/ \E m \in late : r \in DOMAIN m.outs
    BY DEF Waiting, ServerDies
  <2>2. /\ server' = server /\ made' = made /\ stream' = stream
        /\ up' = up \ {s} /\ \A u \in up' : queue'[u] = queue[u]
    BY DEF ServerDies, IInv, TypeOK
  <2>3. CompleteInv
    BY DEF IInv
  <2>. QED
    BY <2>1, <2>2, <2>3, <2>4, <2>5 DEF CompleteInv
<1>8. v1 => StreamInv'
  BY DeliveryAssumption DEF IInv, TypeOK, ShapeInv, StreamInv, Waiting, ServerDies
<1>. QED
  BY <1>1, <1>2, <1>3, <1>4, <1>5, <1>6, <1>7, <1>8 DEF IInv, ServerDies

-------------------------------------------------------------------------------
(* The theorems                                                                *)

\* Every step of an engine, of an RPC or of a server preserves the invariant.
LEMMA NextInv == IInv /\ [Next]_vars => IInv'
<1>. SUFFICES ASSUME IInv, [Next]_vars PROVE IInv'
  OBVIOUS
<1>1. CASE UNCHANGED vars
  <2>. USE <1>1 DEF vars
  <2>1. TypeOK' /\ ShapeInv' /\ MadeInv'
    BY DEF IInv, TypeOK, ShapeInv, MadeInv
  <2>2. FailedInv'
    BY DEF IInv, FailedInv, ServersIsolated, Requests
  <2>3. v1 => SingleInv'
    BY DEF IInv, SingleInv, Over, Erred
  <2>4. v1 => QueueInv' /\ StreamInv'
    BY DEF IInv, QueueInv, StreamInv, Waiting
  <2>5. v1 => CompleteInv'
    BY DEF IInv, CompleteInv, Waiting, Over, Erred
  <2>. QED
    BY <2>1, <2>2, <2>3, <2>4, <2>5 DEF IInv
<1>2. CASE StepV0
  BY <1>2, StepV0Step
<1>3. ASSUME NEW r \in Req, Arrive(r) \/ ForwardV1(r) PROVE IInv'
  BY <1>3, ArriveStep, ForwardV1Step
<1>4. ASSUME NEW p \in puts, Store(p) \/ Reply(p) \/ TimeOut(p) PROVE IInv'
  BY <1>4, StoreStep, ReplyStep, TimeOutStep
<1>5. ASSUME NEW m \in late, LateStore(m) \/ LateLost(m) PROVE IInv'
  BY <1>5, LateStoreStep, LateLostStep
<1>6. ASSUME NEW n \in 0 .. step, Gathered(n) PROVE IInv'
  BY <1>6, GatheredStep
<1>7. ASSUME NEW s \in Srv, Consume(s) \/ ServerDies(s) PROVE IInv'
  BY <1>7, ConsumeStep, ServerDiesStep
<1>. QED
  BY <1>1, <1>2, <1>3, <1>4, <1>5, <1>6, <1>7 DEF Next

\* The inductive invariant of the delivery of outputs.
THEOREM DeliveryInvariant == Spec => []IInv
<1>. QED
  BY InitInv, NextInv, PTL DEF Spec

\* The stream of a V1 request is given the outputs 1, 2, ... in order, none twice
\* and none left out, for any number of requests on any number of servers,
\* through any number of timeouts, late messages and server deaths: because
\* _forward_v1_outputs awaits each put, and gives the request up when one fails.
THEOREM StreamInOrderAlways == Spec => []StreamInOrder
<1>1. IInv => StreamInOrder
  BY DEF IInv, StreamInv, StreamInOrder
<1>. QED
  BY <1>1, DeliveryInvariant, PTL

\* A request is aborted only when a put of its own outputs failed, whatever the
\* other puts of its steps do.
THEOREM ServersIsolatedAlways == Spec => []ServersIsolated
<1>1. IInv => ServersIsolated
  BY DEF IInv, FailedInv
<1>. QED
  BY <1>1, DeliveryInvariant, PTL
===============================================================================
