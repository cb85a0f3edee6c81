--------------------------- MODULE KvHandoffProofs ---------------------------
(***************************************************************************)
(* Proofs about KvHandoff: what a producer holds as sent is at its         *)
(* consumer, and a request decoded to its end leaves no tensor behind, for *)
(* any number of instances, requests, layers and faults.                   *)
(***************************************************************************)
EXTENDS KvHandoff, SequenceTheorems, FiniteSetTheorems, TLAPS

\* What the model thread of e has still to ask for.
Rest(e) == IF e \in asked THEN Tail(job[e]) ELSE job[e]
Ahead(t) == \E e \in Prefill : half[e][t.req] = "queued" \/ t \in ToSet(Rest(e))
Flying(t) == \E f, g \in Inst : t \in ToSet(net[f][g])
Ended(d, r) == half[d][r] \in {"done", "aborted", "failed"} \/ eng[d] # "up"
\* A tensor that arrived at d is there as long as its request goes on.
Safe(d, t) == t \in store[d] \/ Ended(d, t.req)
Paired(r) == id[r].prefill \in Prefill /\ id[r].decode \in Decode
Distinct(s) == \A k, l \in 1 .. Len(s) : s[k] = s[l] => k = l

\* Which sides know of a request.
IdInv(r) ==
  /\ gen[r] \in {"new", "single"} => id[r].prefill = NoEnd /\ id[r].decode = NoEnd
  /\ gen[r] \notin {"new", "single"} => Paired(r)
  /\ \A e \in Inst : half[e][r] # "none" =>
       \/ gen[r] = "single" /\ e \in Prefill
       \/ Paired(r) /\ e = id[r].prefill
       \/ gen[r] \in {"both", "ended"} /\ e = id[r].decode

\* The step of a model thread is about requests that run, each tensor once.
JobInv(e) ==
  /\ eng[e] # "up" => job[e] = << >>
  /\ \A t \in ToSet(job[e]) : half[e][t.req] = "running"
  /\ Distinct(job[e])

\* A consumer goes on once it has all layers.
LoadInv(e) ==
  \A t \in Tensor :
    /\ half[e][t.req] = "running" => t \in store[e] \cup ToSet(job[e])
    /\ half[e][t.req] = "loaded" => t \in store[e]

\* One tensor of a producer is under way at a time: the message, then the answer.
NetInv(f, g) ==
  /\ net[f][g] # << >> =>
       \E t \in Tensor : net[f][g] = <<t>> /\ id[t.req].prefill = f /\ id[t.req].decode = g
  /\ eng[f] = "up" /\ net[f][g] # << >> =>
       f \in asked /\ net[f][g] = <<Head(job[f])>> /\ acks[f][g] = << >>
  /\ acks[f][g] # << >> =>
       /\ f \in asked /\ g = Peer(f)
       /\ \E b \in BOOLEAN : acks[f][g] = <<b>> /\ (b => Safe(g, Head(job[f])))
AskInv(f) ==
  f \in asked => f \in Prefill /\ job[f] # << >> /\ Peer(f) \in Decode

\* A tensor is ahead, under way or there, and only one of these.
TensorInv(t) ==
  /\ \A e \in Inst : t \in store[e] => id[t.req].decode = e /\ ~Ahead(t) /\ ~Flying(t)
  /\ Flying(t) => ~Ahead(t)
  /\ \A e \in Decode : half[e][t.req] = "done" =>
       ~Ahead(t) /\ ~Flying(t) /\ \A f \in Inst : t \notin store[f]
  /\ \A e \in Inst : t \in sent[e] =>
       id[t.req].decode \in Decode /\ Safe(id[t.req].decode, t)

KvInv ==
  /\ TypeOK
  /\ \A r \in Req : IdInv(r)
  /\ \A e \in Inst : JobInv(e) /\ AskInv(e)
  /\ \A e \in Decode : LoadInv(e)
  /\ \A f, g \in Inst : NetInv(f, g)
  /\ \A t \in Tensor : TensorInv(t)

----------------------------------------------------------------------------
(***************************************************************************)
(* Sequences: their elements, their first one, and the transfers of a step. *)
(***************************************************************************)

\* The elements of a sequence by their places.
LEMMA InToSet ==
  ASSUME NEW S, NEW s \in Seq(S), NEW t
  PROVE  /\ t \in ToSet(s) <=> \E k \in 1 .. Len(s) : s[k] = t
         /\ ToSet(s) \subseteq S
         /\ s = << >> <=> ToSet(s) = {}
<1>1. DOMAIN s = 1 .. Len(s) /\ Len(s) \in Nat /\ \A k \in 1 .. Len(s) : s[k] \in S
  BY LenProperties, ElementOfSeq
<1>2. t \in ToSet(s) <=> \E k \in 1 .. Len(s) : s[k] = t
  BY <1>1 DEF ToSet
<1>3. ToSet(s) \subseteq S
  BY <1>1 DEF ToSet
<1>4. s = << >> => ToSet(s) = {}
  BY <1>1 DEF ToSet
<1>5. s # << >> => ToSet(s) # {}
  <2>1. s # << >> => s[1] \in ToSet(s)
    BY <1>1, EmptySeq DEF ToSet
  <2>. QED
    BY <2>1
<1>. QED
  BY <1>2, <1>3, <1>4, <1>5

\* A sequence of one element.
LEMMA OneElement ==
  ASSUME NEW S, NEW t \in S
  PROVE  /\ <<t>> \in Seq(S) /\ ToSet(<<t>>) = {t} /\ Head(<<t>>) = t
         /\ Tail(<<t>>) = << >> /\ Append(<< >>, t) = <<t>> /\ <<t>> # << >>
         /\ ToSet(<< >>) = {}
<1>1. ToSet(<<t>>) = {t}
  BY DEF ToSet
<1>2. ToSet(<< >>) = {}
  BY DEF ToSet
<1>. QED
  BY <1>1, <1>2

\* The first element of a sequence without repetitions is not among the others.
LEMMA FirstAndRest ==
  ASSUME NEW S, NEW s \in Seq(S), s # << >>, Distinct(s)
  PROVE  /\ Head(s) \in S /\ Tail(s) \in Seq(S) /\ Head(s) \in ToSet(s)
         /\ ToSet(Tail(s)) = ToSet(s) \ {Head(s)}
         /\ Distinct(Tail(s))
         /\ Len(s) = 1 <=> ToSet(s) \subseteq {Head(s)}
<1>1. /\ Head(s) \in S /\ Tail(s) \in Seq(S) /\ Len(Tail(s)) = Len(s) - 1
      /\ \A k \in 1 .. Len(Tail(s)) : Tail(s)[k] = s[k + 1]
      /\ Len(s) \in Nat \ {0} /\ Head(s) = s[1]
  BY HeadTailProperties, EmptySeq
<1>2. Distinct(Tail(s))
  BY <1>1 DEF Distinct
<1>3. ASSUME NEW t
      PROVE  t \in ToSet(Tail(s)) <=> t \in ToSet(s) \ {Head(s)}
  <2>1. t \in ToSet(s) <=> \E k \in 1 .. Len(s) : s[k] = t
    BY InToSet
  <2>2. t \in ToSet(Tail(s)) <=> \E k \in 1 .. Len(Tail(s)) : Tail(s)[k] = t
    BY <1>1, InToSet
  <2>3. ASSUME NEW k \in 1 .. Len(Tail(s)), Tail(s)[k] = t
        PROVE  t \in ToSet(s) \ {Head(s)}
    <3>1. k + 1 \in 1 .. Len(s) /\ s[k + 1] = t /\ 1 \in 1 .. Len(s) /\ k + 1 # 1
      BY <1>1, <2>3
    <3>. QED
      BY <1>1, <2>1, <3>1 DEF Distinct
  <2>4. ASSUME NEW k \in 1 .. Len(s), s[k] = t, t # Head(s)
        PROVE  t \in ToSet(Tail(s))
    <3>1. k - 1 \in 1 .. Len(Tail(s)) /\ k - 1 + 1 = k
      BY <1>1, <2>4
    <3>2. Tail(s)[k - 1] = t
      BY <1>1, <2>4, <3>1
    <3>. QED
      BY <2>2, <3>1, <3>2
  <2>. QED
    BY <2>1, <2>2, <2>3, <2>4
<1>4. Head(s) \in ToSet(s)
  <2>1. 1 \in 1 .. Len(s)
    BY <1>1
  <2>. QED
    BY <1>1, <2>1, InToSet
<1>5. Len(s) = 1 => ToSet(s) \subseteq {Head(s)}
  BY <1>1, InToSet
<1>6. ASSUME ToSet(s) \subseteq {Head(s)} PROVE Len(s) = 1
  <2>1. SUFFICES ASSUME Len(s) # 1 PROVE FALSE
    OBVIOUS
  <2>2. 2 \in 1 .. Len(s) /\ 1 \in 1 .. Len(s)
    BY <1>1, <2>1
  <2>3. s[2] \in ToSet(s)
    BY <2>2, InToSet
  <2>. QED
    BY <1>1, <1>6, <2>2, <2>3 DEF Distinct
<1>. QED
  BY <1>1, <1>2, <1>3, <1>4, <1>5, <1>6

\* Division with remainder.
LEMMA DivMod ==
  ASSUME NEW n \in Nat \ {0}, NEW k \in Nat
  PROVE  /\ k % n \in 0 .. n - 1 /\ k \div n \in Nat
         /\ k = n * (k \div n) + (k % n)
  OBVIOUS

\* It is unique.
LEMMA DivModUnique ==
  ASSUME NEW n \in Nat \ {0}, NEW a \in Nat, NEW b \in 0 .. n - 1,
         NEW c \in Nat, NEW d \in 0 .. n - 1, n * a + b = n * c + d
  PROVE  a = c /\ b = d
  OBVIOUS

\* The quotients of the numbers below a product.
LEMMA DivBound ==
  ASSUME NEW n \in Nat \ {0}, NEW m \in Nat \ {0}, NEW a \in Nat, NEW b \in 0 .. n - 1,
         n * a + b < m * n
  PROVE  a < m
  OBVIOUS

\* And the other way round.
LEMMA DivIn ==
  ASSUME NEW n \in Nat \ {0}, NEW m \in Nat \ {0}, NEW a \in 0 .. m - 1,
         NEW b \in 0 .. n - 1
  PROVE  n * a + b \in 0 .. m * n - 1
  OBVIOUS

\* The places 1 .. m * n are the pairs of a row and a column.
Col(n, k) == ((k - 1) % n) + 1
Row(n, k) == ((k - 1) \div n) + 1

IsGrid(n, m, p) ==
  /\ \A k \in 1 .. p : Col(n, k) \in 1 .. n /\ Row(n, k) \in 1 .. m
  /\ \A k, l \in 1 .. p : Col(n, k) = Col(n, l) /\ Row(n, k) = Row(n, l) => k = l
  /\ \A c \in 1 .. n, r \in 1 .. m : \E k \in 1 .. p : Col(n, k) = c /\ Row(n, k) = r

\* Each pair has one place.
LEMMA Grid ==
  ASSUME NEW n \in Nat \ {0}, NEW m \in Nat \ {0}
  PROVE  IsGrid(n, m, m * n)
<1>0. m * n \in Nat
  OBVIOUS
<1>1. ASSUME NEW k \in 1 .. m * n
      PROVE  /\ Col(n, k) \in 1 .. n /\ Row(n, k) \in 1 .. m
             /\ k = n * (Row(n, k) - 1) + Col(n, k)
  <2>1. k - 1 \in Nat /\ k - 1 < m * n
    BY <1>0
  <2>. DEFINE a == (k - 1) \div n  b == (k - 1) % n
  <2>2. b \in 0 .. n - 1 /\ a \in Nat /\ k - 1 = n * a + b
    BY <2>1, DivMod
  <2>. HIDE DEF a, b
  <2>3. a < m
    <3>1. n * a + b < m * n
      BY <2>1, <2>2
    <3>. QED
      BY <2>2, <3>1, DivBound
  <2>4. Col(n, k) = b + 1 /\ Row(n, k) = a + 1
    BY DEF Col, Row, a, b
  <2>5. b + 1 \in 1 .. n /\ a + 1 \in 1 .. m /\ (a + 1) - 1 = a
    BY <2>2, <2>3
  <2>6. k = n * a + (b + 1)
    <3>1. n * a \in Nat
      BY <2>2
    <3>. QED
      BY <2>1, <2>2, <3>1
  <2>. QED
    BY <2>4, <2>5, <2>6
<1>2. ASSUME NEW k \in 1 .. m * n, NEW l \in 1 .. m * n,
             Col(n, k) = Col(n, l), Row(n, k) = Row(n, l)
      PROVE  k = l
  BY <1>1, <1>2
<1>3. ASSUME NEW c \in 1 .. n, NEW r \in 1 .. m
      PROVE  \E k \in 1 .. m * n : Col(n, k) = c /\ Row(n, k) = r
  <2>. DEFINE x == n * (r - 1) + (c - 1)
  <2>1. r - 1 \in 0 .. m - 1 /\ c - 1 \in 0 .. n - 1
    OBVIOUS
  <2>2. x \in 0 .. m * n - 1
    BY <2>1, DivIn
  <2>3. x % n \in 0 .. n - 1 /\ x \div n \in Nat /\ x = n * (x \div n) + (x % n)
    <3>1. x \in Nat
      BY <1>0, <2>2
    <3>. HIDE DEF x
    <3>. QED
      BY <3>1, DivMod
  <2>4. x \div n = r - 1 /\ x % n = c - 1
    <3>. DEFINE a == x \div n  b == x % n
    <3>1. a \in Nat /\ b \in 0 .. n - 1 /\ r - 1 \in Nat /\ n * a + b = n * (r - 1) + (c - 1)
      BY <2>1, <2>3
    <3>. HIDE DEF a, b, x
    <3>2. a = r - 1 /\ b = c - 1
      BY <2>1, <3>1, DivModUnique
    <3>. QED
      BY <3>2 DEF a, b
  <2>. HIDE DEF x
  <2>5. x + 1 \in 1 .. m * n /\ (x + 1) - 1 = x
    BY <1>0, <2>2
  <2>6. Col(n, x + 1) = c /\ Row(n, x + 1) = r
    BY <2>4, <2>5 DEF Col, Row
  <2>. QED
    BY <2>5, <2>6
<1>. QED
  BY <1>1, <1>2, <1>3 DEF IsGrid

\* The orders of a batch have each request once.
LEMMA OrderOf ==
  ASSUME NEW B \in SUBSET Req, B # {}, NEW q \in SetToSeqs(B)
  PROVE  /\ Len(q) \in Nat \ {0} /\ q \in [1 .. Len(q) -> B]
         /\ \A i, j \in 1 .. Len(q) : q[i] = q[j] => i = j
         /\ \A r \in B : \E i \in 1 .. Len(q) : q[i] = r
<1>. DEFINE n == Cardinality(B)
<1>1. IsFiniteSet(B) /\ n \in Nat /\ n # 0
  BY HandoffAssumption, FS_Subset, FS_CardinalityType, FS_EmptySet
<1>2. q \in [1 .. n -> B] /\ \A i, j \in 1 .. n : i # j => q[i] # q[j]
  BY DEF SetToSeqs
<1>. HIDE DEF n
<1>3. Len(q) = n
  BY <1>1, <1>2
<1>4. q \in Injection(1 .. n, B)
  BY <1>2 DEF Injection, IsInjective
<1>5. IsFiniteSet(1 .. n) /\ Cardinality(1 .. n) = n
  BY <1>1, FS_Interval
<1>6. q \in Surjection(1 .. n, B)
  BY <1>1, <1>4, <1>5, FS_Injection DEF n
<1>. QED
  BY <1>1, <1>2, <1>3, <1>6 DEF Surjection

\* T transfers the layers of the requests of q, in the order of R and C.
Layout(T, q, m, R, C) ==
  /\ T = [k \in 1 .. m |-> [req |-> q[R[k]], layer |-> C[k]]]
  /\ \A k \in 1 .. m : R[k] \in 1 .. Len(q) /\ C[k] \in 1 .. Layers
  /\ \A k, l \in 1 .. m : R[k] = R[l] /\ C[k] = C[l] => k = l
  /\ \A r \in 1 .. Len(q), c \in 1 .. Layers : \E k \in 1 .. m : R[k] = r /\ C[k] = c

\* The step for a batch transfers every layer of each of its requests once.
LEMMA TransfersAll ==
  ASSUME NEW e \in Inst, NEW B \in SUBSET Req, B # {}, NEW q \in SetToSeqs(B)
  PROVE  /\ Transfers(e, q) \in Seq(Tensor)
         /\ Distinct(Transfers(e, q))
         /\ \A t \in Tensor : t \in ToSet(Transfers(e, q)) <=> t.req \in B
<1>. DEFINE n == Len(q)  T == Transfers(e, q)
            At(r, l) == [req |-> q[r], layer |-> l]
<1>1. /\ n \in Nat \ {0} /\ q \in [1 .. n -> B]
      /\ \A i, j \in 1 .. n : q[i] = q[j] => i = j
      /\ \A r \in B : \E i \in 1 .. n : q[i] = r
  BY OrderOf
<1>2. Layers \in Nat \ {0}
  BY HandoffAssumption
<1>3. n * Layers = Layers * n /\ Layers * n \in Nat
  BY <1>1, <1>2
<1>. HIDE DEF n
<1>. DEFINE m == Layers * n
<1>4. m \in Nat
  BY <1>3
<1>. HIDE DEF m
<1>5. \E R, C : Layout(T, q, m, R, C)
  <2>1. CASE e \in Prefill
    <3>. DEFINE R == [k \in 1 .. m |-> Col(n, k)]
                C == [k \in 1 .. m |-> Row(n, k)]
    <3>1. T = [k \in 1 .. m |-> [req |-> q[R[k]], layer |-> C[k]]]
      BY <2>1 DEF Transfers, Col, Row, n, m
    <3>2. IsGrid(n, Layers, m)
      BY <1>1, <1>2, Grid DEF m
    <3>3. \A k \in 1 .. m : R[k] = Col(n, k) /\ C[k] = Row(n, k)
      OBVIOUS
    <3>. HIDE DEF R, C
    <3>4. Layout(T, q, m, R, C)
      BY <3>1, <3>2, <3>3 DEF IsGrid, Layout, n
    <3>. QED
      BY <3>4
  <2>2. CASE e \notin Prefill
    <3>. DEFINE R == [k \in 1 .. m |-> Row(Layers, k)]
                C == [k \in 1 .. m |-> Col(Layers, k)]
    <3>1. T = [k \in 1 .. m |-> [req |-> q[R[k]], layer |-> C[k]]]
      BY <2>2 DEF Transfers, Col, Row, n, m
    <3>2. IsGrid(Layers, n, m)
      <4>1. m = n * Layers
        BY <1>3 DEF m
      <4>2. IsGrid(Layers, n, n * Layers)
        BY <1>1, <1>2, Grid
      <4>. QED
        BY <4>1, <4>2
    <3>3. \A k \in 1 .. m : R[k] = Row(Layers, k) /\ C[k] = Col(Layers, k)
      OBVIOUS
    <3>. HIDE DEF R, C
    <3>4. Layout(T, q, m, R, C)
      BY <3>1, <3>2, <3>3 DEF IsGrid, Layout, n
    <3>. QED
      BY <3>4
  <2>. QED
    BY <2>1, <2>2
<1>. HIDE DEF T
<1>6. PICK R, C : Layout(T, q, m, R, C)
  BY <1>5
<1>7. /\ T \in [1 .. m -> Tensor]
      /\ \A k \in 1 .. m : T[k].req = q[R[k]] /\ T[k].layer = C[k] /\ q[R[k]] \in B
  BY <1>1, <1>6 DEF Tensor, Layout, n
<1>8. T \in Seq(Tensor) /\ Len(T) = m
  BY <1>4, <1>7
<1>9. Distinct(T)
  <2>. SUFFICES ASSUME NEW k \in 1 .. m, NEW l \in 1 .. m, T[k] = T[l] PROVE k = l
    BY <1>8 DEF Distinct
  <2>1. q[R[k]] = q[R[l]] /\ C[k] = C[l]
    BY <1>7
  <2>2. R[k] \in 1 .. n /\ R[l] \in 1 .. n
    BY <1>6 DEF Layout, n
  <2>3. R[k] = R[l]
    BY <1>1, <2>1, <2>2
  <2>. QED
    BY <1>6, <2>1, <2>3 DEF Layout
<1>10. ASSUME NEW t \in Tensor
       PROVE  t \in ToSet(T) <=> t.req \in B
  <2>1. t \in ToSet(T) <=> \E k \in 1 .. m : T[k] = t
    BY <1>8, InToSet
  <2>2. ASSUME NEW k \in 1 .. m, T[k] = t PROVE t.req \in B
    BY <1>7, <2>2
  <2>3. ASSUME t.req \in B PROVE \E k \in 1 .. m : T[k] = t
    <3>1. PICK i \in 1 .. n : q[i] = t.req
      BY <1>1, <2>3
    <3>2. t.layer \in 1 .. Layers /\ t = [req |-> t.req, layer |-> t.layer]
      BY DEF Tensor
    <3>3. PICK k \in 1 .. m : R[k] = i /\ C[k] = t.layer
      BY <1>6, <3>2 DEF Layout, n
    <3>4. T[k] = [req |-> q[R[k]], layer |-> C[k]]
      BY <1>6 DEF Layout, n
    <3>. QED
      BY <3>1, <3>2, <3>3, <3>4
  <2>. QED
    BY <2>1, <2>2, <2>3
<1>. QED
  BY <1>8, <1>9, <1>10 DEF T

----------------------------------------------------------------------------
(***************************************************************************)
(* What a step leaves alone.                                               *)
(***************************************************************************)

\* The parts of the invariant.
LEMMA Parts ==
  ASSUME KvInv
  PROVE  /\ TypeOK
         /\ \A r \in Req : IdInv(r)
         /\ \A e \in Inst : JobInv(e)
         /\ \A e \in Inst : AskInv(e)
         /\ \A e \in Decode : LoadInv(e)
         /\ \A f, g \in Inst : NetInv(f, g)
         /\ \A t \in Tensor : TensorInv(t)
  BY DEF KvInv

\* The first transfer of a step.
LEMMA JobHead ==
  ASSUME TypeOK, NEW e \in Inst, job[e] # << >>
  PROVE  /\ Head(job[e]) \in Tensor /\ Head(job[e]).req \in Req
         /\ Tail(job[e]) \in Seq(Tensor)
<1>1. job[e] \in Seq(Tensor)
  BY DEF TypeOK
<1>2. Head(job[e]) \in Tensor /\ Tail(job[e]) \in Seq(Tensor)
  BY <1>1, HeadTailProperties
<1>. QED
  BY <1>2 DEF Tensor

\* What add_request does.
LEMMA SubmitEffect ==
  ASSUME TypeOK, NEW e \in Inst, NEW r \in Req, Submit(e, r)
  PROVE  /\ half' \in [Inst -> [Req -> HalfStates]]
         /\ \A k \in Inst, q \in Req : k # e \/ q # r => half'[k][q] = half[k][q]
<1>1. half \in [Inst -> [Req -> HalfStates]]
  BY DEF TypeOK
<1>2. PICK h \in HalfStates : half' = [half EXCEPT ![e][r] = h]
  BY DEF Submit, HalfStates
<1>. QED
  BY <1>1, <1>2

\* Nobody asks for more than before, and what is safe stays safe.
LEMMA TensorKept ==
  ASSUME NEW t \in Tensor, TensorInv(t), id'[t.req] = id[t.req],
         Ahead(t)' => Ahead(t), Flying(t)' => Flying(t),
         \A e \in Inst : t \in store'[e] => t \in store[e],
         \A e \in Inst : t \in sent'[e] =>
           t \in sent[e] \/ (id[t.req].decode \in Decode /\ Safe(id[t.req].decode, t)),
         \A e \in Decode : half'[e][t.req] = "done" => half[e][t.req] = "done",
         \A d \in Decode : Safe(d, t) => Safe(d, t)'
  PROVE  TensorInv(t)'
  BY DEF TensorInv

\* The messages between two instances, and the step they belong to, are the same.
LEMMA NetKept ==
  ASSUME NEW f \in Inst, NEW g \in Inst, NetInv(f, g), AskInv(f),
         job[f] \in Seq(Tensor),
         net'[f][g] = net[f][g], acks'[f][g] = acks[f][g], job'[f] = job[f],
         f \in asked' <=> f \in asked, eng'[f] = "up" => eng[f] = "up",
         \A r \in Req : id[r].decode \in Inst => id'[r] = id[r],
         \A t \in Tensor : Safe(g, t) => Safe(g, t)'
  PROVE  NetInv(f, g)'
<1>1. net'[f][g] # << >> =>
        \E t \in Tensor : /\ net'[f][g] = <<t>>
                          /\ id'[t.req].prefill = f /\ id'[t.req].decode = g
  BY DEF NetInv, Tensor
<1>2. eng'[f] = "up" /\ net'[f][g] # << >> =>
        f \in asked' /\ net'[f][g] = <<Head(job'[f])>> /\ acks'[f][g] = << >>
  BY DEF NetInv
<1>3. ASSUME acks'[f][g] # << >>
      PROVE  /\ f \in asked' /\ g = Peer(f)'
             /\ \E b \in BOOLEAN : acks'[f][g] = <<b>> /\ (b => Safe(g, Head(job[f]))')
  <2>1. /\ f \in asked /\ g = Peer(f)
        /\ \E b \in BOOLEAN : acks[f][g] = <<b>> /\ (b => Safe(g, Head(job[f])))
    BY <1>3 DEF NetInv
  <2>2. f \in Prefill /\ job[f] # << >> /\ Peer(f) \in Decode
    BY <2>1 DEF AskInv
  <2>3. Head(job[f]) \in Tensor
    BY <2>2, HeadTailProperties
  <2>4. Peer(f)' = Peer(f)
    <3>1. Peer(f) = id[Head(job[f]).req].decode /\ Peer(f)' = id'[Head(job[f]).req].decode
      BY <2>2 DEF Peer, parse_request_id
    <3>2. Head(job[f]).req \in Req
      BY <2>3 DEF Tensor
    <3>. QED
      BY <3>1, <3>2, <2>2 DEF Inst
  <2>5. PICK t \in Tensor : t = Head(job[f])
    BY <2>3
  <2>6. Safe(g, t) => Safe(g, t)'
    OBVIOUS
  <2>7. Safe(g, Head(job[f])) = Safe(g, t) /\ Safe(g, Head(job[f]))' = Safe(g, t)'
    BY <2>5 DEF Safe, Ended
  <2>. QED
    BY <1>3, <2>1, <2>4, <2>6, <2>7
<1>. QED
  BY <1>1, <1>2, <1>3 DEF NetInv

\* The model threads ask for nothing new.
LEMMA AheadKept ==
  ASSUME NEW t \in Tensor,
         \A e \in Prefill : half'[e][t.req] = "queued" => half[e][t.req] = "queued",
         \A e \in Prefill : t \in ToSet(Rest(e)') => t \in ToSet(Rest(e))
  PROVE  Ahead(t)' => Ahead(t)
  BY DEF Ahead

\* The state of a request on an instance changes from one that has not ended.
LEMMA SafeKept ==
  ASSUME NEW e \in Inst, NEW r \in Req, NEW h, half' = [half EXCEPT ![e][r] = h],
         half \in [Inst -> [Req -> HalfStates]],
         half[e][r] \notin {"done", "aborted", "failed"}, eng' = eng, store' = store
  PROVE  \A d \in Inst, t \in Tensor : Safe(d, t) => Safe(d, t)'
<1>. SUFFICES ASSUME NEW d \in Inst, NEW t \in Tensor, Safe(d, t) PROVE Safe(d, t)'
  OBVIOUS
<1>1. t.req \in Req
  BY DEF Tensor
<1>. QED
  BY <1>1 DEF Safe, Ended

\* A step of the manager that submits nothing.
LEMMA ManagerKept ==
  ASSUME KvInv, TypeOK', \A r \in Req : IdInv(r)',
         UNCHANGED <<eng, id, half, job, asked, net, acks, store, sent>>
  PROVE  KvInv'
<1>1. \A e \in Inst : JobInv(e)' /\ AskInv(e)'
  BY Parts DEF JobInv, AskInv, Peer, parse_request_id
<1>2. \A e \in Decode : LoadInv(e)'
  BY Parts DEF LoadInv
<1>3. \A f, g \in Inst : NetInv(f, g)'
  BY Parts DEF NetInv, Safe, Ended, Peer, parse_request_id
<1>4. \A t \in Tensor : TensorInv(t)'
  BY Parts DEF TensorInv, Safe, Ended, Ahead, Flying, Rest
<1>. QED
  BY <1>1, <1>2, <1>3, <1>4 DEF KvInv

\* get_instance_info.
LEMMA ReportKeeps ==
  ASSUME KvInv, NEW e \in Inst, Report(e)
  PROVE  KvInv'
<1>1. TypeOK'
  BY Parts DEF TypeOK, Report
<1>2. \A r \in Req : IdInv(r)'
  BY Parts DEF IdInv, Paired, Report
<1>. QED
  BY <1>1, <1>2, ManagerKept DEF Report

\* The calls of generate that fail, and an abort by the client.
LEMMA EndKeeps ==
  ASSUME KvInv, NEW r \in Req, GenerateFails(r) \/ ClientAborts(r)
  PROVE  KvInv'
<1>0. /\ TypeOK /\ IdInv(r)
      /\ gen[r] \in {"producer", "both"} /\ gen' = [gen EXCEPT ![r] = "ended"]
      /\ aborts' = aborts \cup BothSides(r)
      /\ UNCHANGED <<known, eng, id, half, job, asked, net, acks, store, sent, lost,
                     starved, faults>>
  BY Parts DEF GenerateFails, ClientAborts
<1>1. Paired(r)
  BY <1>0 DEF IdInv
<1>2. TypeOK'
  <2>1. BothSides(r) \subseteq Inst \X Req
    BY <1>1 DEF BothSides, Paired, Inst
  <2>2. gen' \in [Req -> {"new", "producer", "both", "single", "ended"}]
    BY <1>0 DEF TypeOK
  <2>. QED
    BY <1>0, <2>1, <2>2 DEF TypeOK
<1>3. ASSUME NEW q \in Req PROVE IdInv(q)'
  <2>1. CASE q = r
    <3>1. gen'[r] = "ended" /\ id' = id /\ half' = half
      BY <1>0 DEF TypeOK
    <3>. QED
      BY <1>0, <1>1, <2>1, <3>1 DEF IdInv, Paired
  <2>2. CASE q # r
    <3>1. gen'[q] = gen[q] /\ id' = id /\ half' = half
      BY <1>0, <2>2 DEF TypeOK
    <3>. QED
      BY Parts, <3>1 DEF IdInv, Paired
  <2>. QED
    BY <2>1, <2>2
<1>. QED
  BY <1>0, <1>2, <1>3, ManagerKept

\* The tensors of a request that was not submitted are nowhere.
LEMMA NewNowhere ==
  ASSUME KvInv, NEW t \in Tensor, gen[t.req] \in {"new", "single"}
  PROVE  /\ \A e \in Inst : t \notin store[e] /\ t \notin sent[e]
         /\ ~Flying(t)
<1>1. t.req \in Req /\ TypeOK /\ IdInv(t.req) /\ TensorInv(t) /\ NoEnd \notin Inst
  BY Parts, HandoffAssumption DEF Tensor, Inst
<1>2. id[t.req].prefill = NoEnd /\ id[t.req].decode = NoEnd
  BY <1>1 DEF IdInv
<1>3. \A e \in Inst : t \notin store[e]
  BY <1>1, <1>2 DEF TensorInv
<1>4. \A e \in Inst : t \notin sent[e]
  BY <1>1, <1>2 DEF TensorInv, Inst
<1>5. ASSUME NEW f \in Inst, NEW g \in Inst PROVE t \notin ToSet(net[f][g])
  <2>. SUFFICES ASSUME t \in ToSet(net[f][g]) PROVE FALSE
    OBVIOUS
  <2>1. net[f][g] # << >>
    BY OneElement
  <2>2. PICK u \in Tensor : net[f][g] = <<u>> /\ id[u.req].prefill = f
    BY <2>1, Parts DEF NetInv
  <2>3. u = t
    BY <2>2, OneElement
  <2>. QED
    BY <1>1, <1>2, <2>2, <2>3
<1>. QED
  BY <1>3, <1>4, <1>5 DEF Flying

\* A request reaches an instance that did not have it: a consumer, or a producer
\* that is the first to have it.
LEMMA SubmitKeeps ==
  ASSUME KvInv, TypeOK', \A q \in Req : IdInv(q)', NEW e \in Inst, NEW r \in Req,
         half[e][r] = "none", Submit(e, r), e \in Decode \/ gen[r] = "new",
         \A q \in Req : q # r \/ gen[r] # "new" => id'[q] = id[q],
         UNCHANGED <<eng, job, asked, net, acks, store, sent>>
  PROVE  KvInv'
<1>0. /\ TypeOK /\ half \in [Inst -> [Req -> HalfStates]] /\ Prefill \cap Decode = {}
      /\ Decode \subseteq Inst /\ Prefill \subseteq Inst /\ NoEnd \notin Inst
  BY Parts, HandoffAssumption DEF TypeOK, Inst
<1>1. PICK h \in {"queued", "failed"} : half' = [half EXCEPT ![e][r] = h]
  BY DEF Submit
<1>2. \A d \in Inst, t \in Tensor : Safe(d, t) => Safe(d, t)'
  BY <1>0, <1>1, SafeKept
<1>3. ASSUME NEW k \in Inst PROVE JobInv(k)'
  <2>1. \A t \in ToSet(job[k]) : t \in Tensor /\ half[k][t.req] = "running"
    BY <1>0, Parts, InToSet DEF JobInv, TypeOK
  <2>2. \A t \in ToSet(job[k]) : half'[k][t.req] = "running"
    BY <1>0, <1>1, <2>1 DEF Tensor
  <2>. QED
    BY <2>2, Parts DEF JobInv
<1>4. \A q \in Req : id[q].decode \in Inst => id'[q] = id[q]
  BY <1>0, Parts DEF IdInv
<1>5. ASSUME NEW f \in Inst PROVE AskInv(f)'
  <2>. SUFFICES ASSUME f \in asked PROVE f \in Prefill /\ job[f] # << >> /\ Peer(f)' \in Decode
    BY DEF AskInv
  <2>1. f \in Prefill /\ job[f] # << >> /\ Peer(f) \in Decode
    BY Parts DEF AskInv
  <2>2. Head(job[f]).req \in Req
    BY <1>0, <2>1, JobHead
  <2>. QED
    BY <1>0, <1>4, <2>1, <2>2 DEF Peer, parse_request_id
<1>6. ASSUME NEW d \in Decode PROVE LoadInv(d)'
  <2>1. \A q \in Req : half'[d][q] \in {"running", "loaded"} => half'[d][q] = half[d][q]
    BY <1>0, <1>1
  <2>2. \A t \in Tensor : t.req \in Req
    BY DEF Tensor
  <2>. QED
    BY <2>1, <2>2, Parts DEF LoadInv
<1>7. ASSUME NEW f \in Inst, NEW g \in Inst PROVE NetInv(f, g)'
  <2>1. job[f] \in Seq(Tensor) /\ NetInv(f, g) /\ AskInv(f)
    BY <1>0, Parts DEF TypeOK
  <2>. QED
    BY <1>2, <1>4, <2>1, NetKept
<1>8. ASSUME NEW t \in Tensor PROVE TensorInv(t)'
  <2>0. t.req \in Req /\ TensorInv(t)
    BY Parts DEF Tensor
  <2>1. CASE t.req = r /\ gen[r] = "new"
    <3>1. /\ \A k \in Inst : t \notin store'[k] /\ t \notin sent'[k]
          /\ ~Flying(t)'
      BY <2>1, NewNowhere DEF Flying
    <3>2. \A k \in Inst : half[k][r] = "none"
      <4>1. IdInv(r) /\ ~Paired(r)
        BY <1>0, <2>1, Parts DEF IdInv, Paired
      <4>. QED
        BY <2>1, <4>1 DEF IdInv
    <3>3. \A d \in Decode : half'[d][r] # "done"
      BY <1>0, <1>1, <3>2
    <3>. QED
      BY <1>0, <2>1, <3>1, <3>3 DEF TensorInv
  <2>2. CASE t.req # r \/ gen[r] # "new"
    <3>1. id'[t.req] = id[t.req]
      BY <2>0, <2>2
    <3>2. \A k \in Prefill : half'[k][t.req] = "queued" => half[k][t.req] = "queued"
      BY <1>0, <1>1, <2>0, <2>2
    <3>3. \A k \in Prefill : Rest(k)' = Rest(k)
      BY DEF Rest
    <3>4. Ahead(t)' => Ahead(t)
      BY <3>2, <3>3, AheadKept
    <3>5. Flying(t)' => Flying(t)
      BY DEF Flying
    <3>6. \A d \in Decode : half'[d][t.req] = "done" => half[d][t.req] = "done"
      BY <1>0, <1>1, <2>0
    <3>. QED
      BY <1>0, <1>2, <2>0, <3>1, <3>4, <3>5, <3>6, TensorKept
  <2>. QED
    BY <2>1, <2>2
<1>. QED
  BY <1>3, <1>5, <1>6, <1>7, <1>8 DEF KvInv

\* generate submits to the prefill instance, under the id of both sides.
LEMMA ProducerKeeps ==
  ASSUME KvInv, NEW r \in Req, NEW p \in Prefill, NEW d \in Decode,
         GenerateProducer(r, p, d)
  PROVE  KvInv'
<1>0. /\ TypeOK /\ IdInv(r) /\ Decode \subseteq Inst /\ p \in Inst /\ NoEnd \notin Inst
      /\ gen[r] = "new" /\ Submit(p, r) /\ gen' = [gen EXCEPT ![r] = "producer"]
      /\ id' = [id EXCEPT ![r] = [decode |-> d, prefill |-> p]]
      /\ UNCHANGED <<known, eng, job, asked, net, acks, store, sent, aborts, lost,
                     starved, faults>>
  BY Parts, HandoffAssumption DEF GenerateProducer, decorate_p2p_pd_request_id, Inst
<1>1. \A k \in Inst : half[k][r] = "none"
  <2>1. ~Paired(r)
    BY <1>0 DEF IdInv, Paired, Inst
  <2>. QED
    BY <1>0, <2>1 DEF IdInv
<1>2. /\ half' \in [Inst -> [Req -> HalfStates]]
      /\ \A k \in Inst, q \in Req : k # p \/ q # r => half'[k][q] = half[k][q]
  BY <1>0, SubmitEffect
<1>3. TypeOK'
  <2>1. gen' \in [Req -> {"new", "producer", "both", "single", "ended"}]
    BY <1>0 DEF TypeOK
  <2>2. id' \in [Req -> [decode : Inst \cup {NoEnd}, prefill : Inst \cup {NoEnd}]]
    BY <1>0 DEF TypeOK
  <2>. QED
    BY <1>0, <1>2, <2>1, <2>2 DEF TypeOK
<1>4. ASSUME NEW q \in Req PROVE IdInv(q)'
  <2>1. CASE q = r
    <3>1. gen'[r] = "producer" /\ id'[r].decode = d /\ id'[r].prefill = p
      BY <1>0 DEF TypeOK
    <3>2. \A k \in Inst : half'[k][r] # "none" => k = p
      BY <1>1, <1>2
    <3>. QED
      BY <2>1, <3>1, <3>2 DEF IdInv, Paired
  <2>2. CASE q # r
    <3>1. gen'[q] = gen[q] /\ id'[q] = id[q] /\ \A k \in Inst : half'[k][q] = half[k][q]
      BY <1>0, <1>2, <2>2 DEF TypeOK
    <3>. QED
      BY Parts, <3>1 DEF IdInv, Paired
  <2>. QED
    BY <2>1, <2>2
<1>5. \A q \in Req : q # r \/ gen[r] # "new" => id'[q] = id[q]
  BY <1>0 DEF TypeOK
<1>. QED
  BY <1>0, <1>1, <1>3, <1>4, <1>5, SubmitKeeps

\* And to the decoding instance.
LEMMA ConsumerKeeps ==
  ASSUME KvInv, NEW r \in Req, GenerateConsumer(r)
  PROVE  KvInv'
<1>0. /\ TypeOK /\ IdInv(r) /\ Decode \subseteq Inst /\ Prefill \cap Decode = {}
      /\ gen[r] = "producer" /\ gen' = [gen EXCEPT ![r] = "both"]
      /\ Submit(id[r].decode, r)
      /\ UNCHANGED <<known, eng, id, job, asked, net, acks, store, sent, aborts, lost,
                     starved, faults>>
  BY Parts, HandoffAssumption DEF GenerateConsumer, Inst
<1>1. Paired(r)
  BY <1>0 DEF IdInv
<1>2. PICK d \in Decode : d = id[r].decode
  BY <1>1 DEF Paired
<1>3. half[d][r] = "none"
  <2>1. d # id[r].prefill /\ d \in Inst
    BY <1>0, <1>1 DEF Paired
  <2>. QED
    BY <1>0, <2>1 DEF IdInv
<1>4. Submit(d, r)
  BY <1>0, <1>2
<1>5. /\ half' \in [Inst -> [Req -> HalfStates]]
      /\ \A k \in Inst, q \in Req : k # d \/ q # r => half'[k][q] = half[k][q]
  BY <1>0, <1>4, SubmitEffect
<1>6. TypeOK'
  <2>1. gen' \in [Req -> {"new", "producer", "both", "single", "ended"}]
    BY <1>0 DEF TypeOK
  <2>. QED
    BY <1>0, <1>5, <2>1 DEF TypeOK
<1>7. ASSUME NEW q \in Req PROVE IdInv(q)'
  <2>1. CASE q = r
    <3>1. gen'[r] = "both" /\ id' = id
      BY <1>0 DEF TypeOK
    <3>2. \A k \in Inst : half'[k][r] # "none" => k = d \/ k = id[r].prefill
      BY <1>0, <1>5 DEF IdInv
    <3>. QED
      BY <1>1, <1>2, <2>1, <3>1, <3>2 DEF IdInv, Paired
  <2>2. CASE q # r
    <3>1. gen'[q] = gen[q] /\ id'[q] = id[q] /\ \A k \in Inst : half'[k][q] = half[k][q]
      BY <1>0, <1>5, <2>2 DEF TypeOK
    <3>. QED
      BY Parts, <3>1 DEF IdInv, Paired
  <2>. QED
    BY <2>1, <2>2
<1>. QED
  BY <1>0, <1>3, <1>4, <1>6, <1>7, SubmitKeeps

\* A request without endpoints is the prefill instance's alone.
LEMMA SingleKeeps ==
  ASSUME KvInv, NEW r \in Req, NEW p \in Prefill, NEW d \in Decode,
         GenerateSingle(r, p, d)
  PROVE  KvInv'
<1>0. /\ TypeOK /\ IdInv(r) /\ p \in Inst /\ NoEnd \notin Inst
      /\ gen[r] = "new" /\ Submit(p, r) /\ gen' = [gen EXCEPT ![r] = "single"]
      /\ UNCHANGED <<known, eng, id, job, asked, net, acks, store, sent, aborts, lost,
                     starved, faults>>
  BY Parts, HandoffAssumption DEF GenerateSingle, Inst
<1>1. \A k \in Inst : half[k][r] = "none"
  <2>1. ~Paired(r)
    BY <1>0 DEF IdInv, Paired, Inst
  <2>. QED
    BY <1>0, <2>1 DEF IdInv
<1>2. /\ half' \in [Inst -> [Req -> HalfStates]]
      /\ \A k \in Inst, q \in Req : k # p \/ q # r => half'[k][q] = half[k][q]
  BY <1>0, SubmitEffect
<1>3. TypeOK'
  <2>1. gen' \in [Req -> {"new", "producer", "both", "single", "ended"}]
    BY <1>0 DEF TypeOK
  <2>. QED
    BY <1>0, <1>2, <2>1 DEF TypeOK
<1>4. ASSUME NEW q \in Req PROVE IdInv(q)'
  <2>1. CASE q = r
    <3>1. gen'[r] = "single" /\ id' = id
      BY <1>0 DEF TypeOK
    <3>2. \A k \in Inst : half'[k][r] # "none" => k = p
      BY <1>1, <1>2
    <3>. QED
      BY <1>0, <2>1, <3>1, <3>2 DEF IdInv, Paired
  <2>2. CASE q # r
    <3>1. gen'[q] = gen[q] /\ id'[q] = id[q] /\ \A k \in Inst : half'[k][q] = half[k][q]
      BY <1>0, <1>2, <2>2 DEF TypeOK
    <3>. QED
      BY Parts, <3>1 DEF IdInv, Paired
  <2>. QED
    BY <2>1, <2>2
<1>. QED
  BY <1>0, <1>1, <1>3, <1>4, SubmitKeeps

----------------------------------------------------------------------------
(***************************************************************************)
(* The steps of an EngineCore.                                             *)
(***************************************************************************)

\* A request that has been loaded, or is aborted, ends between two steps.
LEMMA EndHalf ==
  ASSUME KvInv, TypeOK', NEW e \in Inst, NEW r \in Req, NEW h \in {"done", "aborted"},
         eng[e] = "up", job[e] = << >>, half[e][r] \in Live,
         h = "done" => e \in Decode /\ half[e][r] = "loaded",
         half' = [half EXCEPT ![e][r] = h],
         store' = [store EXCEPT ![e] = get_finished(e, {r})],
         \A k \in Inst : sent'[k] \subseteq sent[k],
         UNCHANGED <<eng, gen, id, job, asked, net, acks>>
  PROVE  KvInv'
<1>0. /\ TypeOK /\ half \in [Inst -> [Req -> HalfStates]]
      /\ store \in [Inst -> SUBSET Tensor]
      /\ Prefill \cap Decode = {} /\ Decode \subseteq Inst /\ Prefill \subseteq Inst
  BY Parts, HandoffAssumption DEF TypeOK, Inst
<1>1. /\ half'[e][r] = h
      /\ \A k \in Inst, q \in Req : k # e \/ q # r => half'[k][q] = half[k][q]
  BY <1>0
<1>2. /\ \A k \in Inst, t \in Tensor : t \in store'[k] <=> t \in store[k] /\ (k # e \/ t.req # r)
  BY <1>0 DEF get_finished
<1>3. ASSUME NEW d \in Inst, NEW t \in Tensor, Safe(d, t) PROVE Safe(d, t)'
  <2>0. t.req \in Req
    BY DEF Tensor
  <2>1. CASE d = e /\ t.req = r
    BY <1>1, <2>1 DEF Safe, Ended
  <2>2. CASE d # e \/ t.req # r
    <3>1. half'[d][t.req] = half[d][t.req] /\ (t \in store'[d] <=> t \in store[d])
      BY <1>1, <1>2, <2>0, <2>2
    <3>. QED
      BY <1>3, <3>1 DEF Safe, Ended
  <2>. QED
    BY <2>1, <2>2
<1>4. \A q \in Req : IdInv(q)'
  <2>1. \A k \in Inst, q \in Req : half'[k][q] # "none" => half[k][q] # "none"
    BY <1>1 DEF Live
  <2>. QED
    BY <2>1, Parts DEF IdInv, Paired
<1>5. ASSUME NEW k \in Inst PROVE JobInv(k)' /\ AskInv(k)'
  <2>1. \A t \in ToSet(job[k]) : t \in Tensor /\ half[k][t.req] = "running"
    BY <1>0, Parts, InToSet DEF JobInv, TypeOK
  <2>2. job[k] = << >> => ToSet(job[k]) = {}
    BY DEF ToSet
  <2>3. \A t \in ToSet(job[k]) : half'[k][t.req] = "running"
    BY <1>1, <2>1, <2>2 DEF Tensor
  <2>. QED
    BY <2>3, Parts DEF JobInv, AskInv, Peer, parse_request_id
<1>6. ASSUME NEW d \in Decode PROVE LoadInv(d)'
  <2>1. ASSUME NEW t \in Tensor, half'[d][t.req] \in {"running", "loaded"}
        PROVE  half'[d][t.req] = half[d][t.req] /\ (t \in store'[d] <=> t \in store[d])
    <3>1. t.req \in Req /\ d \in Inst
      BY <1>0 DEF Tensor
    <3>2. d # e \/ t.req # r
      BY <1>1, <2>1
    <3>. QED
      BY <1>1, <1>2, <3>1, <3>2
  <2>. QED
    BY <2>1, Parts DEF LoadInv
<1>7. ASSUME NEW f \in Inst, NEW g \in Inst PROVE NetInv(f, g)'
  <2>1. job[f] \in Seq(Tensor) /\ NetInv(f, g) /\ AskInv(f)
    BY <1>0, Parts DEF TypeOK
  <2>. QED
    BY <1>3, <2>1, NetKept
<1>8. ASSUME NEW t \in Tensor PROVE TensorInv(t)'
  <2>0. t.req \in Req /\ TensorInv(t)
    BY Parts DEF Tensor
  <2>1. \A k \in Prefill : half'[k][t.req] = "queued" => half[k][t.req] = "queued"
    BY <1>0, <1>1, <2>0
  <2>2. \A k \in Prefill : Rest(k)' = Rest(k)
    BY DEF Rest
  <2>3. Ahead(t)' => Ahead(t)
    BY <2>1, <2>2, AheadKept
  <2>4. Flying(t)' => Flying(t)
    BY DEF Flying
  <2>5. CASE t.req = r /\ h = "done"
    <3>1. e \in Decode /\ t \in store[e]
      BY <2>5, Parts DEF LoadInv
    <3>2. id[r].decode = e /\ ~Ahead(t) /\ ~Flying(t)
      BY <2>0, <2>5, <3>1 DEF TensorInv
    <3>3. \A k \in Inst : t \notin store'[k]
      BY <1>2, <2>0, <2>5, <3>2 DEF TensorInv
    <3>4. \A k \in Inst : t \in sent'[k] =>
            id[t.req].decode \in Decode /\ Safe(id[t.req].decode, t)'
      BY <1>0, <1>3, <2>0 DEF TensorInv
    <3>. QED
      BY <2>3, <2>4, <3>2, <3>3, <3>4 DEF TensorInv
  <2>6. CASE t.req # r \/ h # "done"
    <3>1. \A d \in Decode : half'[d][t.req] = "done" => half[d][t.req] = "done"
      BY <1>0, <1>1, <2>0, <2>6
    <3>. QED
      BY <1>0, <1>2, <1>3, <2>0, <2>3, <2>4, <3>1, TensorKept
  <2>. QED
    BY <2>5, <2>6
<1>. QED
  BY <1>4, <1>5, <1>6, <1>7, <1>8 DEF KvInv

\* The last token of a request.
LEMMA FinishKeeps ==
  ASSUME KvInv, NEW e \in Inst, NEW r \in Req, FinishDecode(e, r)
  PROVE  KvInv'
<1>0. /\ e \in Decode /\ eng[e] = "up" /\ job[e] = << >> /\ half[e][r] = "loaded"
      /\ half' = [half EXCEPT ![e][r] = "done"]
      /\ store' = [store EXCEPT ![e] = get_finished(e, {r})]
      /\ UNCHANGED <<known, eng, gen, id, job, asked, net, acks, sent, aborts, lost,
                     starved, faults>>
  BY DEF FinishDecode
<1>1. TypeOK'
  <2>0. TypeOK
    BY Parts
  <2>1. half' \in [Inst -> [Req -> HalfStates]]
    BY <1>0, <2>0 DEF TypeOK, HalfStates
  <2>2. store' \in [Inst -> SUBSET Tensor]
    BY <1>0, <2>0 DEF TypeOK, get_finished
  <2>. QED
    BY <1>0, <2>0, <2>1, <2>2 DEF TypeOK
<1>2. half[e][r] \in Live
  BY <1>0 DEF Live
<1>. QED
  BY <1>0, <1>1, <1>2, EndHalf

\* An abort is taken up between two steps, or the request has ended.
LEMMA AbortKeeps ==
  ASSUME KvInv, NEW e \in Inst, NEW r \in Req, AbortArrives(e, r)
  PROVE  KvInv'
<1>0. /\ TypeOK /\ aborts' = aborts \ {<<e, r>>}
      /\ UNCHANGED <<known, eng, gen, id, job, asked, net, acks, lost, starved, faults>>
  BY Parts DEF AbortArrives
<1>1. CASE eng[e] = "up" /\ half[e][r] \in Live
  <2>0. /\ job[e] = << >> /\ half' = [half EXCEPT ![e][r] = "aborted"]
        /\ store' = [store EXCEPT ![e] = get_finished(e, {r})]
        /\ sent' = [sent EXCEPT ![e] = {t \in @ : t.req # r}]
    BY <1>1 DEF AbortArrives
  <2>1. half' \in [Inst -> [Req -> HalfStates]]
    BY <1>0, <2>0 DEF TypeOK, HalfStates
  <2>2. store' \in [Inst -> SUBSET Tensor]
    BY <1>0, <2>0 DEF TypeOK, get_finished
  <2>3. sent' \in [Inst -> SUBSET Tensor] /\ \A k \in Inst : sent'[k] \subseteq sent[k]
    BY <1>0, <2>0 DEF TypeOK
  <2>4. TypeOK'
    BY <1>0, <2>1, <2>2, <2>3 DEF TypeOK
  <2>. QED
    BY <1>0, <1>1, <2>0, <2>3, <2>4, EndHalf
<1>2. CASE ~(eng[e] = "up" /\ half[e][r] \in Live)
  <2>0. UNCHANGED <<half, store, sent>>
    BY <1>2 DEF AbortArrives
  <2>1. TypeOK'
    BY <1>0, <2>0 DEF TypeOK
  <2>2. \A q \in Req : IdInv(q)'
    BY <1>0, <2>0, Parts DEF IdInv, Paired
  <2>. QED
    BY <1>0, <2>0, <2>1, <2>2, ManagerKept
<1>. QED
  BY <1>1, <1>2

\* Until it asks, a model thread has nothing under way.
LEMMA Quiet ==
  ASSUME KvInv, NEW e \in Inst, eng[e] = "up", e \notin asked
  PROVE  \A g \in Inst : net[e][g] = << >> /\ acks[e][g] = << >>
  BY Parts DEF NetInv

\* A step for the requests that are queued.
LEMMA StartKeeps ==
  ASSUME KvInv, NEW e \in Inst, StartStep(e)
  PROVE  KvInv'
<1>0. /\ TypeOK /\ half \in [Inst -> [Req -> HalfStates]] /\ job \in [Inst -> Seq(Tensor)]
      /\ Prefill \cap Decode = {} /\ Decode \subseteq Inst /\ Prefill \subseteq Inst
      /\ eng[e] = "up" /\ job[e] = << >>
      /\ UNCHANGED <<known, eng, gen, id, asked, net, acks, store, sent, aborts, lost,
                     starved, faults>>
  BY Parts, HandoffAssumption DEF TypeOK, Inst, StartStep
<1>1. PICK B \in SUBSET {r \in Req : half[e][r] = "queued"} :
        /\ B # {}
        /\ \E q \in SetToSeqs(B) : job' = [job EXCEPT ![e] = Transfers(e, q)]
        /\ half' = [half EXCEPT ![e] = [r \in Req |-> IF r \in B THEN "running" ELSE @[r]]]
  BY DEF StartStep
<1>2. B \in SUBSET Req /\ \A r \in B : half[e][r] = "queued"
  OBVIOUS
<1>3. PICK J \in Seq(Tensor) :
        /\ job' = [job EXCEPT ![e] = J] /\ Distinct(J)
        /\ \A t \in Tensor : t \in ToSet(J) <=> t.req \in B
  BY <1>1, <1>2, TransfersAll
<1>4. /\ \A q \in Req : half'[e][q] = IF q \in B THEN "running" ELSE half[e][q]
      /\ \A k \in Inst \ {e} : half'[k] = half[k]
      /\ half' \in [Inst -> [Req -> HalfStates]]
  BY <1>0, <1>1 DEF HalfStates
<1>5. /\ job'[e] = J /\ \A k \in Inst \ {e} : job'[k] = job[k]
      /\ job' \in [Inst -> Seq(Tensor)]
  BY <1>0, <1>3
<1>6. e \notin asked
  BY <1>0, Parts DEF AskInv
<1>7. TypeOK'
  BY <1>0, <1>4, <1>5 DEF TypeOK
<1>8. ASSUME NEW d \in Inst, NEW t \in Tensor, Safe(d, t) PROVE Safe(d, t)'
  <2>1. half[d][t.req] \in {"done", "aborted", "failed"} => half'[d][t.req] = half[d][t.req]
    BY <1>2, <1>4 DEF Tensor
  <2>. QED
    BY <1>0, <1>8, <2>1 DEF Safe, Ended
<1>9. ASSUME NEW q \in Req PROVE IdInv(q)'
  <2>1. \A k \in Inst : half'[k][q] # "none" => half[k][q] # "none"
    BY <1>2, <1>4
  <2>. QED
    BY <1>0, <2>1, Parts DEF IdInv, Paired
<1>10. ASSUME NEW k \in Inst PROVE JobInv(k)'
  <2>1. CASE k = e
    <3>1. \A t \in ToSet(J) : t \in Tensor
      BY InToSet
    <3>2. \A t \in ToSet(J) : half'[e][t.req] = "running"
      BY <1>3, <1>4, <3>1 DEF Tensor
    <3>. QED
      BY <1>0, <1>3, <1>5, <2>1, <3>2 DEF JobInv
  <2>2. CASE k # e
    BY <1>0, <1>4, <1>5, <2>2, Parts DEF JobInv
  <2>. QED
    BY <2>1, <2>2
<1>11. ASSUME NEW k \in Inst PROVE AskInv(k)'
  <2>1. CASE k = e
    BY <1>0, <1>6, <2>1 DEF AskInv
  <2>2. CASE k # e
    BY <1>0, <1>5, <2>2, Parts DEF AskInv, Peer, parse_request_id
  <2>. QED
    BY <2>1, <2>2
<1>12. ASSUME NEW d \in Decode PROVE LoadInv(d)'
  <2>1. CASE d = e
    <3>. SUFFICES ASSUME NEW t \in Tensor
                  PROVE  /\ half'[e][t.req] = "running" => t \in store[e] \cup ToSet(J)
                         /\ half'[e][t.req] = "loaded" => t \in store[e]
      BY <1>0, <1>5, <2>1 DEF LoadInv
    <3>1. t.req \in Req /\ LoadInv(e) /\ ToSet(job[e]) = {}
      BY <1>0, <2>1, Parts, OneElement DEF Tensor
    <3>2. CASE t.req \in B
      BY <1>3, <1>4, <3>1, <3>2
    <3>3. CASE t.req \notin B
      BY <1>4, <3>1, <3>3 DEF LoadInv
    <3>. QED
      BY <3>2, <3>3
  <2>2. CASE d # e
    BY <1>0, <1>4, <1>5, <2>2, Parts DEF LoadInv
  <2>. QED
    BY <2>1, <2>2
<1>13. ASSUME NEW f \in Inst, NEW g \in Inst PROVE NetInv(f, g)'
  <2>1. CASE f = e
    BY <1>0, <1>6, <2>1, Quiet DEF NetInv
  <2>2. CASE f # e
    <3>1. job[f] \in Seq(Tensor) /\ NetInv(f, g) /\ AskInv(f) /\ job'[f] = job[f]
      BY <1>0, <1>5, <2>2, Parts
    <3>. QED
      BY <1>0, <1>8, <3>1, NetKept
  <2>. QED
    BY <2>1, <2>2
<1>14. ASSUME NEW t \in Tensor PROVE TensorInv(t)'
  <2>0. t.req \in Req /\ TensorInv(t)
    BY Parts DEF Tensor
  <2>1. ASSUME Ahead(t)' PROVE Ahead(t)
    <3>1. PICK k \in Prefill : half'[k][t.req] = "queued" \/ t \in ToSet(Rest(k)')
      BY <2>1 DEF Ahead
    <3>2. CASE k # e
      <4>1. half'[k] = half[k] /\ Rest(k)' = Rest(k)
        BY <1>0, <1>4, <1>5, <3>2 DEF Rest
      <4>. QED
        BY <3>1, <4>1 DEF Ahead
    <3>3. CASE k = e
      <4>1. Rest(e)' = J
        BY <1>0, <1>5, <1>6 DEF Rest
      <4>2. half[e][t.req] = "queued"
        BY <1>2, <1>3, <1>4, <2>0, <3>1, <3>3, <4>1
      <4>. QED
        BY <3>3, <4>2 DEF Ahead
    <3>. QED
      BY <3>2, <3>3
  <2>2. Flying(t)' => Flying(t)
    BY <1>0 DEF Flying
  <2>3. \A d \in Decode : half'[d][t.req] = "done" => half[d][t.req] = "done"
    BY <1>0, <1>4, <2>0
  <2>. QED
    BY <1>0, <1>8, <2>0, <2>1, <2>2, <2>3, TensorKept
<1>. QED
  BY <1>7, <1>9, <1>10, <1>11, <1>12, <1>13, <1>14 DEF KvInv

\* The EngineCore ends: what it was about to send is not sent, and nobody has to
\* wait for it to take anything.
LEMMA FailsKeeps ==
  ASSUME KvInv, TypeOK', NEW e \in Inst, NEW how \in {"failed", "gone"}, Fails(e, how),
         UNCHANGED <<gen, id>>
  PROVE  KvInv'
<1>0. /\ TypeOK /\ half \in [Inst -> [Req -> HalfStates]] /\ job \in [Inst -> Seq(Tensor)]
      /\ Prefill \cap Decode = {} /\ Decode \subseteq Inst /\ Prefill \subseteq Inst
      /\ eng \in [Inst -> {"up", "failed", "gone"}]
      /\ store \in [Inst -> SUBSET Tensor] /\ sent \in [Inst -> SUBSET Tensor]
      /\ net \in [Inst -> [Inst -> Seq(Tensor)]]
      /\ acks \in [Inst -> [Inst -> Seq(BOOLEAN)]]
  BY Parts, HandoffAssumption DEF TypeOK, Inst
<1>1. /\ eng'[e] = how /\ job'[e] = << >> /\ store'[e] = {} /\ sent'[e] = {}
      /\ \A g \in Inst : acks'[e][g] = << >>
      /\ asked' = asked \ {e}
      /\ \A k \in Inst \ {e} : /\ eng'[k] = eng[k] /\ job'[k] = job[k]
                               /\ store'[k] = store[k] /\ sent'[k] = sent[k]
                               /\ acks'[k] = acks[k]
  BY <1>0 DEF Fails
<1>2. /\ \A q \in Req : half'[e][q] = IF half[e][q] \in Live THEN "failed" ELSE half[e][q]
      /\ \A k \in Inst \ {e} : half'[k] = half[k]
  BY <1>0 DEF Fails
<1>3. \A f, g \in Inst :
        /\ net'[f][g] \in {<< >>, net[f][g]}
        /\ g = e => net'[f][g] = << >>
        /\ f # e /\ g # e => net'[f][g] = net[f][g]
  BY DEF Fails
<1>4. ASSUME NEW d \in Inst, NEW t \in Tensor, Safe(d, t) PROVE Safe(d, t)'
  <2>1. CASE d = e
    BY <1>1, <2>1 DEF Safe, Ended
  <2>2. CASE d # e
    BY <1>1, <1>2, <1>4, <2>2 DEF Safe, Ended
  <2>. QED
    BY <2>1, <2>2
<1>5. ASSUME NEW q \in Req PROVE IdInv(q)'
  <2>1. \A k \in Inst : half'[k][q] # "none" => half[k][q] # "none"
    BY <1>2 DEF Live
  <2>. QED
    BY <2>1, Parts DEF IdInv, Paired
<1>6. ASSUME NEW k \in Inst PROVE JobInv(k)'
  <2>1. CASE k = e
    <3>1. ToSet(job'[e]) = {} /\ Distinct(job'[e])
      BY <1>1 DEF ToSet, Distinct
    <3>. QED
      BY <1>1, <2>1, <3>1 DEF JobInv
  <2>2. CASE k # e
    BY <1>1, <1>2, <2>2, Parts DEF JobInv
  <2>. QED
    BY <2>1, <2>2
<1>7. ASSUME NEW k \in Inst PROVE AskInv(k)'
  BY <1>1, Parts DEF AskInv, Peer, parse_request_id
<1>8. ASSUME NEW d \in Decode PROVE LoadInv(d)'
  <2>1. CASE d = e
    BY <1>2, <2>1 DEF LoadInv, Live, Tensor
  <2>2. CASE d # e
    BY <1>0, <1>1, <1>2, <2>2, Parts DEF LoadInv
  <2>. QED
    BY <2>1, <2>2
<1>9. ASSUME NEW f \in Inst, NEW g \in Inst PROVE NetInv(f, g)'
  <2>0. NetInv(f, g) /\ AskInv(f) /\ job[f] \in Seq(Tensor)
    BY <1>0, Parts
  <2>1. CASE f = e
    <3>1. eng'[f] # "up" /\ acks'[f][g] = << >> /\ net'[f][g] \in {<< >>, net[f][g]}
      BY <1>1, <1>3, <2>1
    <3>. QED
      BY <2>0, <3>1 DEF NetInv
  <2>2. CASE f # e /\ g # e
    <3>1. /\ net'[f][g] = net[f][g] /\ acks'[f][g] = acks[f][g] /\ job'[f] = job[f]
          /\ f \in asked' <=> f \in asked
          /\ eng'[f] = eng[f]
      BY <1>1, <1>3, <2>2
    <3>. QED
      BY <1>4, <2>0, <3>1, NetKept
  <2>3. CASE f # e /\ g = e
    <3>1. /\ net'[f][g] = << >> /\ acks'[f][g] = acks[f][g] /\ job'[f] = job[f]
          /\ f \in asked' <=> f \in asked
      BY <1>1, <1>3, <2>3
    <3>2. Peer(f)' = Peer(f)
      BY <3>1 DEF Peer, parse_request_id
    <3>3. Safe(g, Head(job[f]))'
      BY <1>1, <2>3 DEF Safe, Ended
    <3>. QED
      BY <2>0, <3>1, <3>2, <3>3 DEF NetInv
  <2>. QED
    BY <2>1, <2>2, <2>3
<1>10. ASSUME NEW t \in Tensor PROVE TensorInv(t)'
  <2>0. t.req \in Req /\ TensorInv(t)
    BY Parts DEF Tensor
  <2>1. \A k \in Prefill : half'[k][t.req] = "queued" => half[k][t.req] = "queued"
    BY <1>0, <1>2, <2>0
  <2>2. ASSUME NEW k \in Prefill, t \in ToSet(Rest(k)') PROVE t \in ToSet(Rest(k))
    <3>1. CASE k = e
      <4>1. Rest(e)' = << >>
        BY <1>1 DEF Rest
      <4>. QED
        BY <2>2, <3>1, <4>1, OneElement
    <3>2. CASE k # e
      <4>1. Rest(k)' = Rest(k)
        BY <1>0, <1>1, <3>2 DEF Rest
      <4>. QED
        BY <2>2, <4>1
    <3>. QED
      BY <3>1, <3>2
  <2>3. Ahead(t)' => Ahead(t)
    BY <2>1, <2>2, AheadKept
  <2>4. Flying(t)' => Flying(t)
    <3>1. ASSUME NEW f \in Inst, NEW g \in Inst, t \in ToSet(net'[f][g])
          PROVE  t \in ToSet(net[f][g])
      BY <1>3, <3>1, OneElement
    <3>. QED
      BY <3>1 DEF Flying
  <2>5. /\ \A k \in Inst : t \in store'[k] => t \in store[k]
        /\ \A k \in Inst : t \in sent'[k] => t \in sent[k]
    BY <1>1
  <2>6. \A d \in Decode : half'[d][t.req] = "done" => half[d][t.req] = "done"
    BY <1>0, <1>2, <2>0
  <2>. QED
    BY <1>0, <1>4, <2>0, <2>3, <2>4, <2>5, <2>6, TensorKept
<1>. QED
  BY <1>5, <1>6, <1>7, <1>8, <1>9, <1>10 DEF KvInv

\* The types after the end of an EngineCore.
LEMMA FailsTypes ==
  ASSUME TypeOK, NEW e \in Inst, NEW how \in {"failed", "gone"}, Fails(e, how),
         UNCHANGED <<known, gen, id, aborts, lost>>,
         starved' \subseteq Req, faults' \in 0 .. MaxFaults
  PROVE  TypeOK'
<1>1. eng' \in [Inst -> {"up", "failed", "gone"}] /\ asked' \subseteq Inst
  BY DEF TypeOK, Fails
<1>2. half' \in [Inst -> [Req -> HalfStates]]
  <2>1. half \in [Inst -> [Req -> HalfStates]]
    BY DEF TypeOK
  <2>2. half' = [half EXCEPT ![e] = [r \in Req |-> IF @[r] \in Live THEN "failed" ELSE @[r]]]
    BY DEF Fails
  <2>. QED
    BY <2>1, <2>2 DEF HalfStates
<1>3. job' \in [Inst -> Seq(Tensor)]
  <2>1. << >> \in Seq(Tensor)
    BY EmptySeq
  <2>. QED
    BY <2>1 DEF TypeOK, Fails
<1>4. store' \in [Inst -> SUBSET Tensor] /\ sent' \in [Inst -> SUBSET Tensor]
  BY DEF TypeOK, Fails
<1>5. acks' \in [Inst -> [Inst -> Seq(BOOLEAN)]]
  <2>1. << >> \in Seq(BOOLEAN) /\ acks \in [Inst -> [Inst -> Seq(BOOLEAN)]]
    BY EmptySeq DEF TypeOK
  <2>2. acks' = [acks EXCEPT ![e] = [f \in Inst |-> << >>]]
    BY DEF Fails
  <2>. QED
    BY <2>1, <2>2
<1>6. net' \in [Inst -> [Inst -> Seq(Tensor)]]
  <2>1. << >> \in Seq(Tensor) /\ net \in [Inst -> [Inst -> Seq(Tensor)]]
    BY EmptySeq DEF TypeOK
  <2>2. PICK kept \in BOOLEAN :
          net' = [f \in Inst |-> [g \in Inst |->
                   IF g = e \/ (f = e /\ ~kept) THEN << >> ELSE net[f][g]]]
    BY DEF Fails
  <2>. QED
    BY <2>1, <2>2
<1>. QED
  BY <1>1, <1>2, <1>3, <1>4, <1>5, <1>6 DEF TypeOK

\* The four ways in which an EngineCore ends.
LEMMA AnyFailure ==
  ASSUME KvInv, NEW e \in Inst,
         SendNowhere(e) \/ SendTimesOut(e) \/ RecvTimesOut(e) \/ Dies(e)
  PROVE  KvInv'
<1>0. TypeOK /\ faults \in 0 .. MaxFaults /\ starved \subseteq Req /\ MaxFaults \in Nat
  BY Parts, HandoffAssumption DEF TypeOK
<1>1. Fault => faults' \in 0 .. MaxFaults
  BY <1>0 DEF Fault
<1>2. PICK how \in {"failed", "gone"} : Fails(e, how)
  BY DEF SendNowhere, SendTimesOut, RecvTimesOut, Dies
<1>3. UNCHANGED <<known, gen, id, aborts, lost>>
  BY DEF SendNowhere, SendTimesOut, RecvTimesOut, Dies
<1>4. starved' \subseteq Req /\ faults' \in 0 .. MaxFaults
  <2>1. CASE SendNowhere(e)
    BY <1>0, <2>1 DEF SendNowhere
  <2>2. CASE SendTimesOut(e)
    BY <1>0, <1>1, <2>2 DEF SendTimesOut
  <2>3. CASE RecvTimesOut(e)
    <3>1. Head(job[e]).req \in Req
      BY <1>0, <2>3, JobHead DEF RecvTimesOut, Receiving
    <3>2. CASE Coming(Head(job[e]))
      BY <1>0, <1>1, <2>3, <3>2 DEF RecvTimesOut
    <3>3. CASE ~Coming(Head(job[e]))
      BY <1>0, <2>3, <3>1, <3>3 DEF RecvTimesOut
    <3>. QED
      BY <3>2, <3>3
  <2>4. CASE Dies(e)
    BY <1>0, <1>1, <2>4 DEF Dies
  <2>. QED
    BY <2>1, <2>2, <2>3, <2>4
<1>5. TypeOK'
  BY <1>0, <1>2, <1>3, <1>4, FailsTypes
<1>. QED
  BY <1>2, <1>3, <1>5, FailsKeeps

\* The producer of a tensor that it is about to transfer is the one that the id
\* names, if the id names one.
LEMMA OwnProducer ==
  ASSUME KvInv, NEW r \in Req, NEW e \in Prefill, half[e][r] # "none",
         id[r].decode # NoEnd
  PROVE  Paired(r) /\ id[r].prefill = e
<1>1. IdInv(r) /\ e \in Inst /\ Prefill \cap Decode = {}
  BY Parts, HandoffAssumption DEF Inst
<1>2. Paired(r)
  BY <1>1 DEF IdInv
<1>. QED
  BY <1>1, <1>2 DEF IdInv, Paired

\* save_kv_layer sends a tensor: it was ahead and is under way now.
LEMMA SendKeeps ==
  ASSUME KvInv, NEW e \in Inst, SendTensor(e)
  PROVE  KvInv'
<1>0. /\ TypeOK /\ Prefill \cap Decode = {} /\ Decode \subseteq Inst /\ Prefill \subseteq Inst
      /\ e \in Prefill /\ eng[e] = "up" /\ job[e] # << >> /\ e \notin asked
      /\ Peer(e) # NoEnd /\ asked' = asked \cup {e}
      /\ UNCHANGED <<known, eng, gen, id, half, job, acks, store, sent, aborts, lost,
                     starved, faults>>
  BY Parts, HandoffAssumption DEF Inst, SendTensor, Sending
<1>1. PICK t \in Tensor : t = Head(job[e])
  BY <1>0, JobHead
<1>2. /\ t.req \in Req /\ job[e] \in Seq(Tensor) /\ Distinct(job[e])
      /\ t \in ToSet(job[e]) /\ ToSet(Tail(job[e])) = ToSet(job[e]) \ {t}
      /\ half[e][t.req] = "running"
  <2>1. job[e] \in Seq(Tensor) /\ Distinct(job[e])
    BY <1>0, Parts DEF TypeOK, JobInv
  <2>2. t \in ToSet(job[e]) /\ ToSet(Tail(job[e])) = ToSet(job[e]) \ {t}
    BY <1>0, <1>1, <2>1, FirstAndRest
  <2>. QED
    BY <2>1, <2>2, Parts DEF JobInv, Tensor
<1>3. Peer(e) = id[t.req].decode
  BY <1>0, <1>1 DEF Peer, parse_request_id
<1>4. Paired(t.req) /\ id[t.req].prefill = e
  BY <1>0, <1>2, <1>3, OwnProducer
<1>5. PICK d \in Decode : d = id[t.req].decode
  BY <1>4 DEF Paired
<1>6. d \in Inst /\ \A g \in Inst : net[e][g] = << >> /\ acks[e][g] = << >>
  BY <1>0, Quiet
<1>7. /\ net' \in [Inst -> [Inst -> Seq(Tensor)]]
      /\ net'[e][d] = <<t>>
      /\ \A f, g \in Inst : f # e \/ g # d => net'[f][g] = net[f][g]
  <2>1. net' = [net EXCEPT ![e][d] = Append(@, t)]
    BY <1>1, <1>3, <1>5 DEF SendTensor
  <2>2. net \in [Inst -> [Inst -> Seq(Tensor)]]
    BY <1>0 DEF TypeOK
  <2>3. Append(net[e][d], t) = <<t>> /\ <<t>> \in Seq(Tensor)
    BY <1>6, OneElement
  <2>4. net' = [net EXCEPT ![e] = [net[e] EXCEPT ![d] = <<t>>]]
    BY <1>6, <2>1, <2>2, <2>3
  <2>. HIDE DEF Tensor
  <2>. QED
    BY <1>6, <2>2, <2>3, <2>4
<1>8. TypeOK'
  BY <1>0, <1>7 DEF TypeOK
<1>9. \A k \in Inst, u \in Tensor : Safe(k, u)' = Safe(k, u)
  BY <1>0 DEF Safe, Ended
<1>10. ASSUME NEW q \in Req PROVE IdInv(q)'
  BY <1>0, Parts DEF IdInv, Paired
<1>11. ASSUME NEW k \in Inst PROVE JobInv(k)'
  BY <1>0, Parts DEF JobInv
<1>12. ASSUME NEW k \in Inst PROVE AskInv(k)'
  <2>1. Peer(k)' = Peer(k)
    BY <1>0 DEF Peer, parse_request_id
  <2>. QED
    BY <1>0, <1>3, <1>5, <2>1, Parts DEF AskInv
<1>13. ASSUME NEW k \in Decode PROVE LoadInv(k)'
  BY <1>0, Parts DEF LoadInv
<1>14. ASSUME NEW f \in Inst, NEW g \in Inst PROVE NetInv(f, g)'
  <2>1. CASE f = e /\ g = d
    <3>1. acks'[e][d] = << >> /\ <<t>> # << >>
      BY <1>0, <1>6, OneElement
    <3>. QED
      BY <1>0, <1>1, <1>4, <1>5, <1>7, <2>1, <3>1 DEF NetInv
  <2>2. CASE f = e /\ g # d
    BY <1>0, <1>6, <1>7, <2>2 DEF NetInv
  <2>3. CASE f # e
    <3>1. /\ net'[f][g] = net[f][g] /\ acks'[f][g] = acks[f][g] /\ job'[f] = job[f]
          /\ f \in asked' <=> f \in asked
          /\ eng'[f] = eng[f] /\ job[f] \in Seq(Tensor) /\ NetInv(f, g) /\ AskInv(f)
      BY <1>0, <1>7, <2>3, Parts DEF TypeOK
    <3>. QED
      BY <1>0, <1>9, <3>1, NetKept
  <2>. QED
    BY <2>1, <2>2, <2>3
<1>15. ASSUME NEW u \in Tensor PROVE TensorInv(u)'
  <2>0. u.req \in Req /\ TensorInv(u)
    BY Parts DEF Tensor
  <2>1. /\ Rest(e)' = Tail(job[e]) /\ Rest(e) = job[e]
        /\ \A k \in Inst \ {e} : Rest(k)' = Rest(k)
    BY <1>0 DEF Rest
  <2>2. Ahead(u)' => Ahead(u)
    <3>1. \A k \in Prefill : u \in ToSet(Rest(k)') => u \in ToSet(Rest(k))
      BY <1>0, <1>2, <2>1
    <3>. QED
      BY <1>0, <3>1, AheadKept
  <2>3. CASE u = t
    <3>1. Ahead(t)
      BY <1>0, <1>2, <2>1 DEF Ahead
    <3>2. /\ \A k \in Inst : t \notin store[k]
          /\ \A k \in Decode : half[k][t.req] # "done"
      BY <2>0, <2>3, <3>1 DEF TensorInv
    <3>3. ~Ahead(t)'
      <4>. SUFFICES ASSUME NEW k \in Prefill,
                           half[k][t.req] = "queued" \/ t \in ToSet(Rest(k)')
                    PROVE  FALSE
        BY <1>0 DEF Ahead
      <4>1. k # e
        BY <1>2, <2>1
      <4>2. k \in Inst /\ Rest(k)' = Rest(k) /\ id[t.req].decode # NoEnd
        BY <1>0, <1>3, <2>1, <4>1
      <4>3. half[k][t.req] # "none"
        <5>1. CASE half[k][t.req] = "queued"
          BY <5>1
        <5>2. CASE t \in ToSet(Rest(k))
          <6>1. t \in ToSet(job[k])
            <7>1. CASE k \in asked
              <8>1. job[k] # << >> /\ job[k] \in Seq(Tensor) /\ Distinct(job[k])
                BY <1>0, <4>2, <7>1, Parts DEF AskInv, TypeOK, JobInv
              <8>. QED
                BY <5>2, <7>1, <8>1, FirstAndRest DEF Rest
            <7>2. CASE k \notin asked
              BY <5>2, <7>2 DEF Rest
            <7>. QED
              BY <7>1, <7>2
          <6>. QED
            BY <4>2, <6>1, Parts DEF JobInv
        <5>. QED
          BY <4>2, <5>1, <5>2
      <4>. QED
        BY <1>2, <1>4, <4>1, <4>2, <4>3, OwnProducer
    <3>4. \A k \in Inst : t \in sent'[k] =>
            id'[t.req].decode \in Decode /\ Safe(id[t.req].decode, t)'
      BY <1>0, <1>9, <2>0, <2>3 DEF TensorInv
    <3>. QED
      BY <1>0, <2>3, <3>2, <3>3, <3>4 DEF TensorInv
  <2>4. CASE u # t
    <3>1. Flying(u)' => Flying(u)
      <4>1. ASSUME NEW f \in Inst, NEW g \in Inst, u \in ToSet(net'[f][g])
            PROVE  u \in ToSet(net[f][g])
        BY ZenonT(30), <1>7, <2>4, <4>1, OneElement
      <4>. QED
        BY <4>1 DEF Flying
    <3>. QED
      BY <1>0, <1>9, <2>0, <2>2, <3>1, TensorKept
  <2>. QED
    BY <2>3, <2>4
<1>. QED
  BY <1>8, <1>10, <1>11, <1>12, <1>13, <1>14, <1>15 DEF KvInv

\* The first transfer of a step is done: the rest of the step, and the requests
\* of a step that is over.
LEMMA AdvanceEffect ==
  ASSUME KvInv, NEW e \in Inst, job[e] # << >>, Advance(e)
  PROVE  /\ job' = [job EXCEPT ![e] = Tail(job[e])]
         /\ job' \in [Inst -> Seq(Tensor)] /\ half' \in [Inst -> [Req -> HalfStates]]
         /\ store' \in [Inst -> SUBSET Tensor]
         /\ ToSet(Tail(job[e])) = ToSet(job[e]) \ {Head(job[e])}
         /\ Head(job[e]) \in ToSet(job[e]) /\ Distinct(Tail(job[e]))
         /\ \A k \in Inst \ {e} : half'[k] = half[k] /\ store'[k] = store[k]
         /\ \A q \in Req :
              \/ half'[e][q] = half[e][q]
              \/ /\ half[e][q] = "running" /\ ToSet(job[e]) \subseteq {Head(job[e])}
                 /\ half'[e][q] = IF e \in Prefill THEN "done" ELSE "loaded"
         /\ store'[e] \subseteq store[e] /\ (e \notin Prefill => store'[e] = store[e])
         /\ \A t \in ToSet(Tail(job[e])) : half'[e][t.req] = "running"
         /\ ToSet(job[e]) \subseteq {Head(job[e])} =>
              \A q \in Req : half'[e][q] # "running"
<1>0. /\ half \in [Inst -> [Req -> HalfStates]] /\ job \in [Inst -> Seq(Tensor)]
      /\ store \in [Inst -> SUBSET Tensor] /\ Distinct(job[e])
  BY Parts DEF TypeOK, JobInv
<1>1. /\ Tail(job[e]) \in Seq(Tensor) /\ Head(job[e]) \in ToSet(job[e])
      /\ ToSet(Tail(job[e])) = ToSet(job[e]) \ {Head(job[e])}
      /\ Distinct(Tail(job[e]))
      /\ Len(job[e]) = 1 <=> ToSet(job[e]) \subseteq {Head(job[e])}
  BY <1>0, FirstAndRest
<1>2. job' = [job EXCEPT ![e] = Tail(job[e])] /\ job' \in [Inst -> Seq(Tensor)]
  BY <1>0, <1>1 DEF Advance
<1>3. /\ store' \in [Inst -> SUBSET Tensor]
      /\ \A k \in Inst \ {e} : store'[k] = store[k]
      /\ store'[e] \subseteq store[e] /\ (e \notin Prefill => store'[e] = store[e])
  BY <1>0 DEF Advance, get_finished
<1>4. CASE Len(job[e]) = 1
  <2>1. half' = [half EXCEPT ![e] = [r \in Req |->
                   IF half[e][r] # "running" THEN half[e][r]
                   ELSE IF e \in Prefill THEN "done" ELSE "loaded"]]
    BY <1>0, <1>4 DEF Advance
  <2>2. /\ half' \in [Inst -> [Req -> HalfStates]]
        /\ \A k \in Inst \ {e} : half'[k] = half[k]
        /\ \A q \in Req : half'[e][q] = IF half[e][q] # "running" THEN half[e][q]
                                        ELSE IF e \in Prefill THEN "done" ELSE "loaded"
    BY <1>0, <2>1 DEF HalfStates
  <2>. QED
    BY <1>1, <1>2, <1>3, <1>4, <2>2
<1>5. CASE Len(job[e]) # 1
  <2>1. half' = half
    BY <1>5 DEF Advance
  <2>2. \A t \in ToSet(Tail(job[e])) : half[e][t.req] = "running"
    BY <1>1, Parts DEF JobInv
  <2>. QED
    BY <1>0, <1>1, <1>2, <1>3, <1>5, <2>1, <2>2
<1>. QED
  BY <1>4, <1>5

\* The invariants of the steps after Advance.
LEMMA AdvanceLocal ==
  ASSUME KvInv, NEW e \in Inst, eng[e] = "up", job[e] # << >>, Advance(e),
         UNCHANGED <<eng, gen, id>>
  PROVE  /\ \A q \in Req : IdInv(q)'
         /\ \A k \in Inst : JobInv(k)'
         /\ \A d \in Decode, t \in Tensor : d \in Inst /\ (Safe(d, t) => Safe(d, t)')
<1>0. /\ job \in [Inst -> Seq(Tensor)] /\ Prefill \cap Decode = {}
      /\ Decode \subseteq Inst /\ Prefill \subseteq Inst
  BY Parts, HandoffAssumption DEF TypeOK, Inst
<1>1. ASSUME NEW q \in Req PROVE IdInv(q)'
  <2>1. \A k \in Inst : half'[k][q] # "none" => half[k][q] # "none"
    BY AdvanceEffect
  <2>. QED
    BY <2>1, Parts DEF IdInv, Paired
<1>2. ASSUME NEW k \in Inst PROVE JobInv(k)'
  <2>1. CASE k = e
    <3>1. job'[e] = Tail(job[e]) /\ Distinct(Tail(job[e]))
          /\ \A t \in ToSet(Tail(job[e])) : half'[e][t.req] = "running"
      BY <1>0, AdvanceEffect
    <3>. QED
      BY <2>1, <3>1 DEF JobInv
  <2>2. CASE k # e
    <3>1. job'[k] = job[k] /\ half'[k] = half[k]
      BY <1>0, <2>2, AdvanceEffect
    <3>. QED
      BY <3>1, Parts DEF JobInv
  <2>. QED
    BY <2>1, <2>2
<1>3. ASSUME NEW d \in Decode, NEW t \in Tensor, Safe(d, t) PROVE Safe(d, t)'
  <2>0. t.req \in Req /\ d \in Inst /\ d \notin Prefill
    BY <1>0 DEF Tensor
  <2>1. store'[d] = store[d]
    BY <2>0, AdvanceEffect
  <2>2. half[d][t.req] # "running" => half'[d][t.req] = half[d][t.req]
    BY <2>0, AdvanceEffect
  <2>. QED
    BY <1>3, <2>1, <2>2 DEF Safe, Ended
<1>. QED
  BY <1>0, <1>1, <1>2, <1>3

\* recv_tensor: a consumer goes on only when it has all layers of its requests.
LEMMA RecvKeeps ==
  ASSUME KvInv, NEW e \in Inst, RecvTensor(e)
  PROVE  KvInv'
<1>0. /\ TypeOK /\ job \in [Inst -> Seq(Tensor)] /\ Prefill \cap Decode = {}
      /\ Decode \subseteq Inst /\ Prefill \subseteq Inst
      /\ e \in Decode /\ eng[e] = "up" /\ job[e] # << >> /\ Head(job[e]) \in store[e]
      /\ Advance(e)
      /\ UNCHANGED <<known, eng, gen, id, asked, net, acks, sent, aborts, lost,
                     starved, faults>>
  BY Parts, HandoffAssumption DEF TypeOK, Inst, RecvTensor, Receiving
<1>1. /\ \A q \in Req : IdInv(q)'
      /\ \A k \in Inst : JobInv(k)'
      /\ \A d \in Decode, t \in Tensor : Safe(d, t) => Safe(d, t)'
  BY <1>0, AdvanceLocal
<1>2. TypeOK'
  BY <1>0, AdvanceEffect DEF TypeOK
<1>3. e \notin asked /\ e \notin Prefill
  BY <1>0, Parts DEF AskInv
<1>4. /\ job'[e] = Tail(job[e]) /\ store'[e] = store[e]
      /\ \A k \in Inst \ {e} : job'[k] = job[k] /\ half'[k] = half[k] /\ store'[k] = store[k]
  BY <1>0, <1>3, AdvanceEffect
<1>5. ASSUME NEW k \in Inst PROVE AskInv(k)'
  BY <1>0, <1>3, <1>4, Parts DEF AskInv, Peer, parse_request_id
<1>6. ASSUME NEW d \in Decode PROVE LoadInv(d)'
  <2>1. CASE d = e
    <3>. SUFFICES ASSUME NEW t \in Tensor
                  PROVE  /\ half'[e][t.req] = "running" => t \in store[e] \cup ToSet(Tail(job[e]))
                         /\ half'[e][t.req] = "loaded" => t \in store[e]
      BY <1>4, <2>1 DEF LoadInv
    <3>1. t.req \in Req /\ LoadInv(e) /\ ToSet(Tail(job[e])) = ToSet(job[e]) \ {Head(job[e])}
      BY <1>0, Parts, AdvanceEffect DEF Tensor
    <3>2. \/ half'[e][t.req] = half[e][t.req]
          \/ /\ half[e][t.req] = "running" /\ ToSet(job[e]) \subseteq {Head(job[e])}
             /\ half'[e][t.req] = "loaded"
      BY SMTT(30), <1>0, <1>3, <3>1, AdvanceEffect
    <3>. QED
      BY <1>0, <3>1, <3>2 DEF LoadInv
  <2>2. CASE d # e
    BY <1>0, <1>4, <2>2, Parts DEF LoadInv
  <2>. QED
    BY <2>1, <2>2
<1>7. ASSUME NEW f \in Inst, NEW g \in Inst PROVE NetInv(f, g)'
  <2>1. CASE f = e
    BY <1>0, <1>3, <2>1, Quiet DEF NetInv
  <2>2. CASE f # e
    <3>1. job[f] \in Seq(Tensor) /\ NetInv(f, g) /\ AskInv(f) /\ job'[f] = job[f]
      BY <1>0, <1>4, <2>2, Parts
    <3>2. ASSUME NEW t \in Tensor, Safe(g, t) PROVE Safe(g, t)'
      <4>1. CASE g \in Decode
        BY <1>1, <3>2, <4>1
      <4>2. CASE g \notin Decode
        BY <1>0, <1>4, <3>2, <4>2 DEF Safe, Ended
      <4>. QED
        BY <4>1, <4>2
    <3>. QED
      BY <1>0, <3>1, <3>2, NetKept
  <2>. QED
    BY <2>1, <2>2
<1>8. ASSUME NEW t \in Tensor PROVE TensorInv(t)'
  <2>0. t.req \in Req /\ TensorInv(t)
    BY Parts DEF Tensor
  <2>1. \A k \in Prefill : half'[k] = half[k] /\ Rest(k)' = Rest(k)
    BY <1>0, <1>3, <1>4 DEF Rest
  <2>2. Ahead(t)' => Ahead(t)
    BY <2>1, AheadKept
  <2>3. Flying(t)' => Flying(t)
    BY <1>0 DEF Flying
  <2>4. \A d \in Decode : half'[d][t.req] = "done" => half[d][t.req] = "done"
    <3>1. \/ half'[e][t.req] = half[e][t.req]
          \/ /\ half[e][t.req] = "running" /\ ToSet(job[e]) \subseteq {Head(job[e])}
             /\ half'[e][t.req] = "loaded"
      BY SMTT(30), <1>0, <1>3, <2>0, AdvanceEffect
    <3>. QED
      BY <1>0, <1>4, <3>1
  <2>5. \A k \in Inst : t \in store'[k] => t \in store[k]
    BY <1>4
  <2>. QED
    BY <1>0, <1>1, <2>0, <2>2, <2>3, <2>4, <2>5, TensorKept
<1>. QED
  BY <1>1, <1>2, <1>5, <1>6, <1>7, <1>8 DEF KvInv

\* send_tensor has its answer: a tensor that was taken is safe at its consumer.
LEMMA AnsweredKeeps ==
  ASSUME KvInv, NEW e \in Inst, SendAnswered(e)
  PROVE  KvInv'
<1>0. /\ TypeOK /\ job \in [Inst -> Seq(Tensor)] /\ Prefill \cap Decode = {}
      /\ Decode \subseteq Inst /\ Prefill \subseteq Inst
      /\ e \in Prefill /\ eng[e] = "up" /\ job[e] # << >> /\ e \in asked
      /\ acks[e][Peer(e)] # << >> /\ asked' = asked \ {e}
      /\ Advance(e)
      /\ UNCHANGED <<known, eng, gen, id, net, aborts, lost, starved, faults>>
  BY Parts, HandoffAssumption DEF TypeOK, Inst, SendAnswered, Sending
<1>1. /\ \A q \in Req : IdInv(q)'
      /\ \A k \in Inst : JobInv(k)'
      /\ \A d \in Decode, t \in Tensor : Safe(d, t) => Safe(d, t)'
  BY <1>0, AdvanceLocal
<1>2. PICK d \in Decode : d = Peer(e)
  BY <1>0, Parts DEF AskInv
<1>3. PICK t \in Tensor : t = Head(job[e])
  BY <1>0, JobHead
<1>4. d = id[t.req].decode /\ d \in Inst /\ t.req \in Req
  BY <1>0, <1>2, <1>3 DEF Peer, parse_request_id, Tensor
<1>5. PICK b \in BOOLEAN : acks[e][d] = <<b>> /\ (b => Safe(d, t))
  BY SMTT(30), <1>0, <1>2, <1>3, <1>4, Parts DEF NetInv
<1>6. /\ acks' \in [Inst -> [Inst -> Seq(BOOLEAN)]] /\ acks'[e][d] = << >>
      /\ \A f, g \in Inst : f # e \/ g # d => acks'[f][g] = acks[f][g]
  <2>1. acks' = [acks EXCEPT ![e][d] = Tail(@)]
    BY <1>2 DEF SendAnswered
  <2>2. acks \in [Inst -> [Inst -> Seq(BOOLEAN)]]
    BY <1>0 DEF TypeOK
  <2>3. Tail(acks[e][d]) = << >> /\ << >> \in Seq(BOOLEAN)
    BY <1>5, OneElement, EmptySeq
  <2>4. acks' = [acks EXCEPT ![e] = [acks[e] EXCEPT ![d] = << >>]]
    BY <1>4, <2>1, <2>2, <2>3
  <2>. QED
    BY <1>4, <2>2, <2>3, <2>4
<1>7. /\ sent' \in [Inst -> SUBSET Tensor] /\ \A k \in Inst \ {e} : sent'[k] = sent[k]
      /\ \A u \in sent'[e] : u \in sent[e] \/ (u = t /\ b)
  <2>1. Head(acks[e][d]) = b
    BY <1>5, OneElement
  <2>2. sent \in [Inst -> SUBSET Tensor]
    BY <1>0 DEF TypeOK
  <2>3. PICK R \in SUBSET Req :
          sent' = [sent EXCEPT ![e] = {u \in (IF b THEN @ \cup {t} ELSE @) : u.req \notin R}]
    BY <1>2, <1>3, <2>1 DEF SendAnswered
  <2>. QED
    BY <2>2, <2>3
<1>8. TypeOK'
  BY <1>0, <1>6, <1>7, AdvanceEffect DEF TypeOK
<1>9. /\ job'[e] = Tail(job[e]) /\ store'[e] \subseteq store[e]
      /\ \A k \in Inst \ {e} : job'[k] = job[k] /\ half'[k] = half[k] /\ store'[k] = store[k]
  BY <1>0, AdvanceEffect
<1>10. ASSUME NEW k \in Inst PROVE AskInv(k)'
  BY <1>0, <1>9, Parts DEF AskInv, Peer, parse_request_id
<1>11. ASSUME NEW k \in Decode PROVE LoadInv(k)'
  BY <1>0, <1>9, Parts DEF LoadInv
<1>12. ASSUME NEW f \in Inst, NEW g \in Inst PROVE NetInv(f, g)'
  <2>1. CASE f = e
    <3>1. acks'[e][g] = << >>
      <4>1. CASE g = d
        BY <1>6, <4>1
      <4>2. CASE g # d
        <5>1. NetInv(e, g) /\ acks'[e][g] = acks[e][g] /\ g # Peer(e)
          BY <1>2, <1>6, <4>2, Parts
        <5>. QED
          BY <5>1 DEF NetInv
      <4>. QED
        BY <4>1, <4>2
    <3>2. net[e][g] = << >>
      <4>. SUFFICES ASSUME net[e][g] # << >> PROVE FALSE
        OBVIOUS
      <4>1. NetInv(e, g)
        BY Parts
      <4>2. net[e][g] = <<t>> /\ acks[e][g] = << >>
        BY <1>0, <1>3, <4>1 DEF NetInv
      <4>3. PICK u \in Tensor : net[e][g] = <<u>> /\ id[u.req].decode = g
        BY <4>1 DEF NetInv
      <4>4. u = t
        BY <4>2, <4>3, OneElement
      <4>. QED
        BY <1>0, <1>2, <1>4, <4>2, <4>3, <4>4
    <3>. QED
      BY <1>0, <2>1, <3>1, <3>2 DEF NetInv
  <2>2. CASE f # e
    <3>1. /\ job[f] \in Seq(Tensor) /\ NetInv(f, g) /\ AskInv(f) /\ job'[f] = job[f]
          /\ acks'[f][g] = acks[f][g] /\ (f \in asked' <=> f \in asked)
      BY <1>0, <1>6, <1>9, <2>2, Parts
    <3>. QED
      <4>1. CASE g \in Decode
        BY <1>0, <1>1, <3>1, <4>1, NetKept
      <4>2. CASE g \notin Decode
        <5>1. acks[f][g] = << >>
          BY <3>1, <4>2 DEF NetInv, AskInv
        <5>2. net[f][g] = << >>
          <6>. SUFFICES ASSUME net[f][g] # << >> PROVE FALSE
            OBVIOUS
          <6>1. PICK u \in Tensor : id[u.req].decode = g
            BY <3>1 DEF NetInv
          <6>2. u.req \in Req /\ IdInv(u.req) /\ NoEnd \notin Inst
            BY Parts, HandoffAssumption DEF Tensor, Inst
          <6>. QED
            BY <4>2, <6>1, <6>2 DEF IdInv, Paired
        <5>. QED
          BY <1>0, <3>1, <5>1, <5>2 DEF NetInv
      <4>. QED
        BY <4>1, <4>2
  <2>. QED
    BY <2>1, <2>2
<1>13. ASSUME NEW u \in Tensor PROVE TensorInv(u)'
  <2>0. u.req \in Req /\ TensorInv(u)
    BY Parts DEF Tensor
  <2>1. \A k \in Prefill : half'[k][u.req] = "queued" => half[k][u.req] = "queued"
    <3>1. \/ half'[e][u.req] = half[e][u.req]
          \/ /\ half[e][u.req] = "running" /\ ToSet(job[e]) \subseteq {Head(job[e])}
             /\ half'[e][u.req] = "done"
      BY <1>0, <2>0, AdvanceEffect
    <3>. QED
      BY <1>0, <1>9, <3>1
  <2>2. \A k \in Prefill : Rest(k)' = Rest(k)
    <3>1. Rest(e)' = Rest(e)
      BY <1>0, <1>9 DEF Rest
    <3>2. \A k \in Inst \ {e} : Rest(k)' = Rest(k)
      BY <1>0, <1>9 DEF Rest
    <3>. QED
      BY <1>0, <3>1, <3>2
  <2>3. Ahead(u)' => Ahead(u)
    BY <2>1, <2>2, AheadKept
  <2>4. Flying(u)' => Flying(u)
    BY <1>0 DEF Flying
  <2>5. \A k \in Decode : half'[k][u.req] = "done" => half[k][u.req] = "done"
    BY <1>0, <1>9
  <2>6. \A k \in Inst : u \in store'[k] => u \in store[k]
    BY <1>9
  <2>7. \A k \in Inst : u \in sent'[k] =>
          u \in sent[k] \/ (id[u.req].decode \in Decode /\ Safe(id[u.req].decode, u))
    BY <1>4, <1>5, <1>7
  <2>. QED
    BY <1>0, <1>1, <2>0, <2>3, <2>4, <2>5, <2>6, <2>7, TensorKept
<1>. QED
  BY <1>1, <1>8, <1>10, <1>11, <1>12, <1>13 DEF KvInv

\* The tensor that the listener of e takes from f, and what else is under way then.
LEMMA TakenTensor ==
  ASSUME KvInv, NEW e \in Inst, NEW f \in Inst, Received(e, f)
  PROVE  \E t \in Tensor :
           /\ t = Head(net[f][e]) /\ net[f][e] = <<t>> /\ Flying(t)
           /\ id[t.req].prefill = f /\ id[t.req].decode = e
           /\ net' = [net EXCEPT ![f] = [net[f] EXCEPT ![e] = << >>]]
           /\ \A k, g \in Inst : t \in ToSet(net[k][g]) => k = f /\ g = e
           /\ acks[f][e] = << >>
           /\ eng[f] = "up" => f \in asked /\ t = Head(job[f]) /\ e = Peer(f)
<1>0. /\ NetInv(f, e) /\ AskInv(f) /\ JobInv(f) /\ net[f][e] # << >>
      /\ net' = [net EXCEPT ![f][e] = Tail(@)]
      /\ net \in [Inst -> [Inst -> Seq(Tensor)]] /\ job \in [Inst -> Seq(Tensor)]
  BY Parts DEF Received, TypeOK
<1>1. PICK t \in Tensor : /\ net[f][e] = <<t>>
                          /\ id[t.req].prefill = f /\ id[t.req].decode = e
  BY <1>0 DEF NetInv
<1>2. t = Head(net[f][e]) /\ Tail(net[f][e]) = << >> /\ t \in ToSet(net[f][e])
  BY <1>1, OneElement
<1>3. net' = [net EXCEPT ![f] = [net[f] EXCEPT ![e] = << >>]]
  BY <1>0, <1>2
<1>4. ASSUME NEW k \in Inst, NEW g \in Inst, t \in ToSet(net[k][g])
      PROVE  k = f /\ g = e
  <2>1. NetInv(k, g) /\ net[k][g] # << >>
    BY <1>0, <1>4, Parts, OneElement
  <2>2. PICK u \in Tensor : /\ net[k][g] = <<u>>
                            /\ id[u.req].prefill = k /\ id[u.req].decode = g
    BY <2>1 DEF NetInv
  <2>3. u = t
    BY <1>4, <2>2, OneElement
  <2>. QED
    BY <1>1, <2>2, <2>3
<1>5. CASE eng[f] = "up"
  <2>1. f \in asked /\ net[f][e] = <<Head(job[f])>> /\ acks[f][e] = << >>
    BY <1>0, <1>5 DEF NetInv
  <2>2. t = Head(job[f])
    BY <1>1, <2>1
  <2>3. e = Peer(f)
    BY <1>0, <1>1, <2>1, <2>2 DEF AskInv, Peer, parse_request_id
  <2>. QED
    BY <1>1, <1>2, <1>3, <1>4, <2>1, <2>2, <2>3 DEF Flying
<1>6. CASE eng[f] # "up"
  <2>1. f \notin asked
    BY <1>0, <1>6 DEF AskInv, JobInv
  <2>2. acks[f][e] = << >>
    BY <1>0, <2>1 DEF NetInv
  <2>. QED
    BY <1>1, <1>2, <1>3, <1>4, <1>6, <2>2 DEF Flying
<1>. QED
  BY <1>5, <1>6

\* _listen takes a tensor, or rejects it: it is stored before the answer is sent.
LEMMA ListenKeeps ==
  ASSUME KvInv, NEW e \in Inst, NEW f \in Inst, Listen(e, f) \/ ListenRejects(e, f)
  PROVE  KvInv'
<1>0. /\ TypeOK /\ Decode \subseteq Inst /\ Prefill \subseteq Inst /\ Received(e, f)
      /\ store \in [Inst -> SUBSET Tensor] /\ acks \in [Inst -> [Inst -> Seq(BOOLEAN)]]
      /\ net \in [Inst -> [Inst -> Seq(Tensor)]] /\ job \in [Inst -> Seq(Tensor)]
      /\ UNCHANGED <<known, eng, gen, id, half, job, asked, sent, aborts, starved>>
  BY Parts, HandoffAssumption DEF TypeOK, Inst, Listen, ListenRejects
<1>1. PICK t \in Tensor :
           /\ t = Head(net[f][e]) /\ net[f][e] = <<t>> /\ Flying(t)
           /\ id[t.req].prefill = f /\ id[t.req].decode = e
           /\ net' = [net EXCEPT ![f] = [net[f] EXCEPT ![e] = << >>]]
           /\ \A k, g \in Inst : t \in ToSet(net[k][g]) => k = f /\ g = e
           /\ acks[f][e] = << >>
           /\ eng[f] = "up" => f \in asked /\ t = Head(job[f]) /\ e = Peer(f)
  BY <1>0, TakenTensor
<1>2. PICK ok \in BOOLEAN :
        /\ Reply(e, f, ok)
        /\ store' = IF ok THEN [store EXCEPT ![e] = @ \cup {t}] ELSE store
        /\ lost' = IF ok THEN lost ELSE lost \cup {t}
        /\ IF ok THEN faults' = faults ELSE Fault
  <2>1. CASE Listen(e, f)
    <3>1. /\ Reply(e, f, TRUE) /\ store' = [store EXCEPT ![e] = @ \cup {t}]
          /\ lost' = lost /\ faults' = faults
      BY <1>1, <2>1 DEF Listen
    <3>. QED
      BY <3>1
  <2>2. CASE ListenRejects(e, f)
    <3>1. Reply(e, f, FALSE) /\ store' = store /\ lost' = lost \cup {t} /\ Fault
      BY <1>1, <2>2 DEF ListenRejects
    <3>. QED
      BY <3>1
  <2>. QED
    BY <2>1, <2>2
<1>3. /\ store' \in [Inst -> SUBSET Tensor] /\ (ok => t \in store'[e])
      /\ \A k \in Inst : store[k] \subseteq store'[k]
      /\ \A k \in Inst, u \in Tensor : u \in store'[k] => u \in store[k] \/ (u = t /\ k = e)
  BY <1>0, <1>2
<1>4. /\ acks' \in [Inst -> [Inst -> Seq(BOOLEAN)]]
      /\ \A k, g \in Inst : k # f \/ g # e => acks'[k][g] = acks[k][g]
      /\ acks'[f][e] = IF eng[f] = "up" THEN <<ok>> ELSE << >>
  <2>1. CASE eng[f] = "up"
    <3>1. Append(acks[f][e], ok) = <<ok>> /\ <<ok>> \in Seq(BOOLEAN)
      BY <1>1, OneElement
    <3>2. acks' = [acks EXCEPT ![f][e] = Append(@, ok)]
      BY <1>2, <2>1 DEF Reply
    <3>3. acks' = [acks EXCEPT ![f] = [acks[f] EXCEPT ![e] = <<ok>>]]
      BY <1>0, <3>1, <3>2
    <3>. QED
      BY <1>0, <2>1, <3>1, <3>3
  <2>2. CASE eng[f] # "up"
    BY <1>0, <1>1, <1>2, <2>2 DEF Reply
  <2>. QED
    BY <2>1, <2>2
<1>5. /\ net' \in [Inst -> [Inst -> Seq(Tensor)]] /\ net'[f][e] = << >>
      /\ \A k, g \in Inst : k # f \/ g # e => net'[k][g] = net[k][g]
  <2>1. << >> \in Seq(Tensor)
    BY EmptySeq
  <2>. HIDE DEF Tensor
  <2>. QED
    BY <1>0, <1>1, <2>1
<1>6. TypeOK'
  <2>1. faults' \in 0 .. MaxFaults /\ lost' \subseteq Tensor
    BY <1>0, <1>2, HandoffAssumption DEF TypeOK, Fault
  <2>. QED
    BY <1>0, <1>3, <1>4, <1>5, <2>1 DEF TypeOK
<1>7. \A k \in Inst, u \in Tensor : Safe(k, u) => Safe(k, u)'
  BY <1>0, <1>3 DEF Safe, Ended
<1>8. ASSUME NEW q \in Req PROVE IdInv(q)'
  BY <1>0, Parts DEF IdInv, Paired
<1>9. ASSUME NEW k \in Inst PROVE JobInv(k)'
  BY <1>0, Parts DEF JobInv
<1>10. ASSUME NEW k \in Inst PROVE AskInv(k)'
  BY <1>0, Parts DEF AskInv, Peer, parse_request_id
<1>11. ASSUME NEW k \in Decode PROVE LoadInv(k)'
  BY <1>0, <1>3, Parts DEF LoadInv
<1>12. ASSUME NEW k \in Inst, NEW g \in Inst PROVE NetInv(k, g)'
  <2>1. CASE k = f /\ g = e
    <3>1. CASE eng[f] = "up"
      <4>1. f \in asked /\ t = Head(job[f]) /\ e = Peer(f)
        BY <1>1, <3>1
      <4>2. acks'[f][e] = <<ok>> /\ Peer(f)' = Peer(f)
        BY <1>0, <1>4, <3>1 DEF Peer, parse_request_id
      <4>3. ok => Safe(e, t)'
        BY <1>3 DEF Safe
      <4>4. \E b \in BOOLEAN : acks'[f][e] = <<b>> /\ (b => Safe(e, Head(job[f]))')
        BY <1>0, <4>1, <4>2, <4>3
      <4>. QED
        BY <1>0, <1>5, <2>1, <4>1, <4>2, <4>4 DEF NetInv
    <3>2. CASE eng[f] # "up"
      BY <1>0, <1>4, <1>5, <2>1, <3>2 DEF NetInv
    <3>. QED
      BY <3>1, <3>2
  <2>2. CASE k # f \/ g # e
    <3>1. /\ net'[k][g] = net[k][g] /\ acks'[k][g] = acks[k][g]
          /\ job[k] \in Seq(Tensor) /\ NetInv(k, g) /\ AskInv(k)
      BY <1>0, <1>4, <1>5, <2>2, Parts
    <3>. QED
      BY <1>0, <1>7, <3>1, NetKept
  <2>. QED
    BY <2>1, <2>2
<1>13. ASSUME NEW u \in Tensor PROVE TensorInv(u)'
  <2>0. u.req \in Req /\ TensorInv(u)
    BY Parts DEF Tensor
  <2>1. Ahead(u)' => Ahead(u)
    BY <1>0 DEF Ahead, Rest
  <2>2. Flying(u)' => Flying(u) /\ u # t
    <3>1. ASSUME NEW k \in Inst, NEW g \in Inst, u \in ToSet(net'[k][g])
          PROVE  u \in ToSet(net[k][g]) /\ u # t
      <4>1. k # f \/ g # e
        BY <1>5, <3>1, OneElement
      <4>. QED
        BY <1>1, <1>5, <3>1, <4>1
    <3>. QED
      BY <3>1 DEF Flying
  <2>3. CASE u = t
    <3>1. /\ ~Ahead(t) /\ \A k \in Inst : t \notin store[k]
          /\ \A k \in Decode : half[k][t.req] # "done"
      BY <1>1, <2>0, <2>3 DEF TensorInv
    <3>2. \A k \in Inst : t \in store'[k] => k = e
      BY <1>3, <3>1
    <3>3. \A k \in Inst : t \in sent'[k] =>
            id'[t.req].decode \in Decode /\ Safe(id[t.req].decode, t)'
      BY <1>0, <1>7, <2>0, <2>3 DEF TensorInv
    <3>. QED
      BY <1>0, <1>1, <2>1, <2>2, <2>3, <3>1, <3>2, <3>3 DEF TensorInv
  <2>4. CASE u # t
    <3>1. \A k \in Inst : u \in store'[k] => u \in store[k]
      BY <1>3, <2>4
    <3>. QED
      BY <1>0, <1>7, <2>0, <2>1, <2>2, <3>1, TensorKept
  <2>. QED
    BY <2>3, <2>4
<1>. QED
  BY <1>6, <1>8, <1>9, <1>10, <1>11, <1>12, <1>13 DEF KvInv

----------------------------------------------------------------------------
(***************************************************************************)
(* The theorems.                                                            *)
(***************************************************************************)

\* Nothing is known, sent or stored at first.
LEMMA KvInit == Init => KvInv
<1>. SUFFICES ASSUME Init PROVE KvInv
  OBVIOUS
<1>0. /\ Decode \subseteq Inst /\ Prefill \subseteq Inst /\ MaxFaults \in Nat
      /\ eng = [e \in Inst |-> "up"] /\ gen = [r \in Req |-> "new"]
      /\ id = [r \in Req |-> [decode |-> NoEnd, prefill |-> NoEnd]]
      /\ half = [e \in Inst |-> [r \in Req |-> "none"]]
      /\ job = [e \in Inst |-> << >>] /\ asked = {}
      /\ net = [e \in Inst |-> [f \in Inst |-> << >>]]
      /\ acks = [e \in Inst |-> [f \in Inst |-> << >>]]
      /\ store = [e \in Inst |-> {}] /\ sent = [e \in Inst |-> {}]
  BY HandoffAssumption DEF Init, Inst
<1>1. TypeOK
  BY <1>0 DEF TypeOK, Init, HalfStates
<1>2. ASSUME NEW r \in Req PROVE IdInv(r)
  BY <1>0 DEF IdInv
<1>3. ASSUME NEW e \in Inst PROVE JobInv(e) /\ AskInv(e)
  <2>1. job[e] = << >> /\ ToSet(<< >>) = {} /\ Distinct(<< >>)
    <3>1. job[e] = << >>
      BY <1>0
    <3>2. ToSet(<< >>) = {}
      BY DEF ToSet
    <3>3. Distinct(<< >>)
      BY DEF Distinct
    <3>. QED
      BY <3>1, <3>2, <3>3
  <2>. QED
    BY <1>0, <2>1 DEF JobInv, AskInv
<1>4. ASSUME NEW e \in Decode PROVE LoadInv(e)
  BY <1>0 DEF LoadInv, Tensor
<1>5. ASSUME NEW f \in Inst, NEW g \in Inst PROVE NetInv(f, g)
  BY <1>0 DEF NetInv
<1>6. ASSUME NEW t \in Tensor PROVE TensorInv(t)
  <2>1. t.req \in Req
    BY DEF Tensor
  <2>2. \A f, g \in Inst : ToSet(net[f][g]) = {}
    BY <1>0 DEF ToSet
  <2>3. ~Flying(t)
    BY <2>2 DEF Flying
  <2>. QED
    BY <1>0, <2>1, <2>3 DEF TensorInv
<1>. QED
  BY <1>1, <1>2, <1>3, <1>4, <1>5, <1>6 DEF KvInv

\* Every step keeps the invariant.
LEMMA KvNext == KvInv /\ [Next]_vars => KvInv'
<1>. SUFFICES ASSUME KvInv, [Next]_vars PROVE KvInv'
  OBVIOUS
<1>1. ASSUME NEW e \in Inst, Report(e) \/ ModelThread(e) \/ Dies(e) PROVE KvInv'
  <2>1. CASE Report(e)
    BY <2>1, ReportKeeps
  <2>2. CASE StartStep(e)
    BY <2>2, StartKeeps
  <2>3. CASE SendTensor(e)
    BY <2>3, SendKeeps
  <2>4. CASE SendAnswered(e)
    BY <2>4, AnsweredKeeps
  <2>5. CASE RecvTensor(e)
    BY <2>5, RecvKeeps
  <2>6. CASE SendNowhere(e) \/ SendTimesOut(e) \/ RecvTimesOut(e) \/ Dies(e)
    BY <2>6, AnyFailure
  <2>. QED
    BY <1>1, <2>1, <2>2, <2>3, <2>4, <2>5, <2>6 DEF ModelThread
<1>2. ASSUME NEW e \in Inst, NEW f \in Inst, Listen(e, f) \/ ListenRejects(e, f)
      PROVE  KvInv'
  BY <1>2, ListenKeeps
<1>3. ASSUME NEW e \in Inst, NEW r \in Req, AbortArrives(e, r) \/ FinishDecode(e, r)
      PROVE  KvInv'
  BY <1>3, AbortKeeps, FinishKeeps
<1>4. ASSUME NEW r \in Req, GenerateConsumer(r) \/ GenerateFails(r) \/ ClientAborts(r)
      PROVE  KvInv'
  BY <1>4, ConsumerKeeps, EndKeeps
<1>5. ASSUME NEW r \in Req, NEW p \in Prefill, NEW d \in Decode,
             GenerateProducer(r, p, d) \/ GenerateSingle(r, p, d)
      PROVE  KvInv'
  BY <1>5, ProducerKeeps, SingleKeeps
<1>6. CASE UNCHANGED vars
  <2>1. TypeOK'
    BY <1>6, Parts DEF TypeOK, vars
  <2>2. \A r \in Req : IdInv(r)'
    BY <1>6, Parts DEF IdInv, Paired, vars
  <2>. QED
    BY <1>6, <2>1, <2>2, ManagerKept DEF vars
<1>. QED
  BY <1>1, <1>2, <1>3, <1>4, <1>5, <1>6 DEF Next

\* The handoff keeps KvInv: a tensor is still to be sent, on its way, or at the
\* decoding instance of its id, and a consumer goes on only with all its layers.
THEOREM KvInvHolds == Spec => []KvInv
  BY KvInit, KvNext, PTL DEF Spec

\* What the producer holds as sent is at the decoding instance until the request
\* ends there, and no recv_store has a tensor of a request of another instance.
THEOREM AckedIsStoredHolds == Spec => []AckedIsStored
<1>1. ASSUME KvInv PROVE AckedIsStored
  <2>1. TypeOK
    BY <1>1, Parts
  <2>2. ASSUME NEW e \in Inst, NEW t \in Tensor, t \in store[e]
        PROVE  id[t.req].decode = e
    BY <1>1, <2>2, Parts DEF TensorInv
  <2>3. ASSUME NEW e \in Inst, NEW t \in Tensor, t \in sent[e]
        PROVE  Safe(id[t.req].decode, t)
    BY <1>1, <2>3, Parts DEF TensorInv
  <2>. QED
    BY <2>1, <2>2, <2>3 DEF AckedIsStored, Safe, Ended
<1>. QED
  BY <1>1, KvInvHolds, PTL

\* A request decoded to its end has no tensor in a recv_store, and none that its
\* producer has still on the way.
THEOREM NoResidueHolds == Spec => []NoResidue
<1>1. ASSUME KvInv PROVE NoResidue
  <2>. SUFFICES ASSUME NEW e \in Decode, NEW r \in Req, half[e][r] = "done",
                       NEW f \in Inst,
                       NEW t \in store[f] \cup ToSet(net[id[r].prefill][f]), t.req = r
                PROVE  FALSE
    BY DEF NoResidue
  <2>1. /\ store \in [Inst -> SUBSET Tensor] /\ net \in [Inst -> [Inst -> Seq(Tensor)]]
        /\ IdInv(r) /\ e \in Inst /\ e \notin Prefill /\ Prefill \subseteq Inst
    BY <1>1, Parts, HandoffAssumption DEF TypeOK, Inst
  <2>2. Paired(r)
    BY <2>1 DEF IdInv
  <2>3. PICK p \in Inst : p = id[r].prefill
    BY <2>1, <2>2 DEF Paired
  <2>4. t \in Tensor
    <3>1. net[p][f] \in Seq(Tensor)
      BY <2>1
    <3>. QED
      BY <2>1, <2>3, <3>1, InToSet
  <2>5. ~Flying(t) /\ t \notin store[f]
    BY <1>1, <2>4, Parts DEF TensorInv
  <2>. QED
    BY <2>3, <2>5 DEF Flying
<1>. QED
  BY <1>1, KvInvHolds, PTL
====
