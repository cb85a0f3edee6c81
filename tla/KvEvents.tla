-------------------------------- MODULE KvEvents --------------------------------
(***************************************************************************)
(* The cache index of a V1 instance: vLLM publishes the KV-cache events of  *)
(* the engine, KVEventSubscriber takes them from the live SUB socket and,   *)
(* with a thread of its own, from the replay endpoint, and                  *)
(* KVCacheAffinityIndex keeps the blocks of the instance.  A batch is one   *)
(* event.  The hash of a block stands for the tokens up to its end.         *)
(***************************************************************************)
EXTENDS Naturals, Sequences, FiniteSets

CONSTANTS
  Prompt,        \* sequences of tokens
  BlockSize,
  MaxEvents      \* bound: events of the engine

VARIABLES
  cache,      \* blocks in the prefix cache of the engine
  log,        \* event batches the publisher retains
  sub,        \* SUB socket: "connecting", "on" or "closed"
  live,       \* batches queued in the SUB socket
  replay,     \* replay socket: "off", "asked", "on" or "done"
  rest,       \* batches the replay endpoint still has to deliver
  blocks,     \* KVCacheAffinityIndex._blocks of the instance
  missed      \* an event was published before the SUB socket was connected

vars == <<cache, log, sub, live, replay, rest, blocks, missed>>

\* The chained hashes of the complete blocks of a prompt.
prefix_hashes(tokens) ==
  IF BlockSize <= 0 THEN {}
  ELSE {SubSeq(tokens, 1, k * BlockSize) : k \in 1 .. Len(tokens) \div BlockSize}

Block == UNION {prefix_hashes(tokens) : tokens \in Prompt}

Event == [op : {"stored", "removed"}, b : Block] \cup [op : {"cleared"}]

Init ==
  /\ cache = {} /\ log = << >> /\ sub = "connecting" /\ live = << >>
  /\ replay = "off" /\ rest = << >> /\ blocks = {} /\ missed = FALSE

\* The event of a batch applied to a set of blocks.
apply(B, e) ==
  CASE e.op = "stored"  -> B \cup {e.b}
    [] e.op = "removed" -> B \ {e.b}
    [] e.op = "cleared" -> {}

\* The engine changes its cache and publishes the event; a subscriber that is
\* not connected yet misses it.
Publish(e) ==
  /\ Len(log) < MaxEvents
  /\ e.op = "stored" => e.b \notin cache
  /\ e.op = "removed" => e.b \in cache
  /\ e.op = "cleared" => cache # {}
  /\ cache' = apply(cache, e)
  /\ log' = Append(log, e)
  /\ live' = IF sub = "on" THEN Append(live, e) ELSE live
  /\ missed' = (missed \/ sub # "on")
  /\ UNCHANGED <<sub, replay, rest, blocks>>

\* The SUB socket of __init__ is connected.
Connect ==
  /\ sub = "connecting" /\ sub' = "on"
  /\ UNCHANGED <<cache, log, live, replay, rest, blocks, missed>>

\* __init__ starts the replay thread, which asks for everything from sequence 0.
AskReplay ==
  /\ replay = "off" /\ replay' = "asked"
  /\ UNCHANGED <<cache, log, sub, live, rest, blocks, missed>>

\* The publisher answers with what it has retained.
AnswerReplay ==
  /\ replay = "asked" /\ replay' = "on"
  /\ rest' = log
  /\ UNCHANGED <<cache, log, sub, live, blocks, missed>>

\* _run: one batch of the SUB socket.
Run ==
  /\ sub = "on" /\ live # << >>
  /\ blocks' = apply(blocks, Head(live))
  /\ live' = Tail(live)
  /\ UNCHANGED <<cache, log, sub, replay, rest, missed>>

\* _replay: one batch of the replay, whatever its sequence number.
Replay ==
  /\ replay = "on" /\ rest # << >>
  /\ blocks' = apply(blocks, Head(rest))
  /\ rest' = Tail(rest)
  /\ UNCHANGED <<cache, log, sub, live, replay, missed>>

\* The sentinel, or a second without a reply.
ReplayEnds ==
  /\ replay = "asked" \/ (replay = "on" /\ rest = << >>)
  /\ replay' = "done"
  /\ UNCHANGED <<cache, log, sub, live, rest, blocks, missed>>

close ==
  /\ sub = "on" /\ sub' = "closed" /\ replay' = "done"
  /\ live' = << >> /\ rest' = << >>
  /\ UNCHANGED <<cache, log, blocks, missed>>

Next ==
  \/ \E e \in Event : Publish(e)
  \/ Connect \/ AskReplay \/ AnswerReplay \/ Run \/ Replay \/ ReplayEnds \/ close

Spec == Init /\ [][Next]_vars

\* The share of the requested hashes, in percent, that the index has.
affinity(H) == IF H = {} THEN 0 ELSE (100 * Cardinality(H \cap blocks)) \div Cardinality(H)

\* "Duplicate events with PUB delivery are harmless": when every event was
\* delivered by PUB, so that all the replay adds are duplicates, and both streams
\* have been consumed, the index has no block that the engine has dropped: a
\* prompt of which the engine holds no block has no affinity.
NoPhantomBlocks ==
  sub = "on" /\ ~missed /\ live = << >> /\ replay = "done" =>
    \A tokens \in Prompt :
      prefix_hashes(tokens) \cap cache = {} => affinity(prefix_hashes(tokens)) = 0
================================================================================
