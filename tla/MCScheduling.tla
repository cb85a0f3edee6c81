------------------------------ MODULE MCScheduling ------------------------------
(* Small instances of GlobalScheduling for TLC.                              *)
EXTENDS GlobalScheduling

CONSTANTS h1, kA, kB

\* Two prefill and two decode instances, in two compatibility classes.
MCType == <<"prefill", "decode", "decode", "prefill">>

MCKey == <<kA, kA, kB, kB>>

\* The default threshold is negative too: minus the remaining steps.
MCMigrateOut == -12

\* virtual_usage in twelfths for a compute capacity of 1/64: 3 for a request, and
\* the weighted memory load for fifths of the blocks, or 1 GiB in use of 4.
MCVirtualUsage(x) ==
  3 * (x.run + x.wait)
  + (IF x.total > 0
     THEN <<0, 1, 2, 5, 8, 11>>[(IF x.used + x.allWait > 5 THEN 5 ELSE x.used + x.allWait) + 1]
     ELSE 4 - x.memory)

MCHashes == {{}, {h1}}

Q(n) == <<[blocks |-> n]>>
W(n, preempted) == <<[blocks |-> n, preempted |-> preempted]>>

\* Idle, lightly loaded, at the threshold with a request killed before, and
\* overloaded with a waiting request.
MCSchedulers ==
  {[running |-> << >>, waiting |-> << >>, swapped |-> 0],
   [running |-> Q(1), waiting |-> << >>, swapped |-> 0],
   [running |-> Q(1) \o Q(1), waiting |-> << >>, swapped |-> 1],
   [running |-> Q(1) \o Q(2), waiting |-> W(1, TRUE), swapped |-> 0]}

\* Idle with a cached block, lightly loaded without one, loaded with one.
MCAdapters ==
  {[requests |-> 0, memory |-> 4, hashes |-> {h1}],
   [requests |-> 1, memory |-> 3, hashes |-> {}],
   [requests |-> 2, memory |-> 3, hashes |-> {h1}]}
===============================================================================
