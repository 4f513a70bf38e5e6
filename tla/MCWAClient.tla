----------------------------- MODULE MCWAClient -----------------------------
(* Instances of WAClient for TLC. *)
EXTENDS WAClient, TLC, FiniteSets

(* Retry goroutines are interchangeable, and so are event goroutines. Sound  *)
(* for safety only: the liveness run does without it.                        *)
GoroutineSymmetry == Permutations(Loops) \cup Permutations(Handlers)

(* A bound: events overtake each other while there is one client; once it is *)
(* replaced they come one at a time.                                         *)
EventsBound ==
    cur = 1 \/ Cardinality({h \in Handlers : hPC[h] # "idle"}) <= 1

=============================================================================
