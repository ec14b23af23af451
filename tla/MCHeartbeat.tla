---------------------------- MODULE MCHeartbeat ----------------------------
(* Small instances of MDHeartbeat for TLC. *)
EXTENDS MDHeartbeat

CONSTANTS c1, w1, w2

OneService == [w \in Worker |-> "echo"]
Workers == Permutations({w1, w2})

=============================================================================
