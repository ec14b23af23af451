--------------------------- MODULE MCLoadBalancer ---------------------------
(* A small instance of LoadBalancer for TLC: more clients than workers. *)
EXTENDS LoadBalancer

CONSTANTS c1, c2, c3, w1, w2

=============================================================================
