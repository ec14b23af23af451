---------------------------- MODULE MCMajordomo ----------------------------
(* Small instances of Majordomo for TLC. *)
EXTENDS Majordomo

CONSTANTS c1, c2, w1, w2

\* All workers offer one service; they are interchangeable.
OneService == [w \in Worker |-> "echo"]
Workers == Permutations({w1, w2})

\* A worker per service.
TwoServices == [w \in Worker |-> IF w = w1 THEN "echo" ELSE "log"]

\* A worker that announces a reserved name.
ReservedService == [w \in Worker |-> "mmi.service"]

=============================================================================
