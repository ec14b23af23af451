---------------------------- MODULE MCPrograms ----------------------------
(* Small instances of the programs of Programs for model checking. *)
EXTENDS Programs, TLC

CONSTANTS b1, b2, c1, c2, w1, w2, n1, n2

\* A client and a worker at each broker, a request of each client; one of the
\* brokers is still to connect to the other.
Homes == (c1 :> b1) @@ (c2 :> b2) @@ (w1 :> b1) @@ (w2 :> b2)
Bursts == (c1 :> 1) @@ (c2 :> 1)

\* Of two digits of four values: the least number, and one without a sign.
Sequences == {-8, 7}

=============================================================================
