------------------------------ MODULE MCClone ------------------------------
(* Small instances of Clone for model checking. *)
EXTENDS Clone

CONSTANTS a1, k1

Permanent == [body |-> TRUE, ttl |-> "zero"]
Ephemeral == [body |-> TRUE, ttl |-> "relative"]

\* What the application sets: a value and its successor, or one that expires.
Scripts == {<<Permanent, Permanent>>, <<Ephemeral>>}

\* Subscriptions that have not come yet to an active or passive server.
Late == {p \in Pair \ subs : /\ Active(p[2]) \/ Passive(p[2])
                             /\ p[1] \in Server => Up(p[1])}

\* BOUND: a behaviour ends where a server's table is no longer made of the log,
\* since nothing is claimed of that table, and where an agent whose value expires
\* gives its server up: the other script has fail-overs of agents.  The
\* subscription of a server comes late only with the value that expires, and
\* when no other is late.
Claimed ==
    /\ tainted = {}
    /\ writes = <<Ephemeral>> => \A a \in Agent : failovers[a] = 0
    /\ \/ Late \subseteq Agent \X Server
       \/ writes = <<Ephemeral>> /\ Cardinality(Late) = 1

\* What Stored says of a whole list is what storing one by one does.
Two == INSTANCE KVMsg WITH Key <- {"a", "b"}
Two_Messages == {Two!KVUpdate(u, k, b, "zero") : u \in 1 .. 2, k \in {"a", "b"}, b \in BOOLEAN}

ASSUME StoredAssumption ==
    \A map \in [{"a", "b"} -> Two_Messages \cup {NoMsg}] :
       \A msgs \in BoundedSeq(Two_Messages, 3) :
          Two!Stored(map, msgs) = FoldLeft(Two!Store, map, msgs)

Overwrite == {<<Permanent, Permanent>>}

=============================================================================
