----------------------------- MODULE Discovery -----------------------------
(***************************************************************************)
(* The nodes of udpDiscovery/interface.c find each other by beacons that   *)
(* they broadcast by UDP, and forget a peer that is silent for too long.   *)
(* Beacons are lost, nodes die and come back under a new UUID.  A turn of  *)
(* a node's loop is a step.  Time passes in ticks, and a node is late by   *)
(* no more than MaxLate ticks for its beacon or for one that has come.     *)
(***************************************************************************)
EXTENDS Integers, Sequences, FiniteSets, Functions

CONSTANTS Node,
          PING_INTERVAL, PEER_EXPIRY,   \* in ticks
          MaxLate,
          MaxMissed,    \* BOUND: beacons of a peer that a node misses in a row
          MaxRestarts   \* BOUND: restarts of all nodes

ASSUME DiscoveryAssumption ==
    /\ PING_INTERVAL \in Nat \ {0} /\ PEER_EXPIRY \in Nat \ {0}
    /\ MaxLate \in Nat /\ MaxMissed \in Nat /\ MaxRestarts \in Nat

\* Every start of a node takes a new UUID.
UUID == Node \X (0 .. MaxRestarts + 1)

VARIABLES uuid,         \* node -> its UUID
          up,           \* the nodes that run
          ping,         \* node -> ticks until its beacon is due, negative when late
          peers,        \* node -> the peers it knows: UUID -> ticks until it expires
          socket,       \* node -> the beacons to read: [uuid, age]
          missed,       \* node -> sender -> beacons missed in a row
          restarts

discoveryVars == <<uuid, up, ping, peers, socket, missed, restarts>>

NoPeers == [u \in {} |-> 0]

DiscoveryInit ==
    /\ uuid = [n \in Node |-> <<n, 0>>]
    /\ up = Node
    /\ ping = [n \in Node |-> 0]
    /\ peers = [n \in Node |-> NoPeers]
    /\ socket = [n \in Node |-> <<>>]
    /\ missed = [n \in Node |-> [m \in Node |-> 0]]
    /\ restarts = 0

Alive(u) == \E n \in up : uuid[n] = u

----------------------------------------------------------------------------
(* Time and faults. *)

Older(q) == [i \in DOMAIN q |-> [q[i] EXCEPT !.age = @ + 1]]

DiscoveryTick ==
    /\ \A n \in up :
         /\ ping[n] > -MaxLate
         /\ \A i \in DOMAIN socket[n] : socket[n][i].age < MaxLate
    /\ ping' = [n \in Node |-> IF n \in up THEN ping[n] - 1 ELSE 0]
    /\ peers' = [n \in Node |-> [u \in DOMAIN peers[n] |->
                                   IF peers[n][u] = 0 THEN 0 ELSE peers[n][u] - 1]]
    /\ socket' = [n \in Node |-> Older(socket[n])]
    /\ UNCHANGED <<uuid, up, missed, restarts>>

Die(n) ==
    /\ n \in up
    /\ restarts < MaxRestarts
    /\ restarts' = restarts + 1
    /\ up' = up \ {n}
    /\ socket' = [socket EXCEPT ![n] = <<>>]
    /\ peers' = [peers EXCEPT ![n] = NoPeers]
    /\ ping' = [ping EXCEPT ![n] = 0]
    /\ UNCHANGED <<uuid, missed>>

Restart(n) ==
    /\ n \notin up
    /\ up' = up \cup {n}
    /\ uuid' = [uuid EXCEPT ![n][2] = @ + 1]
    /\ missed' = [m \in Node |-> [missed[m] EXCEPT ![n] = 0]]
    /\ UNCHANGED <<ping, peers, socket, restarts>>

----------------------------------------------------------------------------
(* The agent's loop. *)

\* A peer has all its time again.
Alert(known, u) == [v \in DOMAIN known \cup {u} |-> IF v = u THEN PEER_EXPIRY ELSE known[v]]

\* Plausible bug: only the first beacon of a peer counts as activity.
BeaconOnce(known, u, self) ==
    IF u = self \/ u \in DOMAIN known THEN known ELSE Alert(known, u)

\* A beacon: its own is ignored, a new peer is JOINED, and any is alive again.
Beacon(known, u, self) == IF u = self THEN known ELSE Alert(known, u)

\* The peers that have expired have LEFT.
Reap(known) == [u \in {v \in DOMAIN known : known[v] > 0} |-> known[u]]

\* A broadcast: it reaches each node that runs, and the sender, or it is missed.
Broadcast(n, rest) ==
    \E miss \in SUBSET (up \ {n}) :
        /\ \A m \in miss : missed[m][n] < MaxMissed
        /\ missed' = [m \in Node |-> [missed[m] EXCEPT ![n] =
                         IF m \in miss THEN @ + 1 ELSE IF m \in up THEN 0 ELSE @]]
        /\ socket' = [m \in Node |-> IF m \in up \ miss
                                     THEN Append(rest[m], [uuid |-> uuid[n], age |-> 0])
                                     ELSE rest[m]]

\* The poll returns with a beacon to read or for our own beacon: one beacon is
\* read, ours is sent if it is due, and the peers are looked through.
AgentTurn(n) ==
    LET read == socket[n] # <<>>
        rest == IF read THEN [socket EXCEPT ![n] = Tail(@)] ELSE socket
        known == IF read THEN Beacon(peers[n], Head(socket[n]).uuid, uuid[n]) ELSE peers[n]
    IN  /\ n \in up
        /\ read \/ ping[n] <= 0
        /\ peers' = [peers EXCEPT ![n] = Reap(known)]
        /\ \/ /\ ping[n] <= 0
              /\ ping' = [ping EXCEPT ![n] = PING_INTERVAL]
              /\ Broadcast(n, rest)
           \/ /\ ping[n] > 0
              /\ socket' = rest
              /\ UNCHANGED <<ping, missed>>
        /\ UNCHANGED <<uuid, up, restarts>>

DiscoveryNext == DiscoveryTick \/ \E n \in Node : Die(n) \/ Restart(n) \/ AgentTurn(n)

----------------------------------------------------------------------------
(* Properties. *)

DiscoveryTypeOK ==
    /\ uuid \in [Node -> UUID]
    /\ up \subseteq Node
    /\ ping \in [Node -> -MaxLate .. PING_INTERVAL]
    /\ \A n \in Node :
         /\ DOMAIN peers[n] \subseteq UUID \ {uuid[n]}
         /\ Range(peers[n]) \subseteq 0 .. PEER_EXPIRY
         /\ \A i \in DOMAIN socket[n] : socket[n][i].uuid \in UUID
    /\ missed \in [Node -> [Node -> 0 .. MaxMissed]]
    /\ restarts \in 0 .. MaxRestarts

\* A node that runs and is not late is never reported LEFT to another, though some
\* of its beacons are missed, others wait in the socket while the peers are looked
\* through, and one beacon is read in a turn (interface.c:226-272, 303-313).
NoFalseLeave ==
    [][\A n \in up : \A u \in DOMAIN peers[n] :
          Alive(u) /\ n \in up' => u \in DOMAIN peers'[n]]_discoveryVars

=============================================================================
