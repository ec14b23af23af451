------------------------------- MODULE MDNet -------------------------------
(***************************************************************************)
(* The sockets between the Majordomo broker and its peers, as the code     *)
(* uses them.  The broker binds one ROUTER socket; every client and worker *)
(* owns one connected socket at a time.  ZeroMQ names each connection with *)
(* a fresh identity, so a peer that destroys its socket and opens another  *)
(* is a stranger to the broker: an identity is a pair <<peer, session>>.   *)
(* libzmq itself is not under src/; the operators below are what the code  *)
(* relies on: order per connection, no duplication, messages for a closed  *)
(* connection dropped without an error.                                    *)
(***************************************************************************)
EXTENDS Integers, Sequences, FiniteSets

CONSTANTS Client,        \* processes that use mdcliapi
          Worker,        \* processes that use mdwrkapi
          Service,       \* ordinary service names
          Reserved,      \* names that start with "mmi."
          MaxSession,    \* BOUND: sockets a peer opens in its life
          MaxCalls,      \* BOUND: calls a client makes
          MaxInFlight    \* BOUND: heartbeats are sent into a connection only
                         \* while fewer messages than this are under way in it

ASSUME NetAssumption ==
    /\ Client \cap Worker = {}
    /\ Service \cap Reserved = {}
    /\ MaxSession \in Nat \ {0}
    /\ MaxCalls \in Nat \ {0}
    /\ MaxInFlight \in Nat \ {0}

Peer == Client \cup Worker
Identity == Peer \X (1 .. MaxSession)
ServiceName == Service \cup Reserved
Tag == 1 .. MaxCalls

\* What peers send: MDP/Worker commands and client calls.
Ready      == [cmd : {"READY"}, svc : ServiceName]
Reply      == [cmd : {"REPLY"}, client : Identity, tag : Tag]
Heartbeat  == [cmd |-> "HEARTBEAT"]
Disconnect == [cmd |-> "DISCONNECT"]
Call       == [cmd : {"CALL"}, svc : Service, tag : Tag]
MmiCall    == [cmd : {"CALL"}, svc : Reserved, about : ServiceName]
PeerMessage == Ready \cup Reply \cup {Heartbeat, Disconnect}
                     \cup Call \cup MmiCall

\* What the broker sends: commands to workers and answers to clients.
Request   == [cmd : {"REQUEST"}, client : Identity, tag : Tag]
Answer    == [cmd : {"ANSWER"}, svc : ServiceName, tag : Tag]
MmiAnswer == [cmd : {"ANSWER"}, svc : Reserved, code : {"200", "404", "501"}]
BrokerMessage == Request \cup {Heartbeat, Disconnect} \cup Answer \cup MmiAnswer

VARIABLES session,   \* peer -> number of its latest socket
          open,      \* identities whose socket is open
          toBroker,  \* identity -> messages on their way to the broker
          toPeer     \* identity -> messages on their way from the broker

netVars == <<session, open, toBroker, toPeer>>

Conn(p) == <<p, session[p]>>

\* Every peer starts connected; greeting[i] is what socket i sends first.
NetInit(greeting) ==
    /\ session = [p \in Peer |-> 1]
    /\ open = Peer \X {1}
    /\ toBroker = greeting
    /\ toPeer = [i \in Identity |-> <<>>]

NetTypeOK ==
    /\ session \in [Peer -> 1 .. MaxSession]
    /\ open \subseteq Identity
    /\ toBroker \in [Identity -> Seq(PeerMessage)]
    /\ toPeer \in [Identity -> Seq(BrokerMessage)]

-----------------------------------------------------------------------------
\* A peer writes m to its current socket.
Send(p, m) == toBroker' = [toBroker EXCEPT ![Conn(p)] = Append(@, m)]

\* A peer takes the next message of its current socket.
Inbox(p) == toPeer[Conn(p)]
Take(p) == toPeer' = [toPeer EXCEPT ![Conn(p)] = Tail(@)]

\* The ROUTER socket drops what it cannot route.
Routed(i, m) ==
    toPeer' = IF i \in open THEN [toPeer EXCEPT ![i] = Append(@, m)] ELSE toPeer

\* zsocket_destroy with linger zero: of what the socket still held only a
\* prefix was transmitted, and what was addressed to it is lost.
Close(p) ==
    /\ open' = open \ {Conn(p)}
    /\ \E k \in 0 .. Len(toBroker[Conn(p)]) :
          toBroker' = [toBroker EXCEPT ![Conn(p)] = SubSeq(@, 1, k)]
    /\ toPeer' = [toPeer EXCEPT ![Conn(p)] = <<>>]
    /\ UNCHANGED session

\* The same followed by a new socket, whose first message is m.
Reopen(p, m) ==
    LET fresh == <<p, session[p] + 1>> IN
    /\ session[p] < MaxSession
    /\ session' = [session EXCEPT ![p] = @ + 1]
    /\ open' = (open \ {Conn(p)}) \cup {fresh}
    /\ \E k \in 0 .. Len(toBroker[Conn(p)]) :
          toBroker' = [toBroker EXCEPT ![Conn(p)] = SubSeq(@, 1, k),
                                       ![fresh] = <<m>>]
    /\ toPeer' = [toPeer EXCEPT ![Conn(p)] = <<>>]

\* The broker's process is replaced.  Each connection may lose what was in
\* transit in either direction; what still sits in a peer's own socket is
\* kept, and libzmq reconnects it.
Outage ==
    /\ \E kept \in SUBSET open :
          toBroker' = [i \in Identity |-> IF i \in kept THEN toBroker[i] ELSE <<>>]
    /\ \E kept \in SUBSET open :
          toPeer' = [i \in Identity |-> IF i \in kept THEN toPeer[i] ELSE <<>>]
    /\ UNCHANGED <<session, open>>

=============================================================================
