------------------------------ MODULE CloneNet ------------------------------
(***************************************************************************)
(* The sockets between the two servers of clones/cloneserver6.c and the    *)
(* agents of clones/clone.c.  A pair <<x, s>> is x, an agent or the other  *)
(* server, with its sockets for the server s: a DEALER for snapshots, a    *)
(* SUB for what s publishes and, of an agent, a PUB for updates.  They     *)
(* connect each in its own time, in any order, and close when s dies.      *)
(* libzmq is not under src/: a PUB drops what no subscription has come for *)
(* yet, so of SUB and PUB it matters since when they are connected.  A     *)
(* DEALER keeps its requests until it is: a request that is not served yet *)
(* may be one that is not connected yet.  Order holds within each socket.  *)
(***************************************************************************)
EXTENDS BStar, KVMsg, Integers, Sequences, SequencesExt, Functions

CONSTANTS Agent,        \* clients that hold a copy of the table
          Writes,       \* sequences of [body, ttl]: what the applications may
                        \* set in a behaviour, which bounds the updates
          Null,         \* no table
          MaxCrashes,   \* BOUND: crashes of servers in a behaviour
          MaxFailovers  \* BOUND: times an agent gives a server up

Message == [key : Key, seq : Nat, uuid : Nat, body : BOOLEAN, ttl : Ttl,
            cut : BOOLEAN]

ASSUME CloneAssumption ==
    /\ Agent \cap Server = {}
    /\ \A w \in Writes : w \in Seq([body : BOOLEAN, ttl : {"zero", "relative"}])
    /\ MaxCrashes \in Nat
    /\ MaxFailovers \in Nat
    /\ IsFiniteSet(Key)
    /\ NoMsg \notin Nat \cup Message \cup [Key -> Nat \cup {NoMsg}]
    /\ Null \notin [Key -> Message \cup {NoMsg}]

Pair == {p \in (Agent \cup Server) \X Server : p[1] # p[2]}
Readers(s) == {p \in Pair : p[2] = s}

Uuid == Nat \ {0}
Update == {m \in Message : m.uuid \in Uuid}
Published == {m \in Update : m.seq > 0}
Table == [Key -> Update \cup {NoMsg}]

\* The end of a snapshot.
Kthxbai(n) == [kthxbai |-> n]
IsEnd(m) == "kthxbai" \in DOMAIN m

VARIABLES subs,     \* pairs <<x, s>>: x's subscription has come to s
          pubs,     \* pairs <<a, s>>: the subscription of s has come to a's PUB
          ask,      \* pair -> requests for a snapshot under way
          snap,     \* pair -> the messages of snapshots under way
          out,      \* pair -> published messages its SUB socket has not read
          updates   \* <<a, s>> -> updates that s has not collected

netVars == <<subs, pubs, ask, snap, out, updates>>

\* The servers are connected; the agents have just called server_new, and have
\* asked the first server.
NetInit ==
    /\ subs = {p \in Pair : p[1] \in Server}
    /\ pubs = {}
    /\ ask = [p \in Pair |-> IF p \in Agent \X {"primary"} THEN 1 ELSE 0]
    /\ snap = [p \in Pair |-> <<>>]
    /\ out = [p \in Pair |-> <<>>]
    /\ updates = [p \in Agent \X Server |-> <<>>]

NetTypeOK ==
    /\ subs \subseteq Pair
    /\ pubs \subseteq Agent \X Server
    /\ ask \in [Pair -> Nat]
    /\ snap \in [Pair -> Seq(Update \cup [kthxbai : Nat])]
    /\ out \in [Pair -> Seq(Published)]
    /\ updates \in [Agent \X Server -> Seq(Update)]

Wired(msgs) == [i \in DOMAIN msgs |-> OnWire(msgs[i])]

\* What server s publishes reaches the readers that want it and have subscribed.
Publish(s, msgs, wanted) ==
    [p \in Pair |-> IF p \in Readers(s) \cap subs \cap wanted
                    THEN out[p] \o Wired(msgs) ELSE out[p]]

\* What is left of the queues that server s fills when some suffix of each is
\* lost; what it had not read itself is gone.
Remains(s, queue) ==
    LET lengths == UNION {0 .. Len(queue[p]) : p \in Readers(s)}
        cuts    == {k \in [Readers(s) -> lengths] :
                       \A p \in Readers(s) : k[p] <= Len(queue[p])} IN
      {[p \in Pair |-> CASE p[1] = s -> <<>>
                         [] p[2] = s -> SubSeq(queue[p], 1, k[p])
                         [] OTHER    -> queue[p]] : k \in cuts}

\* The sockets of server s are closed, where queues is what it has published.
\* Of the requests to it those that a connection had taken may be lost.
Closed(s, queues) ==
    /\ subs' = {p \in subs : s \notin {p[1], p[2]}}
    /\ pubs' = {p \in pubs : p[2] # s}
    /\ \E lost \in SUBSET Readers(s) :
          ask' = [p \in Pair |-> IF p[1] = s \/ p \in lost THEN 0 ELSE ask[p]]
    /\ snap' \in Remains(s, snap)
    /\ out' \in Remains(s, queues)
    /\ updates' = [p \in Agent \X Server |-> IF p[2] = s THEN <<>> ELSE updates[p]]

=============================================================================
