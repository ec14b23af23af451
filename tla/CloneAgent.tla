----------------------------- MODULE CloneAgent -----------------------------
(***************************************************************************)
(* The background agent of clones/clone.c: a client's copy of the table.   *)
(* It takes a snapshot from one server and then the updates that server    *)
(* publishes; the updates of its own application go to both servers, and   *)
(* at once into the copy.  SERVER_TTL is abstract: the agent gives a       *)
(* server up only when that can send it nothing it would read.             *)
(***************************************************************************)
EXTENDS CloneServer

VARIABLES agent,    \* agent -> state, cur_server, kvmap, sequence, requests
          failovers, \* agent -> times it gave a server up
          writes,   \* what is set in this behaviour
          sets,     \* updates made so far; the number of the last is its uuid
          sent,     \* server -> uuids of the updates sent to this process
          synced,   \* agents whose last snapshot is of a process that runs, with
                    \* a table made of the log, and has published nothing since
                    \* that they had not yet subscribed to
          leftover  \* pairs <<a, s>> whose sockets hold what an earlier process
                    \* of s has sent, or a snapshot after which s has published
                    \* what a had not yet subscribed to

agentVars == <<agent, failovers, writes, sets, sent, synced, leftover>>

AgentInit ==
    /\ agent = [a \in Agent |->
         [state |-> "SYNCING", cur_server |-> "primary", kvmap |-> EmptyMap,
          sequence |-> 0, requests |-> [s \in Server |-> IF s = "primary" THEN 1 ELSE 0]]]
    /\ failovers = [a \in Agent |-> 0]
    /\ writes \in Writes
    /\ sets = 0
    /\ sent = [s \in Server |-> {}]
    /\ synced = {}
    /\ leftover = {}

AgentTypeOK ==
    /\ agent \in [Agent -> [state : {"SYNCING", "ACTIVE"}, cur_server : Server,
                            kvmap : Table, sequence : Nat,
                            requests : [Server -> 0 .. 2]]]
    /\ failovers \in [Agent -> 0 .. MaxFailovers]
    /\ writes \in Writes
    /\ sets \in 0 .. Len(writes)
    /\ sent \in [Server -> SUBSET Uuid]
    /\ synced \subseteq Agent
    /\ leftover \subseteq Agent \X Server

Cur(a) == agent[a].cur_server
FromCur(a) == <<a, Cur(a)>>

\* server_new and main: the SUB of an agent, or of the other server, connects.
Subscribe(x, s) ==
    /\ <<x, s>> \in Pair \ subs
    /\ Up(s)
    /\ x \in Server => Up(x)
    /\ subs' = subs \cup {<<x, s>>}
    /\ UNCHANGED <<pubs, ask, snap, out, updates, serverVars, agentVars>>

\* agent_control_message, SET: the update is published and stored.  Since the
\* last one, the PUB may have been connected to more servers.
Set(a) ==
    /\ sets < Len(writes)
    /\ sets' = sets + 1
    /\ \E reached \in SUBSET {s \in Server : Up(s)} :
         pubs' = pubs \cup ({a} \X reached)
    /\ \E k \in Key :
         LET v == writes[sets + 1]
             m == KVUpdate(sets + 1, k, v.body, v.ttl) IN
           /\ updates' = [p \in Agent \X Server |->
                IF p[1] = a /\ p \in pubs' THEN Append(updates[p], m) ELSE updates[p]]
           /\ agent' = [agent EXCEPT ![a].kvmap = Store(@, m)]
    /\ sent' = [s \in Server |-> IF <<a, s>> \in pubs' THEN sent[s] \cup {sets + 1} ELSE sent[s]]
    /\ UNCHANGED <<subs, ask, snap, out, serverVars, failovers, writes, synced, leftover>>

\* After a read: nothing of an earlier process is left in empty sockets.
Read ==
    leftover' = {p \in leftover : snap'[p] # <<>> \/ out'[p] # <<>>}

\* clone_agent, STATE_SYNCING: a message of a snapshot is stored; the last one
\* brings the number, and makes the agent active.
SnapshotMessage(a) ==
    LET p == FromCur(a)
        m == Head(snap[p]) IN
      /\ agent[a].state = "SYNCING"
      /\ snap[p] # <<>>
      /\ snap' = [snap EXCEPT ![p] = Tail(@)]
      /\ agent' =
            IF IsEnd(m)
            THEN [agent EXCEPT ![a].sequence = m.kthxbai, ![a].state = "ACTIVE",
                               ![a].requests[Cur(a)] = 0]
            ELSE [agent EXCEPT ![a].kvmap = Store(@, m), ![a].requests[Cur(a)] = 0]
      /\ synced' = IF IsEnd(m) /\ p \notin leftover /\ Cur(a) \notin tainted
                   THEN synced \cup {a} ELSE synced
      /\ UNCHANGED <<subs, pubs, ask, out, updates, serverVars, failovers, writes, sets, sent>>
      /\ Read

\* A variant with a mistake: an update older than the snapshot is stored, too.
UpdateMessageAny(a) ==
    LET p == FromCur(a)
        m == Head(out[p]) IN
      /\ agent[a].state = "ACTIVE"
      /\ out[p] # <<>>
      /\ out' = [out EXCEPT ![p] = Tail(@)]
      /\ agent' = [agent EXCEPT ![a].kvmap = Store(@, m),
                                ![a].sequence = IF m.seq > @ THEN m.seq ELSE @]
      /\ UNCHANGED <<subs, pubs, ask, snap, updates, serverVars, failovers, writes, sets, sent, synced>>
      /\ Read

\* clone_agent, STATE_ACTIVE: an update is stored if it is newer than the last.
UpdateMessage(a) ==
    LET p == FromCur(a)
        m == Head(out[p]) IN
      /\ agent[a].state = "ACTIVE"
      /\ out[p] # <<>>
      /\ out' = [out EXCEPT ![p] = Tail(@)]
      /\ agent' = IF m.seq > agent[a].sequence
                  THEN [agent EXCEPT ![a].kvmap = Store(@, m), ![a].sequence = m.seq]
                  ELSE agent
      /\ UNCHANGED <<subs, pubs, ask, snap, updates, serverVars, failovers, writes, sets, sent, synced>>
      /\ Read

\* The same for HUGZ, which has no body, and the number of its server.
HugzMessage(a) ==
    LET s == Cur(a) IN
      /\ agent[a].state = "ACTIVE"
      /\ Hugz(a, s)
      /\ server[s].sequence > agent[a].sequence
      /\ agent' = [agent EXCEPT ![a].sequence = server[s].sequence]
      /\ UNCHANGED <<netVars, serverVars, failovers, writes, sets, sent, synced, leftover>>

\* Nothing that the agent would read can come within SERVER_TTL.
Silent(a) ==
    LET s == Cur(a)
        p == FromCur(a) IN
      IF agent[a].state = "SYNCING"
      THEN snap[p] = <<>>
      ELSE out[p] = <<>> /\ (p \notin subs \/ ~Runs(s))

\* clone_agent: the server counts as dead, and the agent asks the next one, if
\* it has not asked that one twice without any answer.
Failover(a) ==
    LET s == Peer(Cur(a)) IN
      /\ Silent(a)
      /\ failovers[a] < MaxFailovers
      /\ failovers' = [failovers EXCEPT ![a] = @ + 1]
      /\ agent' = [agent EXCEPT ![a].state = "SYNCING", ![a].cur_server = s,
                                ![a].requests[s] = IF @ < 2 THEN @ + 1 ELSE @]
      /\ ask' = IF agent[a].requests[s] < 2
                THEN [ask EXCEPT ![<<a, s>>] = @ + 1] ELSE ask
      /\ synced' = synced \ {a}
      /\ UNCHANGED <<subs, pubs, snap, out, updates, serverVars, writes, sets, sent, leftover>>

AgentStep(a) ==
    \/ Set(a) \/ SnapshotMessage(a) \/ UpdateMessage(a) \/ HugzMessage(a) \/ Failover(a)

\* What a step of a server means to the agents' records.
ServerEffect ==
    LET died   == {s \in Server : Up(s) /\ server'[s].state = "DOWN"}
        wrote  == {s \in Server : server'[s].sequence > server[s].sequence}
        missed == (Agent \X wrote) \ subs IN
      /\ sent' = [s \in Server |-> IF s \in died THEN {} ELSE sent[s]]
      /\ synced' = {a \in synced : Cur(a) \notin died /\ FromCur(a) \notin missed}
      /\ leftover' = leftover
           \cup {p \in Agent \X died : snap'[p] # <<>> \/ out'[p] # <<>>}
           \cup {p \in missed : snap[p] # <<>>}
      /\ UNCHANGED <<agent, failovers, writes, sets>>

=============================================================================
