------------------------------- MODULE Clone -------------------------------
(***************************************************************************)
(* The Clone pattern: the two servers of clones/cloneserver6.c under the   *)
(* Binary Star reactor, and agents of clones/clone.c.                      *)
(***************************************************************************)
EXTENDS CloneAgent

vars == <<netVars, serverVars, agentVars>>

Init == NetInit /\ ServerInit /\ AgentInit

Next ==
    \/ \E s \in Server : ServerStep(s) /\ ServerEffect
    \/ \E x \in Agent \cup Server, s \in Server : Subscribe(x, s)
    \/ \E a \in Agent : AgentStep(a)

Spec == Init /\ [][Next]_vars

TypeOK == NetTypeOK /\ ServerTypeOK /\ AgentTypeOK

-----------------------------------------------------------------------------
Uuids(msgs) == {msgs[i].uuid : i \in DOMAIN msgs}

\* A table as uuids, and what the first n updates of the log make of a table.
Names(kvmap) == [k \in Key |-> IF kvmap[k] = NoMsg THEN NoMsg ELSE kvmap[k].uuid]

Map == INSTANCE ReplicatedMap WITH
    Replica <- Server, Name <- Key, None <- NoMsg,
    table <- [s \in Server |->
                IF server[s].kvmap = Null \/ s \in tainted THEN NoMsg
                ELSE Names(server[s].kvmap)],
    upto <- [s \in Server |-> server[s].sequence]

\* Through crashes, takeovers and restarts every server that has a table has
\* exactly what some prefix of one log of updates makes, and only a server that
\* has the whole log, or takes over, adds to it: the passive server neither
\* skips an update of the active one nor applies one twice or out of order.
\* Tables that were flushed by a passive server, or mixed with messages of a
\* process that is gone, are not claimed, nor that of a server whose peer died
\* while it waited for its snapshot.
Implements == Map!RSpec

\* What clients sent to a server that runs is not lost with its peer: it is
\* still to be collected, or on the list, or within the log the server has.
NothingLost ==
    \A s \in Server \ tainted :
       sent[s] \subseteq Uuids(server[s].pending) \cup Uuids(log)
                         \cup UNION {Uuids(updates[<<a, s>>]) : a \in Agent}

\* A client loses nothing but what was published before its subscription had
\* come: when its snapshot is of the process that runs, and that process has
\* published nothing between the snapshot and the subscription, the client has,
\* of every key that has a value in the log as far as the client has come, that
\* value, unless its own application has written one that has not come back.
AgentAgrees ==
    \A a \in synced :
       agent[a].state = "ACTIVE" /\ Active(Cur(a)) /\ Cur(a) \notin tainted =>
         LET theirs == Map!TableOf(log, agent[a].sequence)
             known  == Uuids(SubSeq(log, 1, agent[a].sequence)) IN
           \A k \in Key : theirs[k] # NoMsg =>
              LET mine == Names(agent[a].kvmap)[k] IN
                mine = theirs[k] \/ (mine \notin known /\ ~(1 .. sets \subseteq known))

\* "We apply our pending list so that our kvmap is up-to-date": a takeover
\* replaces no value by one that a client wrote before it.
FreshTakeover ==
    [][\A s \in Server, k \in Key :
          Passive(s) /\ Active(s)' /\ ~NoTable(s) =>
             LET old == server[s].kvmap[k]
                 new == server'[s].kvmap[k] IN
               old # NoMsg /\ new # NoMsg => new.uuid >= old.uuid]_vars

=============================================================================
