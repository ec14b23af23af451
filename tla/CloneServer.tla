---------------------------- MODULE CloneServer ----------------------------
(***************************************************************************)
(* The servers of clones/cloneserver6.c: a table of key-value messages on  *)
(* each of the two servers of a Binary Star.  The active one numbers and   *)
(* publishes the updates of the clients; the passive one reads them from   *)
(* it, and holds on a list what clients sent until it meets the same       *)
(* update from the active one.                                             *)
(* Time is abstract: when peer_expiry may have passed is what BinaryStar   *)
(* shows, and a state that a peer publishes is read before it changes.     *)
(***************************************************************************)
EXTENDS CloneNet

VARIABLES server,   \* server -> state, kvmap, sequence, pending, asking: it
                    \* waits for its snapshot
          crashes,
          log,      \* what the active servers have numbered, in the order of
                    \* the numbers; what was above a successor's is cut off
          tainted   \* servers whose table is not made of the log

serverVars == <<server, crashes, log, tainted>>

Down == [state |-> "DOWN", kvmap |-> Null, sequence |-> 0, pending |-> <<>>,
         asking |-> FALSE]
Up(s) == server[s].state # "DOWN"
Runs(s) == Up(s) /\ ~server[s].asking
Active(s) == server[s].state = "ACTIVE"
Passive(s) == server[s].state = "PASSIVE"

\* The primary server has met the backup, and the backup the active primary.
ServerInit ==
    /\ server = [s \in Server |->
         IF s = "primary" THEN [Down EXCEPT !.state = "ACTIVE", !.kvmap = EmptyMap]
         ELSE [Down EXCEPT !.state = "PASSIVE"]]
    /\ crashes = 0
    /\ log = <<>>
    /\ tainted = {}

ServerTypeOK ==
    /\ server \in [Server -> [state : State \cup {"DOWN"}, kvmap : Table \cup {Null},
                              sequence : Nat, pending : Seq(Update), asking : BOOLEAN]]
    /\ crashes \in 0 .. MaxCrashes
    /\ log \in Seq(Published)
    /\ tainted \subseteq Server

\* The readers that will ever read: an active server has ended its subscription.
Wanted == {p \in Pair : p[1] \in Server => ~Active(p[1])}

-----------------------------------------------------------------------------
\* main: the primary server has an empty table, the backup has none.
Start(s) ==
    /\ ~Up(s)
    /\ server' = [server EXCEPT ![s] =
          [Down EXCEPT !.state = StartState(s),
                       !.kvmap = IF s = "primary" THEN EmptyMap ELSE Null]]
    /\ UNCHANGED <<netVars, crashes, log, tainted>>

\* The process ends, when it has published msgs.  A peer that is still to load its
\* table and has messages of it to read will mix them with what another has; one
\* that waits for its snapshot may get one of the next process before it has
\* subscribed there.
Die(s, msgs) ==
    /\ Closed(s, Publish(s, msgs, Wanted))
    /\ server' = [server EXCEPT ![s] = Down]
    /\ tainted' = (tainted \ {s}) \cup
          {q \in {Peer(s)} : \/ server[q].asking
                             \/ server[q].kvmap = Null /\ out'[<<q, s>>] # <<>>}
    /\ UNCHANGED log

Crash(s) ==
    /\ Up(s)
    /\ crashes < MaxCrashes
    /\ crashes' = crashes + 1
    /\ Die(s, <<>>)

\* What may be known of the peer's heartbeats: only one that is silent, or was
\* until now, is ever given up.
Expired(s) ==
    LET p == Peer(s) IN
      IF server[p].state \in {"ACTIVE", "PASSIVE"} /\ Runs(p) THEN {FALSE} ELSE BOOLEAN

-----------------------------------------------------------------------------
\* A variant with a mistake: the number is raised after its use.
RenumberedLate(msgs, from) == [i \in DOMAIN msgs |-> Numbered(msgs[i], from + i - 1)]

\* kvmsg_set_sequence (kvmsg, ++self->sequence) for one message after another.
Renumbered(msgs, from) == [i \in DOMAIN msgs |-> Numbered(msgs[i], from + i)]

\* s_new_active: what is pending is numbered, published and stored.
NewActive(s) ==
    LET msgs == Renumbered(server[s].pending, server[s].sequence) IN
      [server[s] EXCEPT !.state = "ACTIVE",
                        !.pending = <<>>,
                        !.sequence = @ + Len(msgs),
                        !.kvmap = IF @ = Null THEN Null ELSE Stored(@, msgs)]

\* Its effect outside the server.
TakesOver(s) ==
    LET msgs == Renumbered(server[s].pending, server[s].sequence) IN
      /\ out' = [Publish(s, msgs, Wanted) EXCEPT ![<<s, Peer(s)>>] = <<>>]
      /\ log' = IF s \in tainted \/ server[s].kvmap = Null THEN log
                ELSE SubSeq(log, 1, server[s].sequence) \o msgs

\* kvmsg_store and zhash_foreach assert that there is a table.
NoTable(s) == server[s].kvmap = Null

\* What s_new_active publishes before kvmsg_store fails.
FirstPending(s) ==
    IF server[s].pending = <<>> THEN <<>>
    ELSE <<Numbered(Head(server[s].pending), server[s].sequence + 1)>>

\* s_recv_state, with s_new_active and s_new_passive: a state of the peer makes
\* this server active or passive.
RecvState(s) ==
    LET event == server[Peer(s)].state
        next  == NextState(server[s].state, event, FALSE) IN
      /\ Runs(s) /\ Runs(Peer(s))
      /\ next # server[s].state
      /\ CASE next = "PASSIVE" ->
                 /\ server' = [server EXCEPT ![s] =
                                 [@ EXCEPT !.state = "PASSIVE", !.kvmap = Null]]
                 /\ UNCHANGED <<netVars, log, tainted>>
           [] next = "ACTIVE" /\ NoTable(s) /\ server[s].pending # <<>> ->
                 Die(s, FirstPending(s))
           [] OTHER ->
                 /\ server' = [server EXCEPT ![s] = NewActive(s)]
                 /\ TakesOver(s)
                 /\ UNCHANGED <<subs, pubs, ask, snap, updates, tainted>>
      /\ UNCHANGED crashes

\* s_snapshots: the table, in no order, and its number.
Snapshot(record) ==
    Append(Wired(SetToSeq({record.kvmap[k] : k \in Key} \ {NoMsg})), Kthxbai(record.sequence))

\* s_voter_ready for a request of x: a refused one is destroyed; one that is
\* not may make this server active first.
Voter(s, x) ==
    /\ Runs(s)
    /\ ask[<<x, s>>] > 0
    /\ \E expired \in Expired(s) :
         LET refused == Refused(server[s].state, "REQUEST", expired)
             takes   == NextState(server[s].state, "REQUEST", expired) # server[s].state
             record  == IF takes THEN NewActive(s) ELSE server[s] IN
           CASE refused ->
                  /\ ask' = [ask EXCEPT ![<<x, s>>] = @ - 1]
                  /\ UNCHANGED <<subs, pubs, snap, out, updates, server, log, tainted>>
             [] ~refused /\ NoTable(s) -> Die(s, FirstPending(s))
             [] OTHER ->
                  /\ ask' = [ask EXCEPT ![<<x, s>>] = @ - 1]
                  /\ snap' = [snap EXCEPT ![<<x, s>>] = @ \o Snapshot(record)]
                  /\ server' = [server EXCEPT ![s] = record]
                  /\ IF takes THEN TakesOver(s) ELSE UNCHANGED <<out, log>>
                  /\ UNCHANGED <<subs, pubs, updates, tainted>>
    /\ UNCHANGED crashes

-----------------------------------------------------------------------------
IsPending(s, m) == \E i \in DOMAIN server[s].pending : server[s].pending[i].uuid = m.uuid

\* s_was_pending: the first message with this uuid leaves the list.
Unpended(s, m) ==
    RemoveAt(server[s].pending,
             SelectInSeq(server[s].pending, LAMBDA held : held.uuid = m.uuid))

\* A variant with a mistake: a passive server holds nothing back.
PendedNothing(s, m) == IF IsPending(s, m) THEN Unpended(s, m) ELSE server[s].pending

\* What a passive server does with its list for an update of a client.
Pended(s, m) == IF IsPending(s, m) THEN Unpended(s, m) ELSE Append(server[s].pending, m)

\* A time to live becomes a time of day.
Dated(m) == [m EXCEPT !.ttl = IF @ = "relative" THEN "absolute" ELSE @]

\* s_collector, active: an update is numbered, published and stored.
CollectActive(s, m) ==
    LET n == server[s].sequence + 1 IN
      /\ server' = [server EXCEPT ![s].sequence = n,
                                  ![s].kvmap = Store(@, Dated(Numbered(m, n)))]
      /\ out' = Publish(s, <<Numbered(m, n)>>, Wanted)
      /\ log' = IF s \in tainted THEN log ELSE Append(log, Numbered(m, n))
      /\ UNCHANGED tainted

\* s_collector of an update of agent a.
Collector(s, a) ==
    /\ Runs(s)
    /\ updates[<<a, s>>] # <<>>
    /\ LET m == Head(updates[<<a, s>>]) IN
         CASE Active(s) /\ NoTable(s) -> Die(s, <<Numbered(m, server[s].sequence + 1)>>)
           [] Active(s) /\ ~NoTable(s) ->
                /\ updates' = [updates EXCEPT ![<<a, s>>] = Tail(@)]
                /\ CollectActive(s, m)
                /\ UNCHANGED <<subs, pubs, ask, snap>>
           [] OTHER ->
                /\ updates' = [updates EXCEPT ![<<a, s>>] = Tail(@)]
                /\ server' = [server EXCEPT ![s].pending = Pended(s, m)]
                /\ UNCHANGED <<subs, pubs, ask, snap, out, log, tainted>>
    /\ UNCHANGED crashes

\* s_flush_ttl, on every server with a table: the values whose time has passed
\* are deleted with a message that has a number of its own and the value's uuid.
Flush(s) ==
    /\ Runs(s)
    /\ ~NoTable(s)
    /\ LET kvmap == server[s].kvmap IN
         \E gone \in SUBSET {k \in Key : MayExpire(kvmap[k])} :
           /\ gone # {}
           /\ {k \in Key : MustExpire(kvmap[k])} \subseteq gone
           /\ LET msgs == Renumbered(SetToSeq({Emptied(kvmap[k]) : k \in gone}),
                                     server[s].sequence) IN
                /\ server' = [server EXCEPT ![s].sequence = @ + Len(msgs),
                                            ![s].kvmap = Stored(@, msgs)]
                /\ out' = Publish(s, msgs, Wanted)
                /\ log' = IF Active(s) /\ s \notin tainted THEN log \o msgs ELSE log
                /\ tainted' = IF Active(s) THEN tainted ELSE tainted \cup {s}
    /\ UNCHANGED <<subs, pubs, ask, snap, updates, crashes>>

\* s_send_hugz reaches the reader x of s: s runs, and nothing else is to read.
Hugz(x, s) ==
    /\ Runs(s)
    /\ <<x, s>> \in subs
    /\ out[<<x, s>>] = <<>>

\* s_subscriber without a table: whatever message woke it, the server asks its
\* peer for a snapshot and waits for it in the handler.  The message is left to
\* the next run of the handler, which is the same as if HUGZ had come before it.
AskPeer(s) ==
    LET p == Peer(s) IN
      /\ Passive(s) /\ Runs(s)
      /\ NoTable(s)
      /\ out[<<s, p>>] # <<>> \/ Hugz(s, p)
      /\ ask' = [ask EXCEPT ![<<s, p>>] = @ + 1]
      /\ server' = [server EXCEPT ![s].asking = TRUE]
      /\ UNCHANGED <<subs, pubs, snap, out, updates, crashes, log, tainted>>

\* The rest of that handler: the messages are stored as they come, and the last
\* one brings the number.
SnapshotLoaded(s) ==
    LET p     == Peer(s)
        reply == snap[<<s, p>>]
        end   == SelectInSeq(reply, IsEnd) IN
      /\ server[s].asking
      /\ end > 0
      /\ server' = [server EXCEPT ![s].asking = FALSE,
                                  ![s].kvmap = Stored(EmptyMap, SubSeq(reply, 1, end - 1)),
                                  ![s].sequence = reply[end].kthxbai]
      /\ ask' = [ask EXCEPT ![<<s, p>>] = 0]
      /\ snap' = [snap EXCEPT ![<<s, p>>] = <<>>]
      /\ tainted' = IF p \in tainted THEN tainted \cup {s} ELSE tainted
      /\ UNCHANGED <<subs, pubs, out, updates, crashes, log>>

\* A variant with a mistake: the number of the update is not compared.
SubscriberUnordered(s) ==
    LET p == Peer(s)
        m == Head(out[<<s, p>>]) IN
      /\ Passive(s) /\ Runs(s)
      /\ ~NoTable(s)
      /\ out[<<s, p>>] # <<>>
      /\ out' = [out EXCEPT ![<<s, p>>] = Tail(@)]
      /\ server' = [server EXCEPT ![s].pending = Pended(s, Dup(m)),
                                  ![s].sequence = m.seq,
                                  ![s].kvmap = Store(@, m)]
      /\ UNCHANGED <<subs, pubs, ask, snap, updates, crashes, log, tainted>>

\* s_subscriber with a table: an update of the active server is matched with
\* what is pending, and applied when it is newer than the table.
Subscriber(s) ==
    LET p == Peer(s)
        m == Head(out[<<s, p>>])
        newer == m.seq > server[s].sequence IN
      /\ Passive(s) /\ Runs(s)
      /\ ~NoTable(s)
      /\ out[<<s, p>>] # <<>>
      /\ out' = [out EXCEPT ![<<s, p>>] = Tail(@)]
      /\ server' = [server EXCEPT ![s].pending = Pended(s, Dup(m)),
                                  ![s].sequence = IF newer THEN m.seq ELSE @,
                                  ![s].kvmap = IF newer THEN Store(@, m) ELSE @]
      /\ UNCHANGED <<subs, pubs, ask, snap, updates, crashes, log, tainted>>

ServerStep(s) ==
    \/ Start(s) \/ Crash(s) \/ RecvState(s) \/ Flush(s)
    \/ AskPeer(s) \/ SnapshotLoaded(s) \/ Subscriber(s)
    \/ \E a \in Agent : Collector(s, a)
    \/ \E x \in Agent \cup {Peer(s)} : Voter(s, x)

=============================================================================
