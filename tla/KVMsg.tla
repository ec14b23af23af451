-------------------------------- MODULE KVMsg --------------------------------
(***************************************************************************)
(* Key-value messages and the tables they are stored in, clones/kvmsg.c.   *)
(* A message has a key, a sequence number, a uuid, a body that is empty or *)
(* not, and one property, ttl: "zero" for a permanent value, "relative"    *)
(* for a number of seconds as the client wrote it, "absolute" for a time   *)
(* of day in milliseconds, "lost" when the property is not there.          *)
(***************************************************************************)
EXTENDS Naturals

CONSTANTS Key, NoMsg

Ttl == {"zero", "relative", "absolute", "lost"}

\* kvmsg_new with the setters that follow it in agent_control_message.
KVUpdate(uuid, key, body, ttl) ==
    [key |-> key, seq |-> 0, uuid |-> uuid, body |-> body, ttl |-> ttl,
     cut |-> FALSE]

\* kvmsg_set_sequence
Numbered(m, n) == [m EXCEPT !.seq = n]

\* kvmsg_set_body with no bytes
Emptied(m) == [m EXCEPT !.body = FALSE]

\* kvmsg_dup: the copy counts its properties where their bytes are counted.
Dup(m) == [m EXCEPT !.cut = TRUE]

\* kvmsg_send and kvmsg_recv: of a copy's properties one byte is sent, in which
\* the receiver finds none.
OnWire(m) == IF m.cut THEN [m EXCEPT !.ttl = "lost", !.cut = FALSE] ELSE m

EmptyMap == [k \in Key |-> NoMsg]

\* kvmsg_store: a message without a body deletes its key.
Store(map, m) == [map EXCEPT ![m.key] = IF m.body THEN m ELSE NoMsg]

\* The same for one message after another: of each key the last one counts.
Stored(map, msgs) ==
    [k \in Key |->
       LET of == {i \in DOMAIN msgs : msgs[i].key = k} IN
         IF of = {} THEN map[k]
         ELSE LET last == CHOOSE i \in of : \A j \in of : j <= i IN
                IF msgs[last].body THEN msgs[last] ELSE NoMsg]

\* s_flush_single compares the property with the clock: a relative time is long
\* past, an absolute one may be, and a property that is not there leaves the
\* number that was on the stack.
MustExpire(m) == m # NoMsg /\ m.ttl = "relative"
MayExpire(m) == m # NoMsg /\ m.ttl \in {"relative", "absolute", "lost"}

=============================================================================
