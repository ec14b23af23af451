---------------------------- MODULE AsyncClient ----------------------------
(***************************************************************************)
(* The asynchronous Majordomo client, MMI/mdcliapi2.c and its program      *)
(* mdclient2.c: it sends all its requests to echo before it reads the      *)
(* first reply, and ends at the first reply that does not come in time.    *)
(* A DEALER blocks the sender when its pipe is full.  The broker's ROUTER  *)
(* does not: a reply for a client that does not read is dropped.  The      *)
(* broker and its workers answer each request once, in any order, or lose  *)
(* it with the worker that has it.                                         *)
(***************************************************************************)
EXTENDS Integers, Sequences, FiniteSets

CONSTANTS Echoes,       \* requests of the program, 100000 in the code
          PipeRoom      \* messages that fit between two sockets, one way

ASSUME AsyncAssumption == Echoes \in Nat /\ PipeRoom \in Nat \ {0}

Echo == 1 .. Echoes

VARIABLES outgoing,     \* requests on their way to the broker
          atWork,       \* requests in the broker's queue or at a worker
          incoming,     \* replies on their way to the client
          crowded,      \* requests whose reply found no room and was dropped
          perished,     \* requests that went with their worker
          sentCount,    \* count of the first loop
          replied,      \* what the second loop has read
          client2       \* "sends", "reads", "gave-up" or "done"

asyncVars == <<outgoing, atWork, incoming, crowded, perished, sentCount, replied, client2>>

AsyncInit ==
    /\ outgoing = <<>> /\ atWork = {} /\ incoming = <<>>
    /\ crowded = {} /\ perished = {}
    /\ sentCount = 0 /\ replied = <<>>
    /\ client2 = "sends"

----------------------------------------------------------------------------
(* The broker and its workers. *)

BrokerReads ==
    /\ outgoing # <<>>
    /\ atWork' = atWork \cup {Head(outgoing)}
    /\ outgoing' = Tail(outgoing)
    /\ UNCHANGED <<incoming, crowded, perished, sentCount, replied, client2>>

EchoAnswered(n) ==
    /\ n \in atWork
    /\ atWork' = atWork \ {n}
    /\ IF Len(incoming) < PipeRoom
       THEN incoming' = Append(incoming, n) /\ UNCHANGED crowded
       ELSE crowded' = crowded \cup {n} /\ UNCHANGED incoming
    /\ UNCHANGED <<outgoing, perished, sentCount, replied, client2>>

EchoPerishes(n) ==
    /\ n \in atWork
    /\ atWork' = atWork \ {n}
    /\ perished' = perished \cup {n}
    /\ UNCHANGED <<outgoing, incoming, crowded, sentCount, replied, client2>>

----------------------------------------------------------------------------
(* The client. *)

\* mdcli_send, in the first loop; it blocks while the pipe is full.
AsyncSend ==
    /\ client2 = "sends" /\ sentCount < Echoes
    /\ Len(outgoing) < PipeRoom
    /\ sentCount' = sentCount + 1
    /\ outgoing' = Append(outgoing, sentCount')
    /\ UNCHANGED <<atWork, incoming, crowded, perished, replied, client2>>

SentAll ==
    /\ client2 = "sends" /\ sentCount = Echoes
    /\ client2' = "reads"
    /\ UNCHANGED <<outgoing, atWork, incoming, crowded, perished, sentCount, replied>>

\* mdcli_recv: any reply will do.
AsyncReceive ==
    /\ client2 = "reads" /\ Len(replied) < Echoes /\ incoming # <<>>
    /\ replied' = Append(replied, Head(incoming))
    /\ incoming' = Tail(incoming)
    /\ UNCHANGED <<outgoing, atWork, crowded, perished, sentCount, client2>>

\* Its poll ends without a reply, and the second loop with it.
AsyncTimeout ==
    /\ client2 = "reads" /\ Len(replied) < Echoes /\ incoming = <<>>
    /\ client2' = "gave-up"
    /\ UNCHANGED <<outgoing, atWork, incoming, crowded, perished, sentCount, replied>>

ReadAll ==
    /\ client2 = "reads" /\ Len(replied) = Echoes
    /\ client2' = "done"
    /\ UNCHANGED <<outgoing, atWork, incoming, crowded, perished, sentCount, replied>>

AsyncProgram == AsyncSend \/ SentAll \/ AsyncReceive \/ AsyncTimeout \/ ReadAll

AsyncNext == AsyncProgram \/ BrokerReads \/ \E n \in Echo : EchoAnswered(n) \/ EchoPerishes(n)

----------------------------------------------------------------------------
(* Properties. *)

\* The ends of the requests that were sent: each is in one place.
AsyncPlaces(n) ==
    LET in(q) == Cardinality({k \in DOMAIN q : q[k] = n})
        of(S) == IF n \in S THEN 1 ELSE 0
    IN  in(outgoing) + in(incoming) + in(replied) + of(atWork) + of(crowded) + of(perished)

\* The replies that the client counts, without a look at what they answer, are of as many
\* requests, so that its count is short only by a dead worker, by a reply that is still to
\* come, or by one that was dropped.  That happens only to a program with more requests
\* than the pipe from the broker has room, and after the replies that it did not read had
\* taken all the room (mdclient2.c:13-25, mdcliapi2.c:113-154).
AsyncSound ==
    /\ \A n \in Echo : AsyncPlaces(n) = IF n <= sentCount THEN 1 ELSE 0
    /\ crowded # {} => Echoes > PipeRoom /\ Len(replied) + Len(incoming) >= PipeRoom

\* The program has not come to its end.
Unended == IF client2 \in {"sends", "reads"} THEN {"client"} ELSE {}

=============================================================================
