------------------------------- MODULE Parted -------------------------------
(***************************************************************************)
(* The three programs of DistributedComputing/Parted: the broker of        *)
(* mainThread.c (mainThead.c is the same program), and the clients and     *)
(* workers that were split from it.                                        *)
(* They format a null pointer for the name of their broker, which glibc    *)
(* prints as "(null)": the broker that they find is the one of that name.  *)
(* Its states reach no other broker, since it never publishes its own.     *)
(* No message of a worker, READY or a reply, is ever dropped by the broker *)
(* or delivered: memcpy stands where a comparison was meant, writes one    *)
(* byte over the frame it should compare and is never 0, so that the frame *)
(* names no client of localfe, and the socket drops the message.           *)
(***************************************************************************)
EXTENDS Integers, Sequences, FiniteSets

CONSTANTS Requester,    \* clients
          Server        \* workers

VARIABLES requester,    \* per client, "sleeps", "waits" or "exits"
          localfe,      \* requests at the broker
          server,       \* per worker, "starts", "waits" or "works"
          handed,       \* requests in the workers' sockets, by worker
          localbe,      \* messages of workers at the broker, by worker
          workers,      \* the broker's list
          local_capacity,
          brokerPc,     \* "primary", "secondary" or "aborted"
          monitor       \* statistics at the monitor socket

partedVars == <<requester, localfe, server, handed, localbe, workers, local_capacity, brokerPc, monitor>>

\* The broker binds and connects its sockets.
PartedStart ==
    /\ localfe = <<>> /\ localbe = <<>> /\ workers = <<>>
    /\ local_capacity = 0
    /\ brokerPc = "primary"
    /\ monitor = 0

PartedInit ==
    /\ requester = [c \in Requester |-> "sleeps"]
    /\ server = [w \in Server |-> "starts"]
    /\ handed = [w \in Server |-> <<>>]
    /\ PartedStart

\* client_task: the first request of its burst, for which no reply comes.
BurstRequest(c) ==
    /\ requester[c] = "sleeps"
    /\ requester' = [requester EXCEPT ![c] = "waits"]
    /\ localfe' = Append(localfe, c)
    /\ UNCHANGED <<server, handed, localbe, workers, local_capacity, brokerPc, monitor>>

\* After ten seconds it complains and exits.
LostTask(c) ==
    /\ requester[c] = "waits"
    /\ requester' = [requester EXCEPT ![c] = "exits"]
    /\ monitor' = monitor + 1
    /\ UNCHANGED <<localfe, server, handed, localbe, workers, local_capacity, brokerPc>>

\* worker_task: READY, and then each request as it came.
ServerSend(w) ==
    /\ server[w] # "waits"
    /\ localbe' = Append(localbe, w)
    /\ server' = [server EXCEPT ![w] = "waits"]
    /\ UNCHANGED <<requester, localfe, handed, workers, local_capacity, brokerPc, monitor>>

ServerRecv(w) ==
    /\ server[w] = "waits" /\ handed[w] # <<>>
    /\ server' = [server EXCEPT ![w] = "works"]
    /\ handed' = [handed EXCEPT ![w] = Tail(@)]
    /\ UNCHANGED <<requester, localfe, localbe, workers, local_capacity, brokerPc, monitor>>

\* The first poll has a timeout only with a worker; a message's worker goes to the list,
\* the message is lost, and the monitor is read.
PartedPrimary ==
    /\ brokerPc = "primary"
    /\ localbe # <<>> \/ local_capacity > 0 \/ monitor > 0
    /\ IF localbe # <<>>
       THEN /\ workers' = Append(workers, Head(localbe))
            /\ local_capacity' = local_capacity + 1
            /\ localbe' = Tail(localbe)
       ELSE UNCHANGED <<workers, local_capacity, localbe>>
    /\ monitor' = IF monitor > 0 THEN monitor - 1 ELSE monitor
    /\ brokerPc' = IF local_capacity' > 0 THEN "secondary" ELSE "primary"
    /\ UNCHANGED <<requester, localfe, server, handed>>

\* Plausible bug: the worker stays in the list.
PartedSecondaryListed ==
    /\ brokerPc = "secondary" /\ localfe # <<>>
    /\ handed' = [handed EXCEPT ![Head(workers)] = Append(@, Head(localfe))]
    /\ local_capacity' = local_capacity - 1
    /\ localfe' = Tail(localfe)
    /\ brokerPc' = IF local_capacity > 1 THEN "secondary" ELSE "primary"
    /\ UNCHANGED <<requester, server, localbe, workers, monitor>>

\* A client's request goes to the worker that was listed first.
PartedSecondary ==
    /\ brokerPc = "secondary" /\ localfe # <<>>
    /\ handed' = [handed EXCEPT ![Head(workers)] = Append(@, Head(localfe))]
    /\ workers' = Tail(workers)
    /\ local_capacity' = local_capacity - 1
    /\ localfe' = Tail(localfe)
    /\ brokerPc' = IF local_capacity > 1 THEN "secondary" ELSE "primary"
    /\ UNCHANGED <<requester, server, localbe, monitor>>

\* A poll that finds nothing returns 0, and the assertion wants more.
AssertFails ==
    /\ brokerPc = "secondary" /\ localfe = <<>>
    /\ brokerPc' = "aborted"
    /\ UNCHANGED <<requester, localfe, server, handed, localbe, workers, local_capacity, monitor>>

PartedBroker == PartedPrimary \/ PartedSecondary \/ AssertFails

PartedNext ==
    \/ \E c \in Requester : BurstRequest(c) \/ LostTask(c)
    \/ \E w \in Server : ServerSend(w) \/ ServerRecv(w)
    \/ PartedBroker

----------------------------------------------------------------------------
(* Properties. *)

\* Where a worker is: in the list, in the broker's socket, at a request, or before READY.
PlacesOf(w) ==
    Cardinality({i \in DOMAIN workers : workers[i] = w})
    + Cardinality({i \in DOMAIN localbe : localbe[i] = w})
    + Len(handed[w]) + (IF server[w] = "waits" THEN 0 ELSE 1)

\* The capacity is the number of workers in the list, and a worker is in one place: it is
\* never given a second request, though clients have left and READY is routed like a
\* reply (mainThread.c:107-148, 171-211).
PartedListed ==
    /\ local_capacity = Len(workers)
    /\ \A w \in Server : PlacesOf(w) = 1
    /\ brokerPc = "secondary" => workers # <<>>

=============================================================================
