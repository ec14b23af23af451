---------------------------- MODULE LoadBalancer ----------------------------
(***************************************************************************)
(* The load-balancing broker of load_balancer/lb_broker.c: client and      *)
(* worker threads with REQ sockets, and a main thread that keeps a queue   *)
(* of idle workers between two ROUTER sockets.  It reads the frontend only *)
(* while a worker is available, and ends when every client was answered.   *)
(* A multi-part message is sent and received whole, and a REQ socket has   *)
(* at most one message under way in each direction.                        *)
(* load_balancer_2/load_balancer.c is the same program with other names.   *)
(***************************************************************************)
EXTENDS Integers, Sequences, FiniteSets

CONSTANTS Client,   \* client threads, NBR_CLIENTS of them
          Worker,   \* worker threads, NBR_WORKERS of them
          READY,    \* a worker's first message
          Nothing   \* no message

ASSUME PoolAssumption ==
    /\ IsFiniteSet(Client) /\ Client # {}
    /\ IsFiniteSet(Worker) /\ Worker # {}
    /\ READY \notin Client
    /\ Nothing \notin Client \cup {READY}

NBR_CLIENTS == Cardinality(Client)
NBR_WORKERS == Cardinality(Worker)

VARIABLES clientPc,     \* "start", "waiting" for its reply, "done"
          workerPc,     \* "start", "idle" in s_recv, "busy" with a request
          job,          \* worker -> client whose request it works on
          fromClient,   \* clients whose request is at the frontend
          toClient,     \* clients whose reply is on its way
          fromWorker,   \* worker -> READY, a client it answers, or Nothing
          toWorker,     \* worker -> client whose request it is sent
          worker_queue,
          client_nbr,
          brokerPc,     \* "poll", "backend", "frontend", "end", or "exit"
                        \* once main has returned, which ends all threads
          revents       \* the last poll found a request at the frontend

vars == <<clientPc, workerPc, job, fromClient, toClient, fromWorker, toWorker,
          worker_queue, client_nbr, brokerPc, revents>>

threadVars == <<clientPc, workerPc, job>>

Init ==
    /\ clientPc = [c \in Client |-> "start"]
    /\ workerPc = [w \in Worker |-> "start"]
    /\ job = [w \in Worker |-> Nothing]
    /\ fromClient = {}
    /\ toClient = {}
    /\ fromWorker = [w \in Worker |-> Nothing]
    /\ toWorker = [w \in Worker |-> Nothing]
    /\ worker_queue = <<>>
    /\ client_nbr = NBR_CLIENTS
    /\ brokerPc = "poll"
    /\ revents = FALSE

TypeOK ==
    /\ clientPc \in [Client -> {"start", "waiting", "done"}]
    /\ workerPc \in [Worker -> {"start", "idle", "busy"}]
    /\ job \in [Worker -> Client \cup {Nothing}]
    /\ fromClient \subseteq Client
    /\ toClient \subseteq Client
    /\ fromWorker \in [Worker -> Client \cup {READY, Nothing}]
    /\ toWorker \in [Worker -> Client \cup {Nothing}]
    /\ worker_queue \in Seq(Worker)
    /\ client_nbr \in 0 .. NBR_CLIENTS
    /\ brokerPc \in {"poll", "backend", "frontend", "end", "exit"}
    /\ revents \in BOOLEAN

-----------------------------------------------------------------------------
\* client_task: one request, one reply.
ClientSend(c) ==
    /\ clientPc[c] = "start"
    /\ clientPc' = [clientPc EXCEPT ![c] = "waiting"]
    /\ fromClient' = fromClient \cup {c}
    /\ UNCHANGED <<workerPc, job, toClient, fromWorker, toWorker, worker_queue,
                   client_nbr, brokerPc, revents>>

ClientReceive(c) ==
    /\ clientPc[c] = "waiting"
    /\ c \in toClient
    /\ clientPc' = [clientPc EXCEPT ![c] = "done"]
    /\ toClient' = toClient \ {c}
    /\ UNCHANGED <<workerPc, job, fromClient, fromWorker, toWorker,
                   worker_queue, client_nbr, brokerPc, revents>>

\* worker_task: READY, then requests and their replies for ever.
WorkerReady(w) ==
    /\ workerPc[w] = "start"
    /\ workerPc' = [workerPc EXCEPT ![w] = "idle"]
    /\ fromWorker' = [fromWorker EXCEPT ![w] = READY]
    /\ UNCHANGED <<clientPc, job, fromClient, toClient, toWorker, worker_queue,
                   client_nbr, brokerPc, revents>>

WorkerReceive(w) ==
    /\ workerPc[w] = "idle"
    /\ toWorker[w] # Nothing
    /\ workerPc' = [workerPc EXCEPT ![w] = "busy"]
    /\ job' = [job EXCEPT ![w] = toWorker[w]]
    /\ toWorker' = [toWorker EXCEPT ![w] = Nothing]
    /\ UNCHANGED <<clientPc, fromClient, toClient, fromWorker, worker_queue,
                   client_nbr, brokerPc, revents>>

WorkerReply(w) ==
    /\ workerPc[w] = "busy"
    /\ workerPc' = [workerPc EXCEPT ![w] = "idle"]
    /\ fromWorker' = [fromWorker EXCEPT ![w] = job[w]]
    /\ job' = [job EXCEPT ![w] = Nothing]
    /\ UNCHANGED <<clientPc, fromClient, toClient, toWorker, worker_queue,
                   client_nbr, brokerPc, revents>>

-----------------------------------------------------------------------------
\* A variant with a mistake: the frontend is polled without regard to the
\* workers.
PollBoth ==
    /\ brokerPc = "poll"
    /\ \E back, front \in BOOLEAN :
         /\ back \/ front
         /\ back => \E w \in Worker : fromWorker[w] # Nothing
         /\ front => fromClient # {}
         /\ brokerPc' = IF back THEN "backend" ELSE "frontend"
         /\ revents' = front
    /\ UNCHANGED <<threadVars, fromClient, toClient, fromWorker, toWorker,
                   worker_queue, client_nbr>>

\* zmq_poll returns when a polled socket is readable; of messages that are
\* still under way it knows nothing.
Poll ==
    /\ brokerPc = "poll"
    /\ \E back, front \in BOOLEAN :
         /\ back \/ front
         /\ back => \E w \in Worker : fromWorker[w] # Nothing
         /\ front => worker_queue # <<>> /\ fromClient # {}
         /\ brokerPc' = IF back THEN "backend" ELSE "frontend"
         /\ revents' = front
    /\ UNCHANGED <<threadVars, fromClient, toClient, fromWorker, toWorker,
                   worker_queue, client_nbr>>

\* On to the frontend's handler, or to the next poll.
AfterBackend == brokerPc' = IF revents THEN "frontend" ELSE "poll"

\* A variant with a mistake: READY is counted like a reply.
BackendReadyCounted(w) ==
    /\ brokerPc = "backend"
    /\ fromWorker[w] = READY
    /\ fromWorker' = [fromWorker EXCEPT ![w] = Nothing]
    /\ worker_queue' = Append(worker_queue, w)
    /\ client_nbr' = client_nbr - 1
    /\ IF client_nbr' = 0 THEN brokerPc' = "end" ELSE AfterBackend
    /\ UNCHANGED <<threadVars, fromClient, toClient, toWorker, revents>>

BackendReady(w) ==
    /\ brokerPc = "backend"
    /\ fromWorker[w] = READY
    /\ fromWorker' = [fromWorker EXCEPT ![w] = Nothing]
    /\ worker_queue' = Append(worker_queue, w)
    /\ AfterBackend
    /\ UNCHANGED <<threadVars, fromClient, toClient, toWorker, client_nbr, revents>>

\* A variant with a mistake: the first frame of a reply is not compared with
\* READY.
BackendReplyUnchecked(w) ==
    /\ brokerPc = "backend"
    /\ fromWorker[w] # Nothing
    /\ fromWorker' = [fromWorker EXCEPT ![w] = Nothing]
    /\ worker_queue' = Append(worker_queue, w)
    /\ toClient' = toClient \cup {fromWorker[w]}
    /\ client_nbr' = client_nbr - 1
    /\ IF client_nbr' = 0 THEN brokerPc' = "end" ELSE AfterBackend
    /\ UNCHANGED <<threadVars, fromClient, toWorker, revents>>

\* A variant with a mistake: the count is compared before it is decremented.
BackendReplyLate(w) ==
    /\ brokerPc = "backend"
    /\ fromWorker[w] \in Client
    /\ fromWorker' = [fromWorker EXCEPT ![w] = Nothing]
    /\ worker_queue' = Append(worker_queue, w)
    /\ toClient' = toClient \cup {fromWorker[w]}
    /\ client_nbr' = client_nbr - 1
    /\ IF client_nbr = 0 THEN brokerPc' = "end" ELSE AfterBackend
    /\ UNCHANGED <<threadVars, fromClient, toWorker, revents>>

\* A reply; after the last one the main loop ends.
BackendReply(w) ==
    /\ brokerPc = "backend"
    /\ fromWorker[w] \in Client
    /\ fromWorker' = [fromWorker EXCEPT ![w] = Nothing]
    /\ worker_queue' = Append(worker_queue, w)
    /\ toClient' = toClient \cup {fromWorker[w]}
    /\ client_nbr' = client_nbr - 1
    /\ IF client_nbr' = 0 THEN brokerPc' = "end" ELSE AfterBackend
    /\ UNCHANGED <<threadVars, fromClient, toWorker, revents>>

\* A variant with a mistake: the worker is not dequeued.
FrontendKeepsWorker(c) ==
    /\ brokerPc = "frontend"
    /\ c \in fromClient
    /\ fromClient' = fromClient \ {c}
    /\ toWorker' = [toWorker EXCEPT ![Head(worker_queue)] = c]
    /\ brokerPc' = "poll"
    /\ UNCHANGED <<threadVars, toClient, fromWorker, worker_queue, client_nbr, revents>>

\* A request goes to the worker that has waited longest.
Frontend(c) ==
    /\ brokerPc = "frontend"
    /\ c \in fromClient
    /\ fromClient' = fromClient \ {c}
    /\ toWorker' = [toWorker EXCEPT ![Head(worker_queue)] = c]
    /\ worker_queue' = Tail(worker_queue)
    /\ brokerPc' = "poll"
    /\ UNCHANGED <<threadVars, toClient, fromWorker, client_nbr, revents>>

\* main closes the sockets, which sends what they hold, and returns; a client
\* that has not read its reply yet never will.
Exit ==
    /\ brokerPc = "end"
    /\ brokerPc' = "exit"
    /\ UNCHANGED <<threadVars, fromClient, toClient, fromWorker, toWorker,
                   worker_queue, client_nbr, revents>>

Broker ==
    \/ Poll
    \/ Exit
    \/ \E w \in Worker : BackendReady(w) \/ BackendReply(w)
    \/ \E c \in Client : Frontend(c)

ClientThread(c) ==
    brokerPc # "exit" /\ (ClientSend(c) \/ ClientReceive(c))

WorkerThread(w) ==
    brokerPc # "exit" /\ (WorkerReady(w) \/ WorkerReceive(w) \/ WorkerReply(w))

Next ==
    \/ Broker
    \/ \E c \in Client : ClientThread(c)
    \/ \E w \in Worker : WorkerThread(w)

Spec == Init /\ [][Next]_vars

\* The threads and the broker run, and zmq_poll notices a message in time.
FairSpec ==
    /\ Spec
    /\ WF_vars(Broker)
    /\ \A c \in Client : WF_vars(ClientThread(c))
    /\ \A w \in Worker : WF_vars(WorkerThread(w))

-----------------------------------------------------------------------------
InQueue(w) == \E k \in 1 .. Len(worker_queue) : worker_queue[k] = w

\* A worker in the queue waits in s_recv, was sent nothing it has not taken
\* and sent nothing that was not read; no worker is in the queue twice, which
\* would hand it a second request while it works on the first.
QueueSound ==
    /\ \A w \in Worker : InQueue(w) =>
          workerPc[w] = "idle" /\ fromWorker[w] = Nothing /\ toWorker[w] = Nothing
    /\ \A j, k \in 1 .. Len(worker_queue) :
          j # k => worker_queue[j] # worker_queue[k]

\* The assertion of main when a worker's message is read: its place in the
\* queue is free, and so the array is never overrun.
RoomInQueue ==
    brokerPc = "backend" /\ (\E w \in Worker : fromWorker[w] # Nothing)
    => Len(worker_queue) < NBR_WORKERS

\* When the handler of the frontend runs there is a worker to take from the
\* queue, although the poll that found the request is past.
WorkerAvailable == brokerPc = "frontend" => worker_queue # <<>>

\* Where the request of client c, or the reply to it, can be.
Holders(c) == {w \in Worker : c \in {toWorker[w], job[w], fromWorker[w]}}

\* The request of a waiting client is in one place: at the frontend, with one
\* worker, or coming back.  It is never lost and never handed out twice.
OneHolder ==
    \A c \in Client :
        Cardinality(Holders(c)) + (IF c \in fromClient THEN 1 ELSE 0)
                                + (IF c \in toClient THEN 1 ELSE 0)
        = IF clientPc[c] = "waiting" THEN 1 ELSE 0

\* The main loop ends when every client was sent its reply, not before.
EndsAnswered ==
    brokerPc \in {"end", "exit"} =>
        \A c \in Client : clientPc[c] = "done" \/ c \in toClient

\* And it does end, whatever the order of requests, READYs and replies.
Serves == <>[](brokerPc = "exit")

=============================================================================
