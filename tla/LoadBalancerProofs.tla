------------------------- MODULE LoadBalancerProofs -------------------------
(***************************************************************************)
(* Theorems about LoadBalancer for every number of clients and workers:    *)
(* the assertion on the length of the worker queue, the soundness of the   *)
(* queue, that no request is lost or handed out twice, and that the broker *)
(* ends only when every client was answered.                               *)
(***************************************************************************)
EXTENDS LoadBalancer, FiniteSetTheorems, TLAPS

\* TypeOK without the counter, whose range is a consequence.
Shape ==
    /\ clientPc \in [Client -> {"start", "waiting", "done"}]
    /\ workerPc \in [Worker -> {"start", "idle", "busy"}]
    /\ job \in [Worker -> Client \cup {Nothing}]
    /\ fromClient \subseteq Client
    /\ toClient \subseteq Client
    /\ fromWorker \in [Worker -> Client \cup {READY, Nothing}]
    /\ toWorker \in [Worker -> Client \cup {Nothing}]
    /\ worker_queue \in Seq(Worker)
    /\ brokerPc \in {"poll", "backend", "frontend", "end", "exit"}
    /\ revents \in BOOLEAN

\* A worker is in one phase of its exchange with the broker at a time.
WorkerPhases ==
    \A w \in Worker :
        /\ workerPc[w] = "busy" <=> job[w] # Nothing
        /\ workerPc[w] # "idle" => fromWorker[w] = Nothing /\ toWorker[w] = Nothing
        /\ fromWorker[w] = Nothing \/ toWorker[w] = Nothing

\* The request found by the last poll has a worker to go to.
FrontWorkers ==
    brokerPc = "frontend" \/ (brokerPc = "backend" /\ revents)
    => worker_queue # <<>>

Holds(w, c) == c \in {toWorker[w], job[w], fromWorker[w]}

\* OneHolder without cardinalities.
RequestPlaces ==
    \A c \in Client :
        /\ c \in fromClient => clientPc[c] = "waiting" /\ c \notin toClient
        /\ c \in toClient => clientPc[c] = "waiting"
        /\ \A w \in Worker : Holds(w, c) =>
              /\ clientPc[c] = "waiting" /\ c \notin fromClient \cup toClient
              /\ \A v \in Worker : Holds(v, c) => v = w
        /\ clientPc[c] = "waiting" =>
              c \in fromClient \cup toClient \/ \E w \in Worker : Holds(w, c)

\* The clients main still waits for, and its count of them.
Unanswered == {c \in Client : clientPc[c] # "done" /\ c \notin toClient}
Counted ==
    /\ client_nbr = Cardinality(Unanswered)
    /\ brokerPc \in {"end", "exit"} => client_nbr = 0

IInv ==
    /\ Shape
    /\ QueueSound
    /\ WorkerPhases
    /\ FrontWorkers
    /\ RequestPlaces
    /\ Counted

-----------------------------------------------------------------------------
LEMMA InitIInv == Init => IInv
<1> SUFFICES ASSUME Init PROVE IInv
  OBVIOUS
<1>1. Shape
  <2>1. worker_queue \in Seq(Worker)
    BY DEF Init
  <2>2. revents \in BOOLEAN
    BY DEF Init
  <2> QED BY <2>1, <2>2 DEF Init, Shape
<1>2. QueueSound /\ FrontWorkers
  BY DEF Init, QueueSound, InQueue, FrontWorkers
<1>3. WorkerPhases /\ RequestPlaces
  BY PoolAssumption DEF Init, WorkerPhases, RequestPlaces, Holds
<1>4. Unanswered = Client
  BY DEF Init, Unanswered
<1>5. Counted
  BY <1>4 DEF Init, Counted, NBR_CLIENTS
<1> QED BY <1>1, <1>2, <1>3, <1>5 DEF IInv

\* The threads: they touch neither the queue nor the count.
LEMMA ThreadStep ==
    ASSUME IInv,
           \/ \E c \in Client : ClientThread(c)
           \/ \E w \in Worker : WorkerThread(w)
    PROVE  IInv'
<1>1. ASSUME NEW c \in Client, ClientSend(c) PROVE IInv'
  <2>1. Shape'
    BY <1>1 DEF ClientSend, IInv, Shape
  <2>2. QueueSound' /\ WorkerPhases' /\ FrontWorkers'
    BY <1>1 DEF ClientSend, IInv, QueueSound, InQueue, WorkerPhases, FrontWorkers
  <2>3. RequestPlaces'
    BY <1>1 DEF ClientSend, IInv, Shape, RequestPlaces, Holds
  <2>4. Unanswered' = Unanswered
    BY <1>1 DEF ClientSend, IInv, Shape, Unanswered
  <2>5. Counted'
    BY <1>1, <2>4 DEF ClientSend, IInv, Counted
  <2> QED BY <2>1, <2>2, <2>3, <2>5 DEF IInv
<1>2. ASSUME NEW c \in Client, ClientReceive(c) PROVE IInv'
  <2>1. Shape'
    BY <1>2 DEF ClientReceive, IInv, Shape
  <2>2. QueueSound' /\ WorkerPhases' /\ FrontWorkers'
    BY <1>2 DEF ClientReceive, IInv, QueueSound, InQueue, WorkerPhases, FrontWorkers
  <2>3. RequestPlaces'
    BY <1>2 DEF ClientReceive, IInv, Shape, RequestPlaces, Holds
  <2>4. Unanswered' = Unanswered
    BY <1>2 DEF ClientReceive, IInv, Shape, Unanswered
  <2>5. Counted'
    BY <1>2, <2>4 DEF ClientReceive, IInv, Counted
  <2> QED BY <2>1, <2>2, <2>3, <2>5 DEF IInv
<1>3. ASSUME NEW w \in Worker, WorkerThread(w) PROVE IInv'
  <2>1. Unanswered' = Unanswered /\ UNCHANGED <<client_nbr, brokerPc, revents, worker_queue>>
    BY <1>3 DEF WorkerThread, WorkerReady, WorkerReceive, WorkerReply, Unanswered
  <2>2. Counted' /\ FrontWorkers'
    BY <2>1 DEF IInv, Counted, FrontWorkers
  <2>3. CASE WorkerReady(w)
    <3>1. Shape' /\ WorkerPhases'
      BY <2>3, PoolAssumption DEF WorkerReady, IInv, Shape, WorkerPhases
    <3>2. QueueSound'
      BY <2>3 DEF WorkerReady, IInv, Shape, QueueSound, InQueue
    <3>3. \A v \in Worker, c \in Client : Holds(v, c)' <=> Holds(v, c)
      BY <2>3, PoolAssumption DEF WorkerReady, IInv, Shape, WorkerPhases, Holds
    <3>4. RequestPlaces'
      BY <2>3, <3>3 DEF WorkerReady, IInv, RequestPlaces
    <3> QED BY <2>2, <3>1, <3>2, <3>4 DEF IInv
  <2>4. CASE WorkerReceive(w)
    <3>1. Shape' /\ WorkerPhases'
      BY <2>4, PoolAssumption DEF WorkerReceive, IInv, Shape, WorkerPhases
    <3>2. QueueSound'
      BY <2>4 DEF WorkerReceive, IInv, Shape, QueueSound, InQueue
    <3>3. \A v \in Worker, c \in Client : Holds(v, c)' <=> Holds(v, c)
      BY <2>4, PoolAssumption DEF WorkerReceive, IInv, Shape, WorkerPhases, Holds
    <3>4. RequestPlaces'
      BY <2>4, <3>3 DEF WorkerReceive, IInv, RequestPlaces
    <3> QED BY <2>2, <3>1, <3>2, <3>4 DEF IInv
  <2>5. CASE WorkerReply(w)
    <3>1. Shape' /\ WorkerPhases'
      BY <2>5, PoolAssumption DEF WorkerReply, IInv, Shape, WorkerPhases
    <3>2. QueueSound'
      BY <2>5 DEF WorkerReply, IInv, Shape, QueueSound, InQueue
    <3>3. \A v \in Worker, c \in Client : Holds(v, c)' <=> Holds(v, c)
      BY <2>5, PoolAssumption DEF WorkerReply, IInv, Shape, WorkerPhases, Holds
    <3>4. RequestPlaces'
      BY <2>5, <3>3 DEF WorkerReply, IInv, RequestPlaces
    <3> QED BY <2>2, <3>1, <3>2, <3>4 DEF IInv
  <2> QED BY <1>3, <2>3, <2>4, <2>5 DEF WorkerThread
<1> QED BY <1>1, <1>2, <1>3 DEF ClientThread

\* A worker that has sent something is not in the queue, and has its place there.
LEMMA RoomForSender ==
    ASSUME IInv, NEW w \in Worker, fromWorker[w] # Nothing
    PROVE  ~InQueue(w) /\ Len(worker_queue) < NBR_WORKERS
<1>1. ~InQueue(w)
  BY DEF IInv, QueueSound
<1>2. IsFiniteSet(Worker \ {w}) /\ Cardinality(Worker \ {w}) = NBR_WORKERS - 1
  BY FS_RemoveElement, PoolAssumption DEF NBR_WORKERS
<1>3. NBR_WORKERS \in Nat
  BY FS_CardinalityType, PoolAssumption DEF NBR_WORKERS
<1>4. Len(worker_queue) \in Nat
  BY DEF IInv, Shape
<1>5. worker_queue \in [1 .. Len(worker_queue) -> Worker \ {w}]
  BY <1>1 DEF IInv, Shape, InQueue
<1>6. /\ IsFiniteSet(1 .. Len(worker_queue))
      /\ Cardinality(1 .. Len(worker_queue)) = Len(worker_queue)
  <2> DEFINE n == Len(worker_queue)
  <2>1. 1 \in Int /\ n \in Int
    BY <1>4
  <2>2. /\ IsFiniteSet(1 .. n)
        /\ Cardinality(1 .. n) = IF 1 > n THEN 0 ELSE n - 1 + 1
    BY ONLY <2>1, FS_Interval, Zenon
  <2> QED BY <1>4, <2>2
<1>7. ~(NBR_WORKERS - 1 < Len(worker_queue))
  <2> SUFFICES ASSUME NBR_WORKERS - 1 < Len(worker_queue) PROVE FALSE
    OBVIOUS
  <2>1. \E j, k \in 1 .. Len(worker_queue) :
          j # k /\ worker_queue[j] = worker_queue[k]
    BY <1>2, <1>5, <1>6, FS_PigeonHole
  <2> QED BY <2>1 DEF IInv, QueueSound
<1> QED BY <1>1, <1>3, <1>4, <1>7

\* A worker's message was read: it joins the queue, behind the others.
LEMMA Enqueue ==
    ASSUME IInv, NEW w \in Worker, fromWorker[w] # Nothing,
           fromWorker' = [fromWorker EXCEPT ![w] = Nothing],
           worker_queue' = Append(worker_queue, w),
           UNCHANGED <<workerPc, job, toWorker>>
    PROVE  /\ QueueSound' /\ WorkerPhases'
           /\ worker_queue' \in Seq(Worker) /\ worker_queue' # <<>>
<1>1. worker_queue \in Seq(Worker) /\ Len(worker_queue) \in Nat
  BY DEF IInv, Shape
<1>2. WorkerPhases'
  BY PoolAssumption DEF IInv, Shape, WorkerPhases
<1>3. workerPc[w] = "idle" /\ toWorker[w] = Nothing /\ ~InQueue(w)
  BY RoomForSender DEF IInv, Shape, WorkerPhases
<1>4. /\ worker_queue' \in Seq(Worker)
      /\ Len(worker_queue') = Len(worker_queue) + 1
      /\ worker_queue'[Len(worker_queue) + 1] = w
      /\ \A k \in 1 .. Len(worker_queue) : worker_queue'[k] = worker_queue[k]
  BY <1>1
<1>5. \A v \in Worker : InQueue(v)' => InQueue(v) \/ v = w
  BY <1>1, <1>4 DEF InQueue
<1>6. QueueSound'
  <2>1. \A v \in Worker : InQueue(v)' =>
          (workerPc[v] = "idle" /\ fromWorker[v] = Nothing /\ toWorker[v] = Nothing)'
    BY <1>3, <1>5 DEF IInv, Shape, QueueSound
  <2>2. \A j, k \in 1 .. Len(worker_queue') :
          j # k => worker_queue'[j] # worker_queue'[k]
    BY <1>1, <1>3, <1>4 DEF IInv, QueueSound, InQueue
  <2> QED BY <2>1, <2>2 DEF QueueSound
<1>7. worker_queue' # <<>>
  BY <1>1
<1> QED BY <1>2, <1>4, <1>6, <1>7

LEMMA BrokerStep ==
    ASSUME IInv, Broker
    PROVE  IInv'
<1>1. CASE Poll
  <2>1. UNCHANGED <<threadVars, fromClient, toClient, fromWorker, toWorker,
                    worker_queue, client_nbr>>
    BY <1>1 DEF Poll
  <2>2. PICK back \in BOOLEAN, front \in BOOLEAN :
          /\ front => worker_queue # <<>>
          /\ back \/ front
          /\ brokerPc' = IF back THEN "backend" ELSE "frontend"
          /\ revents' = front
    BY <1>1 DEF Poll
  <2>3. Shape'
    BY <2>1, <2>2 DEF threadVars, IInv, Shape
  <2>4. QueueSound' /\ WorkerPhases' /\ RequestPlaces'
    BY <2>1 DEF threadVars, IInv, QueueSound, InQueue, WorkerPhases,
                RequestPlaces, Holds
  <2>5. FrontWorkers'
    BY <2>1, <2>2 DEF FrontWorkers
  <2>6. Counted'
    BY <2>1, <2>2 DEF threadVars, IInv, Counted, Unanswered
  <2> QED BY <2>3, <2>4, <2>5, <2>6 DEF IInv
<1>2. ASSUME NEW w \in Worker, BackendReady(w) PROVE IInv'
  <2>1. fromWorker[w] # Nothing /\ brokerPc' \in {"frontend", "poll"}
    BY <1>2, PoolAssumption DEF BackendReady, AfterBackend
  <2>2. /\ QueueSound' /\ WorkerPhases'
        /\ worker_queue' \in Seq(Worker) /\ worker_queue' # <<>>
    BY <1>2, <2>1, Enqueue DEF BackendReady, threadVars
  <2>3. Shape'
    BY <1>2, <2>1, <2>2 DEF BackendReady, threadVars, IInv, Shape
  <2>4. FrontWorkers'
    BY <2>2 DEF FrontWorkers
  <2>5. \A v \in Worker, c \in Client : Holds(v, c)' <=> Holds(v, c)
    BY <1>2, PoolAssumption DEF BackendReady, threadVars, IInv, Shape, Holds
  <2>6. RequestPlaces'
    BY <1>2, <2>5 DEF BackendReady, threadVars, IInv, RequestPlaces
  <2>7. Counted'
    BY <1>2, <2>1 DEF BackendReady, threadVars, IInv, Counted, Unanswered
  <2> QED BY <2>2, <2>3, <2>4, <2>6, <2>7 DEF IInv
<1>3. ASSUME NEW w \in Worker, BackendReply(w) PROVE IInv'
  <2> DEFINE c == fromWorker[w]
  <2>1. c \in Client /\ c # Nothing /\ brokerPc' \in {"frontend", "poll", "end"}
    BY <1>3, PoolAssumption DEF BackendReply, AfterBackend
  <2>2. /\ QueueSound' /\ WorkerPhases'
        /\ worker_queue' \in Seq(Worker) /\ worker_queue' # <<>>
    BY <1>3, <2>1, Enqueue DEF BackendReply, threadVars
  <2>3. Shape'
    BY <1>3, <2>1, <2>2 DEF BackendReply, threadVars, IInv, Shape
  <2>4. FrontWorkers'
    BY <2>2 DEF FrontWorkers
  <2>5. Holds(w, c)
    BY DEF Holds
  <2>6. \A v \in Worker, d \in Client : Holds(v, d)' <=> Holds(v, d) /\ d # c
    <3>1. toWorker[w] # c /\ job[w] # c
      BY <2>1, PoolAssumption DEF IInv, Shape, WorkerPhases
    <3>2. \A v \in Worker : Holds(v, c) => v = w
      BY <2>1, <2>5 DEF IInv, RequestPlaces
    <3> QED BY <1>3, <2>1, <3>1, <3>2, PoolAssumption
            DEF BackendReply, threadVars, IInv, Shape, Holds
  <2>7. clientPc[c] = "waiting" /\ c \notin fromClient \cup toClient
    BY <2>1, <2>5 DEF IInv, RequestPlaces
  <2>8. toClient' = toClient \cup {c} /\ UNCHANGED <<clientPc, fromClient>>
    BY <1>3 DEF BackendReply, threadVars
  <2>9. RequestPlaces'
    BY <2>6, <2>7, <2>8 DEF IInv, RequestPlaces
  <2>10. Unanswered' = Unanswered \ {c} /\ c \in Unanswered
    BY <2>1, <2>7, <2>8 DEF Unanswered
  <2>11. IsFiniteSet(Unanswered)
    BY FS_Subset, PoolAssumption DEF Unanswered
  <2>12. Cardinality(Unanswered') = Cardinality(Unanswered) - 1
    BY <2>10, <2>11, FS_RemoveElement
  <2>13. client_nbr' = client_nbr - 1 /\ (brokerPc' \in {"end", "exit"} => client_nbr' = 0)
    BY <1>3 DEF BackendReply, AfterBackend
  <2>14. Counted'
    BY <2>12, <2>13 DEF IInv, Counted
  <2> QED BY <2>2, <2>3, <2>4, <2>9, <2>14 DEF IInv
<1>4. ASSUME NEW c \in Client, Frontend(c) PROVE IInv'
  <2> DEFINE w == Head(worker_queue)
  <2>1. worker_queue \in Seq(Worker) /\ worker_queue # <<>>
    BY <1>4 DEF Frontend, IInv, Shape, FrontWorkers
  <2>2. /\ w = worker_queue[1] /\ w \in Worker
        /\ Len(worker_queue) \in Nat /\ Len(worker_queue) >= 1
        /\ Tail(worker_queue) \in Seq(Worker)
        /\ Len(Tail(worker_queue)) = Len(worker_queue) - 1
        /\ \A k \in 1 .. Len(worker_queue) - 1 :
              Tail(worker_queue)[k] = worker_queue[k + 1]
    BY <2>1
  <2>3. InQueue(w)
    BY <2>2 DEF InQueue
  <2>4. workerPc[w] = "idle" /\ fromWorker[w] = Nothing /\ toWorker[w] = Nothing
    BY <2>2, <2>3 DEF IInv, QueueSound
  <2>5. /\ worker_queue' = Tail(worker_queue)
        /\ toWorker' = [toWorker EXCEPT ![w] = c]
        /\ fromClient' = fromClient \ {c} /\ c \in fromClient
        /\ brokerPc = "frontend" /\ brokerPc' = "poll"
        /\ UNCHANGED <<clientPc, workerPc, job, toClient, fromWorker, client_nbr, revents>>
    BY <1>4 DEF Frontend, threadVars
  <2>6. Shape'
    BY <2>2, <2>5 DEF IInv, Shape
  <2>7. WorkerPhases'
    BY <2>2, <2>4, <2>5 DEF IInv, Shape, WorkerPhases
  <2>8. \A v \in Worker : InQueue(v)' => InQueue(v) /\ v # w
    BY <2>2, <2>5 DEF IInv, QueueSound, InQueue
  <2>9. QueueSound'
    <3>1. \A v \in Worker : InQueue(v)' =>
            (workerPc[v] = "idle" /\ fromWorker[v] = Nothing /\ toWorker[v] = Nothing)'
      BY <2>5, <2>8 DEF IInv, Shape, QueueSound
    <3>2. \A j, k \in 1 .. Len(worker_queue') :
            j # k => worker_queue'[j] # worker_queue'[k]
      BY <2>2, <2>5 DEF IInv, QueueSound
    <3> QED BY <3>1, <3>2 DEF QueueSound
  <2>10. FrontWorkers'
    BY <2>5 DEF FrontWorkers
  <2>11. /\ clientPc[c] = "waiting" /\ c \notin toClient
         /\ \A v \in Worker : ~Holds(v, c)
    BY <2>5 DEF IInv, RequestPlaces
  <2>12. \A v \in Worker, d \in Client :
           Holds(v, d)' <=> Holds(v, d) \/ (v = w /\ d = c)
    BY <2>2, <2>4, <2>5, PoolAssumption DEF IInv, Shape, Holds
  <2>13. RequestPlaces'
    BY <2>2, <2>5, <2>11, <2>12 DEF IInv, RequestPlaces
  <2>14. Counted'
    BY <2>5 DEF IInv, Counted, Unanswered
  <2> QED BY <2>6, <2>7, <2>9, <2>10, <2>13, <2>14 DEF IInv
<1>5. CASE Exit
  <2>1. /\ UNCHANGED <<clientPc, workerPc, job, fromClient, toClient, fromWorker,
                       toWorker, worker_queue, client_nbr, revents>>
        /\ brokerPc = "end" /\ brokerPc' = "exit"
    BY <1>5 DEF Exit, threadVars
  <2>2. Shape' /\ FrontWorkers'
    BY <2>1 DEF IInv, Shape, FrontWorkers
  <2>3. QueueSound' /\ WorkerPhases' /\ RequestPlaces'
    BY <2>1 DEF IInv, QueueSound, InQueue, WorkerPhases, RequestPlaces, Holds
  <2>4. Counted'
    BY <2>1 DEF IInv, Counted, Unanswered
  <2> QED BY <2>2, <2>3, <2>4 DEF IInv
<1> QED BY <1>1, <1>2, <1>3, <1>4, <1>5 DEF Broker

LEMMA NextIInv == IInv /\ [Next]_vars => IInv'
<1>1. ASSUME IInv, UNCHANGED vars PROVE IInv'
  <2>1. Shape'
    BY <1>1 DEF vars, IInv, Shape
  <2>2. QueueSound' /\ WorkerPhases' /\ FrontWorkers' /\ RequestPlaces' /\ Counted'
    BY <1>1 DEF vars, IInv, QueueSound, InQueue, WorkerPhases, FrontWorkers,
                RequestPlaces, Holds, Counted, Unanswered
  <2> QED BY <2>1, <2>2 DEF IInv
<1> QED BY <1>1, ThreadStep, BrokerStep DEF Next

LEMMA SpecIInv == Spec => []IInv
BY InitIInv, NextIInv, PTL DEF Spec

-----------------------------------------------------------------------------
\* Every variable keeps its type; in particular the count of unanswered
\* clients stays within 0 .. NBR_CLIENTS.
THEOREM TypeCorrect == Spec => []TypeOK
<1>1. IInv => TypeOK
  <2> SUFFICES ASSUME IInv PROVE TypeOK
    OBVIOUS
  <2>1. /\ Cardinality(Unanswered) \in Nat
        /\ Cardinality(Unanswered) <= NBR_CLIENTS
        /\ NBR_CLIENTS \in Nat
    BY FS_Subset, FS_CardinalityType, PoolAssumption DEF Unanswered, NBR_CLIENTS
  <2>2. client_nbr \in 0 .. NBR_CLIENTS
    BY <2>1 DEF IInv, Counted
  <2> QED BY <2>2 DEF IInv, Shape, TypeOK
<1> QED BY <1>1, SpecIInv, PTL

\* The queue of workers holds idle workers only, each once.
THEOREM QueueStaysSound == Spec => []QueueSound
<1>1. IInv => QueueSound
  BY DEF IInv
<1> QED BY <1>1, SpecIInv, PTL

\* The assertion on the length of the queue never fails, whatever the number
\* of workers: a worker whose message is read has left the queue before.
THEOREM AssertionHolds == Spec => []RoomInQueue
<1>1. IInv => RoomInQueue
  BY RoomForSender DEF RoomInQueue
<1> QED BY <1>1, SpecIInv, PTL

\* The frontend's handler always finds a worker to send the request to.
THEOREM WorkerToTake == Spec => []WorkerAvailable
<1>1. IInv => WorkerAvailable
  BY DEF IInv, FrontWorkers, WorkerAvailable
<1> QED BY <1>1, SpecIInv, PTL

\* Every request of a waiting client is in one place and one only.
THEOREM RequestsInOnePlace == Spec => []OneHolder
<1>1. IInv => OneHolder
  <2> SUFFICES ASSUME IInv, NEW c \in Client
      PROVE Cardinality(Holders(c)) + (IF c \in fromClient THEN 1 ELSE 0)
                                    + (IF c \in toClient THEN 1 ELSE 0)
            = IF clientPc[c] = "waiting" THEN 1 ELSE 0
    BY DEF OneHolder
  <2>1. \A w : w \in Holders(c) <=> w \in Worker /\ Holds(w, c)
    BY DEF Holders, Holds
  <2>2. CASE \E w \in Worker : Holds(w, c)
    <3>1. PICK w \in Worker : Holds(w, c)
      BY <2>2
    <3>2. /\ clientPc[c] = "waiting" /\ c \notin fromClient /\ c \notin toClient
          /\ \A v \in Worker : Holds(v, c) => v = w
      BY <3>1 DEF IInv, RequestPlaces
    <3>3. Holders(c) = {w}
      BY <2>1, <3>1, <3>2
    <3>4. Cardinality(Holders(c)) = 1
      BY <3>3, FS_Singleton
    <3> QED BY <3>2, <3>4
  <2>3. CASE ~ \E w \in Worker : Holds(w, c)
    <3>1. Holders(c) = {}
      BY <2>1, <2>3
    <3>2. Cardinality(Holders(c)) = 0
      BY <3>1, FS_EmptySet
    <3>3. /\ c \in fromClient => clientPc[c] = "waiting" /\ c \notin toClient
          /\ c \in toClient => clientPc[c] = "waiting"
          /\ clientPc[c] = "waiting" => c \in fromClient \/ c \in toClient
      BY <2>3 DEF IInv, RequestPlaces
    <3> QED BY <3>2, <3>3
  <2> QED BY <2>2, <2>3
<1> QED BY <1>1, SpecIInv, PTL

\* The main loop ends only when every client was sent its reply.
THEOREM EndsWhenAnswered == Spec => []EndsAnswered
<1>1. IInv => EndsAnswered
  <2> SUFFICES ASSUME IInv, brokerPc \in {"end", "exit"}
      PROVE \A c \in Client : clientPc[c] = "done" \/ c \in toClient
    BY DEF EndsAnswered
  <2>1. IsFiniteSet(Unanswered) /\ Cardinality(Unanswered) = 0
    BY FS_Subset, PoolAssumption DEF IInv, Counted, Unanswered
  <2>2. Unanswered = {}
    BY <2>1, FS_EmptySet
  <2> QED BY <2>2 DEF Unanswered
<1> QED BY <1>1, SpecIInv, PTL

=============================================================================
