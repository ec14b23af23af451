----------------------------- MODULE Majordomo -----------------------------
(***************************************************************************)
(* The Majordomo service: one broker, its workers and its clients, each a  *)
(* process of its own, joined by the network of MDNet.  The peers'         *)
(* steps interleave freely with each other and with the turns of the       *)
(* broker's loop.  Within a turn they are held back: after its read the    *)
(* broker only appends to channels, and a peer's step commutes with that.  *)
(* Crashes, departures, restarts, expiries of workers that are merely slow *)
(* and workers that give up a slow broker come out of one budget.          *)
(***************************************************************************)
EXTENDS MDBroker, MDWorker, MDClient

CONSTANT MaxFaults      \* BOUND: faults in a behaviour

ASSUME FaultAssumption == MaxFaults \in Nat

VARIABLE faults

vars == <<netVars, brokerVars, workerVars, clientVars, faults>>

Init ==
    /\ NetInit([i \in Identity |->
                  IF i[1] \in Worker /\ i[2] = 1 THEN <<Greeting(i[1])>> ELSE <<>>])
    /\ BrokerInit
    /\ WorkerInit
    /\ ClientInit
    /\ faults = 0

BrokerStep == BrokerNext /\ UNCHANGED <<workerVars, clientVars, faults>>

WorkerStep(w) ==
    /\ brokerPc = "poll"
    /\ WorkerNext(w) \/ WorkerStart(w)
    /\ UNCHANGED <<brokerVars, clientVars, faults>>

ClientStep(c) ==
    /\ brokerPc = "poll"
    /\ ClientNext(c)
    /\ UNCHANGED <<brokerVars, workerVars, faults>>

Fault ==
    /\ brokerPc = "poll"
    /\ faults < MaxFaults
    /\ faults' = faults + 1
    /\ UNCHANGED clientVars
    /\ \/ (\E i \in Identity : Expire(i)) /\ UNCHANGED workerVars
       \/ BrokerRestart /\ UNCHANGED workerVars
       \/ /\ \E w \in Worker : WorkerGiveUp(w) \/ WorkerCrash(w) \/ WorkerLeave(w)
          /\ UNCHANGED brokerVars

Next ==
    \/ BrokerStep
    \/ \E w \in Worker : WorkerStep(w)
    \/ \E c \in Client : ClientStep(c)
    \/ Fault

Spec == Init /\ [][Next]_vars

-----------------------------------------------------------------------------
TypeOK ==
    /\ NetTypeOK
    /\ BrokerTypeOK
    /\ WorkerTypeOK
    /\ ClientTypeOK
    /\ faults \in 0 .. MaxFaults

Before(list, i, j) ==
    \E p, q \in 1 .. Len(list) : p < q /\ list[p] = i /\ list[q] = j

\* The two waiting lists tell the same story: the broker's list names every
\* idle worker once, all of them known, and each service's list is the
\* broker's restricted to that service, in the same order.  zlist_remove
\* takes one occurrence out and s_worker_delete frees the worker, so a second
\* occurrence, or one in only one of the lists, would be a dangling pointer.
ListsAgree ==
    /\ Range(waiting) \subseteq known
    /\ \A i \in known : ~ Before(waiting, i, i)
    /\ \A s \in ServiceName :
         /\ Range(swaiting[s]) = {i \in Range(waiting) : service[i] = s}
         /\ \A i, j \in known :
              Before(swaiting[s], i, j)
              <=> Before(waiting, i, j) /\ service[i] = s /\ service[j] = s

\* service->workers, which is unsigned and which mmi.service reports, counts
\* the known workers of the service.
WorkerCount ==
    \A s \in ServiceName : nworkers[s] = Cardinality({i \in known : service[i] = s})

\* Outside the dispatch of a service no request is left queued while a worker
\* waits for it, whatever was purged, refused or restarted meanwhile.
WorkConserving ==
    \A s \in ServiceName :
        requests[s] # <<>> /\ swaiting[s] # <<>>
        => brokerPc \in {"purge", "dispatch"} /\ current = s

\* Where a list or a channel holds a member of M.
Spots(list, M) == {k \in 1 .. Len(list) : list[k] \in M}

AtMostOne(S) == \A x, y \in S : x = y

\* A worker's socket carries one permission to work.  It is its READY, its
\* place in the waiting list, the REQUEST sent to it, the request in its
\* application or its REPLY, and never two of these: a worker is not waiting
\* while it is busy, and its READY or REPLY finds it outside the lists.
Permissions(i) ==
       {"told"}  \X Spots(toBroker[i], Ready \cup Reply)
  \cup {"idle"}  \X Spots(waiting, {i})
  \cup {"asked"} \X Spots(toPeer[i], Request)
  \cup {"busy"}  \X {w \in Worker : i = Conn(w) /\ held[w] # Nothing}

OnePermission ==
    \A i \in Worker \X (1 .. MaxSession) : AtMostOne(Permissions(i))

\* What a client sent into one socket is in one place at most: on its way,
\* queued, with one worker, or answered.  No request is dispatched twice,
\* whatever order the purge, the worker's reconnect and the dispatch come in.
Queuing(i) ==
    UNION {{"queued"} \X {s} \X Spots(requests[s], [client : {i}, tag : Tag]) :
             s \in ServiceName}
Asking(i) ==
    UNION {{"request"} \X {j}
              \X Spots(toPeer[j], [cmd : {"REQUEST"}, client : {i}, tag : Tag]) :
             j \in Identity}
Replying(i) ==
    UNION {{"reply"} \X {j}
              \X Spots(toBroker[j], [cmd : {"REPLY"}, client : {i}, tag : Tag]) :
             j \in Identity}

Exchanges(i) ==
       {"call"}   \X (1 .. Len(toBroker[i]))
  \cup {"answer"} \X (1 .. Len(toPeer[i]))
  \cup {"held"}   \X {w \in Worker : held[w] \in [client : {i}, tag : Tag]}
  \cup Queuing(i) \cup Asking(i) \cup Replying(i)

NoDuplicate == \A i \in Client \X (1 .. MaxSession) : AtMostOne(Exchanges(i))

\* The reply that a client in mdcli_send is about to take answers the call it
\* made, also when earlier attempts and earlier calls were answered late.
ReplyMatches ==
    \A c \in Client :
        clientPc[c] = "waiting" /\ Inbox(c) # <<>>
        => /\ Head(Inbox(c)).svc = call[c].svc
           /\ call[c].svc \in Service => Head(Inbox(c)).tag = call[c].tag

\* The assertion of mdcli_send: a reply names the service that was called.
ReplyServiceAssert ==
    \A c \in Client :
        clientPc[c] = "waiting" /\ Inbox(c) # <<>>
        => Head(Inbox(c)).svc = call[c].svc

\* No worker is registered under a reserved name, as the comment in
\* s_broker_worker_msg promises.
NoReservedWorker == \A i \in known : service[i] \notin Reserved

-----------------------------------------------------------------------------
\* The broker's thread runs, the ROUTER socket reads its connections in turn,
\* and workers and their applications go on.  Clients promise nothing.  A
\* peer's step is enabled again each time the broker polls, hence SF.
Fairness ==
    /\ WF_vars(BrokerStep)
    /\ \A i \in Identity :
          SF_vars(BrokerMessageIn(i) /\ UNCHANGED <<workerVars, clientVars, faults>>)
    /\ \A w \in Worker :
          SF_vars(/\ brokerPc = "poll"
                  /\ \/ WorkerTakeRequest(w) \/ WorkerTakeHeartbeat(w)
                     \/ WorkerTakeDisconnect(w) \/ WorkerSendReply(w)
                  /\ UNCHANGED <<brokerVars, clientVars, faults>>)

FairSpec == Spec /\ Fairness

\* While nothing fails, every queued request is dispatched: the last worker's
\* REPLY or READY wakes the queue of its service, nobody else would.
QueueDrains ==
    \A s \in Service, i \in Client \X (1 .. MaxSession), tag \in Tag :
        LET r == [client |-> i, tag |-> tag]
        IN  r \in Range(requests[s]) ~> r \notin Range(requests[s])

=============================================================================
