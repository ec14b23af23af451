------------------------------ MODULE MDBroker ------------------------------
(***************************************************************************)
(* The Majordomo broker, MMI/mdbroker.c.  One thread polls the ROUTER      *)
(* socket, handles one message, looks at its timer and polls again;        *)
(* brokerPc is its place in that loop, so the tail of a handler (the purge *)
(* and the dispatch loop of s_service_dispatch) always follows its head.   *)
(*                                                                         *)
(* A worker_t is the identity it stands for, and a pointer to it is that   *)
(* identity: a list that still holds an identity outside known holds a     *)
(* dangling pointer.  Services are created lazily with empty lists, which  *)
(* is what a total function over the names starts with.  A clock reading   *)
(* enters only through expired, the workers whose expiry lies in the past: *)
(* any known worker may become expired at any time, a refresh takes it     *)
(* out.                                                                    *)
(***************************************************************************)
EXTENDS MDNet, SequencesExt

CONSTANT NoService

ASSUME BrokerAssumption == NoService \notin ServiceName

VARIABLES known,      \* broker->workers
          service,    \* worker->service, NoService if it has none
          expired,    \* the workers with now >= worker->expiry
          waiting,    \* broker->waiting
          swaiting,   \* service->waiting
          requests,   \* service->requests
          nworkers,   \* service->workers
          brokerPc,   \* "poll", "purge", "dispatch" or "heartbeat"
          current     \* the service being dispatched, NoService if none is

brokerVars == <<known, service, expired, waiting, swaiting, requests,
                nworkers, brokerPc, current>>

Queued == [client : Identity, tag : Tag]

BrokerInit ==
    /\ known = {}
    /\ service = [i \in Identity |-> NoService]
    /\ expired = {}
    /\ waiting = <<>>
    /\ swaiting = [s \in ServiceName |-> <<>>]
    /\ requests = [s \in ServiceName |-> <<>>]
    /\ nworkers = [s \in ServiceName |-> 0]
    /\ brokerPc = "poll"
    /\ current = NoService

BrokerTypeOK ==
    /\ known \subseteq Identity
    /\ service \in [Identity -> ServiceName \cup {NoService}]
    /\ expired \subseteq Identity
    /\ waiting \in Seq(Identity)
    /\ swaiting \in [ServiceName -> Seq(Identity)]
    /\ requests \in [ServiceName -> Seq(Queued)]
    /\ nworkers \in [ServiceName -> Int]
    /\ brokerPc \in {"poll", "purge", "dispatch", "heartbeat"}
    /\ current \in ServiceName \cup {NoService}

-----------------------------------------------------------------------------
\* zlist_remove: the list without the first occurrence of e.
Without(list, e) ==
    IF \E j \in 1 .. Len(list) : list[j] = e
    THEN [k \in 1 .. Len(list) - 1 |->
            IF \E j \in 1 .. k : list[j] = e THEN list[k + 1] ELSE list[k]]
    ELSE list

\* s_service_dispatch after its append: first the purge, then the loop.
StartDispatch(s) == brokerPc' = "purge" /\ current' = s

\* The end of the main loop: heartbeat_at is still ahead, and the broker polls
\* again, or it has passed, and a heartbeat round starts with a purge.
EndOfLoop == brokerPc' \in {"poll", "purge"} /\ current' = NoService

\* A variant with a mistake: service->workers is not decremented.
WorkerDeleteUncounted(i) ==
    /\ known' = known \ {i}
    /\ expired' = expired \ {i}
    /\ service' = [service EXCEPT ![i] = NoService]
    /\ swaiting' = [s \in ServiceName |->
                      IF s = service[i] THEN Without(swaiting[s], i)
                                        ELSE swaiting[s]]
    /\ waiting' = Without(waiting, i)
    /\ UNCHANGED nworkers

\* s_worker_delete, of every list the worker may be in.
WorkerDelete(i) ==
    /\ known' = known \ {i}
    /\ expired' = expired \ {i}
    /\ service' = [service EXCEPT ![i] = NoService]
    /\ swaiting' = [s \in ServiceName |->
                      IF s = service[i] THEN Without(swaiting[s], i)
                                        ELSE swaiting[s]]
    /\ nworkers' = [s \in ServiceName |->
                      IF s = service[i] THEN nworkers[s] - 1 ELSE nworkers[s]]
    /\ waiting' = Without(waiting, i)

\* s_worker_waiting up to its call of s_service_dispatch.
WorkerWaiting(i, s) ==
    /\ waiting' = Append(waiting, i)
    /\ swaiting' = [swaiting EXCEPT ![s] = Append(@, i)]
    /\ expired' = expired \ {i}
    /\ StartDispatch(s)

\* READY from a stranger: the worker is created, attached and made idle.
\* The code's test for a reserved name looks at the sender's identity, which
\* libzmq makes and which never starts with "mmi.".
WorkerReady(i, m) ==
    /\ m.cmd = "READY"
    /\ i \notin known
    /\ known' = known \cup {i}
    /\ service' = [service EXCEPT ![i] = m.svc]
    /\ nworkers' = [nworkers EXCEPT ![m.svc] = @ + 1]
    /\ WorkerWaiting(i, m.svc)
    /\ UNCHANGED <<requests, toPeer>>

\* A variant with a mistake: the worker is made idle, but its service is not
\* dispatched.
WorkerReplyUndispatched(i, m) ==
    /\ m.cmd = "REPLY"
    /\ i \in known
    /\ Routed(m.client, [cmd |-> "ANSWER", svc |-> service[i], tag |-> m.tag])
    /\ waiting' = Append(waiting, i)
    /\ swaiting' = [swaiting EXCEPT ![service[i]] = Append(@, i)]
    /\ expired' = expired \ {i}
    /\ EndOfLoop
    /\ UNCHANGED <<known, service, nworkers, requests>>

\* REPLY: forwarded to the client under the worker's own service name.
WorkerReply(i, m) ==
    /\ m.cmd = "REPLY"
    /\ i \in known
    /\ Routed(m.client, [cmd |-> "ANSWER", svc |-> service[i], tag |-> m.tag])
    /\ WorkerWaiting(i, service[i])
    /\ UNCHANGED <<known, service, nworkers, requests>>

\* A variant with a mistake: a heartbeat puts the worker back at the end of the
\* lists, without a look at whether it is busy.
WorkerHeartbeatRequeued(i, m) ==
    /\ m.cmd = "HEARTBEAT"
    /\ i \in known
    /\ waiting' = Append(Without(waiting, i), i)
    /\ swaiting' = [swaiting EXCEPT ![service[i]] = Append(Without(@, i), i)]
    /\ expired' = expired \ {i}
    /\ StartDispatch(service[i])
    /\ UNCHANGED <<known, service, nworkers, requests, toPeer>>

\* HEARTBEAT: only the expiry moves, not the worker's place in the lists.
WorkerHeartbeat(i, m) ==
    /\ m.cmd = "HEARTBEAT"
    /\ i \in known
    /\ expired' = expired \ {i}
    /\ EndOfLoop
    /\ UNCHANGED <<known, service, waiting, swaiting, nworkers, requests, toPeer>>

\* A command out of session: a second READY, a REPLY or HEARTBEAT from a
\* stranger (who is created by s_worker_require and deleted again).
WorkerRefuse(i, m) ==
    /\ m.cmd \in {"READY", "REPLY", "HEARTBEAT"}
    /\ (m.cmd = "READY") = (i \in known)
    /\ Routed(i, Disconnect)
    /\ WorkerDelete(i)
    /\ EndOfLoop
    /\ UNCHANGED requests

WorkerDisconnect(i, m) ==
    /\ m.cmd = "DISCONNECT"
    /\ WorkerDelete(i)
    /\ EndOfLoop
    /\ UNCHANGED <<requests, toPeer>>

\* mmi.service tells whether a service has workers; other names answer 501.
MmiCode(m) ==
    CASE m.svc # "mmi.service"  -> "501"
      [] nworkers[m.about] # 0  -> "200"
      [] OTHER                  -> "404"

ClientMmi(i, m) ==
    /\ m.cmd = "CALL"
    /\ m.svc \in Reserved
    /\ Routed(i, [cmd |-> "ANSWER", svc |-> m.svc, code |-> MmiCode(m)])
    /\ EndOfLoop
    /\ UNCHANGED <<known, service, expired, waiting, swaiting, requests, nworkers>>

ClientRequest(i, m) ==
    /\ m.cmd = "CALL"
    /\ m.svc \in Service
    /\ requests' = [requests EXCEPT ![m.svc] = Append(@, [client |-> i, tag |-> m.tag])]
    /\ StartDispatch(m.svc)
    /\ UNCHANGED <<known, service, expired, waiting, swaiting, nworkers, toPeer>>

\* One pass of the main loop that found a message of connection i.
BrokerMessageIn(i) ==
    /\ brokerPc = "poll"
    /\ toBroker[i] # <<>>
    /\ toBroker' = [toBroker EXCEPT ![i] = Tail(@)]
    /\ LET m == Head(toBroker[i]) IN
         \/ WorkerReady(i, m)
         \/ WorkerReply(i, m)
         \/ WorkerHeartbeat(i, m)
         \/ WorkerRefuse(i, m)
         \/ WorkerDisconnect(i, m)
         \/ ClientMmi(i, m)
         \/ ClientRequest(i, m)
    /\ UNCHANGED <<session, open>>

\* The poll timed out, and the heartbeat round is due.
BrokerPollTimeout ==
    /\ brokerPc = "poll"
    /\ brokerPc' = "purge"
    /\ UNCHANGED <<netVars, known, service, expired, waiting, swaiting,
                   requests, nworkers, current>>

\* s_broker_purge looks at the head of the waiting list only.
HeadExpired == waiting # <<>> /\ Head(waiting) \in expired

PurgeHead ==
    /\ brokerPc = "purge"
    /\ HeadExpired
    /\ WorkerDelete(Head(waiting))
    /\ UNCHANGED <<netVars, requests, brokerPc, current>>

PurgeDone ==
    /\ brokerPc = "purge"
    /\ ~HeadExpired
    /\ brokerPc' = IF current = NoService THEN "heartbeat" ELSE "dispatch"
    /\ UNCHANGED <<netVars, known, service, expired, waiting, swaiting,
                   requests, nworkers, current>>

\* Two variants with a mistake: the worker stays in the broker's list, and the
\* request stays in the queue.
DispatchStillWaiting ==
    /\ brokerPc = "dispatch"
    /\ swaiting[current] # <<>>
    /\ requests[current] # <<>>
    /\ LET i == Head(swaiting[current])
           r == Head(requests[current]) IN
         /\ swaiting' = [swaiting EXCEPT ![current] = Tail(@)]
         /\ requests' = [requests EXCEPT ![current] = Tail(@)]
         /\ Routed(i, [cmd |-> "REQUEST", client |-> r.client, tag |-> r.tag])
    /\ UNCHANGED <<session, open, toBroker, known, service, expired, nworkers,
                   waiting, brokerPc, current>>

DispatchStillQueued ==
    /\ brokerPc = "dispatch"
    /\ swaiting[current] # <<>>
    /\ requests[current] # <<>>
    /\ LET i == Head(swaiting[current])
           r == Head(requests[current]) IN
         /\ swaiting' = [swaiting EXCEPT ![current] = Tail(@)]
         /\ waiting' = Without(waiting, i)
         /\ Routed(i, [cmd |-> "REQUEST", client |-> r.client, tag |-> r.tag])
    /\ UNCHANGED <<session, open, toBroker, known, service, expired, nworkers,
                   requests, brokerPc, current>>

\* One turn of the loop of s_service_dispatch.
Dispatch ==
    /\ brokerPc = "dispatch"
    /\ swaiting[current] # <<>>
    /\ requests[current] # <<>>
    /\ LET i == Head(swaiting[current])
           r == Head(requests[current]) IN
         /\ swaiting' = [swaiting EXCEPT ![current] = Tail(@)]
         /\ waiting' = Without(waiting, i)
         /\ requests' = [requests EXCEPT ![current] = Tail(@)]
         /\ Routed(i, [cmd |-> "REQUEST", client |-> r.client, tag |-> r.tag])
    /\ UNCHANGED <<session, open, toBroker, known, service, expired, nworkers,
                   brokerPc, current>>

DispatchDone ==
    /\ brokerPc = "dispatch"
    /\ swaiting[current] = <<>> \/ requests[current] = <<>>
    /\ EndOfLoop
    /\ UNCHANGED <<netVars, known, service, expired, waiting, swaiting,
                   requests, nworkers>>

\* One HEARTBEAT to every idle worker (MaxInFlight bounds them).
HeartbeatRound ==
    /\ brokerPc = "heartbeat"
    /\ toPeer' = [i \in Identity |->
                    IF i \in Range(waiting) \cap open /\ Len(toPeer[i]) < MaxInFlight
                    THEN Append(toPeer[i], Heartbeat) ELSE toPeer[i]]
    /\ brokerPc' = "poll"
    /\ UNCHANGED <<session, open, toBroker, known, service, expired, waiting,
                   swaiting, requests, nworkers, current>>

BrokerNext ==
    \/ \E i \in Identity : BrokerMessageIn(i)
    \/ BrokerPollTimeout
    \/ PurgeHead
    \/ PurgeDone
    \/ Dispatch
    \/ DispatchDone
    \/ HeartbeatRound

\* Time passes for a waiting worker; for a busy one expiry is never read.
Expire(i) ==
    /\ i \in Range(waiting) \ expired
    /\ expired' = expired \cup {i}
    /\ UNCHANGED <<netVars, known, service, waiting, swaiting, requests,
                   nworkers, brokerPc, current>>

\* The broker process dies and a new one starts with nothing.
BrokerRestart ==
    /\ known' = {}
    /\ service' = [i \in Identity |-> NoService]
    /\ expired' = {}
    /\ waiting' = <<>>
    /\ swaiting' = [s \in ServiceName |-> <<>>]
    /\ requests' = [s \in ServiceName |-> <<>>]
    /\ nworkers' = [s \in ServiceName |-> 0]
    /\ brokerPc' = "poll"
    /\ current' = NoService
    /\ Outage

=============================================================================
