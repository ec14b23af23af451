-------------------------- MODULE MajordomoProofs --------------------------
(***************************************************************************)
(* Theorems about Majordomo, for every set of clients, workers and         *)
(* services and every value of the bounds, in three parts, each on top of  *)
(* the one before: the types of all variables and that the broker          *)
(* conserves work (IInv); that the waiting lists agree, the workers are    *)
(* counted and a socket carries one permission to work (PlacesInv); that   *)
(* no request is duplicated and replies match (RepliesInv).                *)
(***************************************************************************)
EXTENDS Majordomo, SequenceTheorems, FiniteSetTheorems, TLAPS

(***************************************************************************)
(* Types and work conservation.  IInv adds to the two what the handlers    *)
(* rely on without testing it.                                             *)
(***************************************************************************)

\* A known worker has a service; s_worker_delete and REPLY follow the pointer.
KnownHaveService == \A i \in known : service[i] \in ServiceName

\* s_service_dispatch is called for a service.
DispatchTarget == brokerPc = "dispatch" => current \in ServiceName

\* The application is left only with the request it was given.
BusyHolds == \A w \in Worker : workerPc[w] = "app" => held[w] # Nothing

\* mdcli_send retries a request that was made.
WaitingCalls == \A c \in Client : clientPc[c] = "waiting" => call[c] \in Calls

BrokerInv == BrokerTypeOK /\ KnownHaveService /\ DispatchTarget /\ WorkConserving
WorkerInv == WorkerTypeOK /\ BusyHolds
ClientInv == ClientTypeOK /\ WaitingCalls

IInv ==
    /\ NetTypeOK
    /\ BrokerInv
    /\ WorkerInv
    /\ ClientInv
    /\ faults \in 0 .. MaxFaults

-----------------------------------------------------------------------------
LEMMA WithoutType ==
    ASSUME NEW S, NEW list \in Seq(S), NEW e
    PROVE  /\ Without(list, e) \in Seq(S)
           /\ Without(list, e) # <<>> => list # <<>>
<1>1. CASE \E j \in 1 .. Len(list) : list[j] = e
  <2> DEFINE short == [k \in 1 .. Len(list) - 1 |->
            IF \E j \in 1 .. k : list[j] = e THEN list[k + 1] ELSE list[k]]
  <2>1. Without(list, e) = short
    BY <1>1 DEF Without
  <2>2. Len(list) \in Nat /\ Len(list) - 1 \in Nat
    BY <1>1
  <2>3. \A k \in 1 .. Len(list) - 1 : list[k] \in S /\ list[k + 1] \in S
    BY <2>2
  <2>4. short \in [1 .. Len(list) - 1 -> S]
    BY <2>3
  <2>5. short \in Seq(S)
    BY <2>2, <2>4
  <2> QED BY <1>1, <2>1, <2>5
<1>2. CASE ~ \E j \in 1 .. Len(list) : list[j] = e
  BY <1>2 DEF Without
<1> QED BY <1>1, <1>2

LEMMA ConnType ==
    ASSUME NetTypeOK, NEW p \in Peer
    PROVE  Conn(p) \in Identity
BY DEF NetTypeOK, Conn, Identity

\* What the command of a message says about its other frames.
LEMMA PeerMessageFrames ==
    ASSUME NEW m \in PeerMessage
    PROVE  /\ m.cmd = "READY" => m.svc \in ServiceName
           /\ m.cmd = "REPLY" => m.client \in Identity /\ m.tag \in Tag
           /\ m.cmd = "CALL" /\ m.svc \in Service => m.tag \in Tag
BY NetAssumption DEF PeerMessage, Ready, Reply, Heartbeat, Disconnect, Call, MmiCall

LEMMA BrokerMessageFrames ==
    ASSUME NEW m \in BrokerMessage, m.cmd = "REQUEST"
    PROVE  m.client \in Identity /\ m.tag \in Tag
BY DEF BrokerMessage, Request, Heartbeat, Disconnect, Answer, MmiAnswer

LEMMA RoutedType ==
    ASSUME NetTypeOK, NEW i, NEW m \in BrokerMessage, Routed(i, m)
    PROVE  toPeer' \in [Identity -> Seq(BrokerMessage)]
<1>1. i \in open => i \in Identity
  BY DEF NetTypeOK
<1> QED BY <1>1 DEF NetTypeOK, Routed

LEMMA SendType ==
    ASSUME NetTypeOK, NEW p \in Peer, NEW m \in PeerMessage, Send(p, m)
    PROVE  toBroker' \in [Identity -> Seq(PeerMessage)]
BY ConnType DEF NetTypeOK, Send

LEMMA TakeType ==
    ASSUME NetTypeOK, NEW p \in Peer, Inbox(p) # <<>>, Take(p)
    PROVE  /\ Head(Inbox(p)) \in BrokerMessage
           /\ toPeer' \in [Identity -> Seq(BrokerMessage)]
<1>1. Inbox(p) \in Seq(BrokerMessage)
  BY ConnType DEF NetTypeOK, Inbox
<1> QED BY <1>1, ConnType DEF NetTypeOK, Inbox, Take

LEMMA CloseType ==
    ASSUME NetTypeOK, NEW p \in Peer, Close(p)
    PROVE  NetTypeOK'
<1>1. PICK k \in 0 .. Len(toBroker[Conn(p)]) :
        toBroker' = [toBroker EXCEPT ![Conn(p)] = SubSeq(@, 1, k)]
  BY DEF Close
<1>2. toBroker[Conn(p)] \in Seq(PeerMessage)
  BY ConnType DEF NetTypeOK
<1>3. SubSeq(toBroker[Conn(p)], 1, k) \in Seq(PeerMessage)
  BY <1>2, SubSeqProperties
<1>4. toBroker' \in [Identity -> Seq(PeerMessage)]
  BY <1>1, <1>3 DEF NetTypeOK
<1>5. toPeer' \in [Identity -> Seq(BrokerMessage)]
  <2>1. toPeer' = [toPeer EXCEPT ![Conn(p)] = <<>>]
    BY DEF Close
  <2>2. toPeer \in [Identity -> Seq(BrokerMessage)]
    BY DEF NetTypeOK
  <2>3. <<>> \in Seq(BrokerMessage)
    OBVIOUS
  <2> QED BY <2>1, <2>2, <2>3
<1> QED BY <1>4, <1>5 DEF NetTypeOK, Close

LEMMA ReopenType ==
    ASSUME NetTypeOK, NEW p \in Peer, NEW m \in PeerMessage, Reopen(p, m)
    PROVE  NetTypeOK'
<1> DEFINE fresh == <<p, session[p] + 1>>
<1>1. PICK k \in 0 .. Len(toBroker[Conn(p)]) :
        toBroker' = [toBroker EXCEPT ![Conn(p)] = SubSeq(@, 1, k), ![fresh] = <<m>>]
  BY DEF Reopen
<1>2. toBroker[Conn(p)] \in Seq(PeerMessage)
  BY ConnType DEF NetTypeOK
<1>3. SubSeq(toBroker[Conn(p)], 1, k) \in Seq(PeerMessage)
  BY <1>2, SubSeqProperties
<1>4. toBroker' \in [Identity -> Seq(PeerMessage)]
  <2>1. <<m>> \in Seq(PeerMessage)
    OBVIOUS
  <2> QED BY <1>1, <1>3, <2>1 DEF NetTypeOK
<1>5. toPeer' \in [Identity -> Seq(BrokerMessage)]
  <2>1. toPeer' = [toPeer EXCEPT ![Conn(p)] = <<>>]
    BY DEF Reopen
  <2>2. toPeer \in [Identity -> Seq(BrokerMessage)]
    BY DEF NetTypeOK
  <2>3. <<>> \in Seq(BrokerMessage)
    OBVIOUS
  <2> QED BY <2>1, <2>2, <2>3
<1>6. session[p] + 1 \in 1 .. MaxSession
  <2>1. session[p] \in 1 .. MaxSession
    BY DEF NetTypeOK
  <2>2. session[p] < MaxSession
    BY DEF Reopen
  <2> QED BY <2>1, <2>2, NetAssumption
<1>7. session' \in [Peer -> 1 .. MaxSession]
  BY <1>6 DEF NetTypeOK, Reopen
<1>8. open' \subseteq Identity
  BY <1>6 DEF NetTypeOK, Reopen, Identity
<1> QED BY <1>4, <1>5, <1>7, <1>8 DEF NetTypeOK

LEMMA OutageType ==
    ASSUME NetTypeOK, Outage
    PROVE  NetTypeOK'
<1>1. toBroker' \in [Identity -> Seq(PeerMessage)]
  BY DEF NetTypeOK, Outage
<1>2. toPeer' \in [Identity -> Seq(BrokerMessage)]
  BY DEF NetTypeOK, Outage
<1> QED BY <1>1, <1>2 DEF NetTypeOK, Outage

-----------------------------------------------------------------------------
\* What s_worker_delete leaves is typed, and it makes no worker available.
LEMMA WorkerDeleteType ==
    ASSUME BrokerInv, NEW i, WorkerDelete(i)
    PROVE  /\ known' \subseteq Identity
           /\ expired' \subseteq Identity
           /\ service' \in [Identity -> ServiceName \cup {NoService}]
           /\ waiting' \in Seq(Identity)
           /\ swaiting' \in [ServiceName -> Seq(Identity)]
           /\ nworkers' \in [ServiceName -> Int]
           /\ KnownHaveService'
           /\ \A s \in ServiceName : swaiting'[s] # <<>> => swaiting[s] # <<>>
<1>1. waiting' \in Seq(Identity)
  BY WithoutType DEF BrokerInv, BrokerTypeOK, WorkerDelete
<1>2. \A s \in ServiceName :
        /\ Without(swaiting[s], i) \in Seq(Identity)
        /\ Without(swaiting[s], i) # <<>> => swaiting[s] # <<>>
  <2> TAKE s \in ServiceName
  <2>1. swaiting[s] \in Seq(Identity)
    BY DEF BrokerInv, BrokerTypeOK
  <2> QED BY <2>1, WithoutType
<1>3. /\ swaiting' \in [ServiceName -> Seq(Identity)]
      /\ \A s \in ServiceName : swaiting'[s] # <<>> => swaiting[s] # <<>>
  BY <1>2 DEF BrokerInv, BrokerTypeOK, WorkerDelete
<1>4. nworkers' \in [ServiceName -> Int]
  BY DEF BrokerInv, BrokerTypeOK, WorkerDelete
<1>5. /\ known' \subseteq Identity
      /\ expired' \subseteq Identity
      /\ service' \in [Identity -> ServiceName \cup {NoService}]
      /\ KnownHaveService'
  BY DEF BrokerInv, BrokerTypeOK, KnownHaveService, WorkerDelete
<1> QED BY <1>1, <1>3, <1>4, <1>5

\* s_worker_waiting is called in the poll state, when nothing can be
\* dispatched: at most the service it starts to dispatch has work now.
LEMMA WorkerWaitingType ==
    ASSUME BrokerInv, brokerPc = "poll",
           NEW i \in Identity, NEW s \in ServiceName, WorkerWaiting(i, s),
           UNCHANGED requests
    PROVE  /\ expired' \subseteq Identity
           /\ waiting' \in Seq(Identity)
           /\ swaiting' \in [ServiceName -> Seq(Identity)]
           /\ brokerPc' = "purge"
           /\ current' \in ServiceName
           /\ WorkConserving'
<1>1. /\ expired' \subseteq Identity
      /\ waiting' \in Seq(Identity)
      /\ swaiting' \in [ServiceName -> Seq(Identity)]
      /\ brokerPc' = "purge"
      /\ current' = s
  BY DEF BrokerInv, BrokerTypeOK, WorkerWaiting, StartDispatch
<1>2. \A t \in ServiceName : t # s => swaiting'[t] = swaiting[t]
  BY DEF BrokerInv, BrokerTypeOK, WorkerWaiting
<1>3. WorkConserving'
  BY <1>1, <1>2 DEF BrokerInv, WorkConserving
<1> QED BY <1>1, <1>3

\* Workers deleted by a handler give nothing to dispatch.
LEMMA WorkerDeleteInv ==
    ASSUME BrokerInv, brokerPc = "poll", NEW i,
           WorkerDelete(i), EndOfLoop, UNCHANGED requests
    PROVE  BrokerInv'
<1>1. DispatchTarget' /\ brokerPc' \in {"poll", "purge"} /\ current' = NoService
  BY DEF EndOfLoop, DispatchTarget
<1>2. WorkConserving'
  BY WorkerDeleteType DEF BrokerInv, WorkConserving
<1>3. BrokerTypeOK'
  BY WorkerDeleteType, <1>1 DEF BrokerInv, BrokerTypeOK
<1> QED BY <1>1, <1>2, <1>3, WorkerDeleteType DEF BrokerInv

-----------------------------------------------------------------------------
\* A pass of the main loop up to the tail of the handler, one step per
\* handler.
LEMMA BrokerMessageInv ==
    ASSUME NetTypeOK, BrokerInv, NEW i \in Identity, BrokerMessageIn(i)
    PROVE  NetTypeOK' /\ BrokerInv'
<1> DEFINE m == Head(toBroker[i])
<1>1. toBroker[i] \in Seq(PeerMessage) /\ toBroker[i] # <<>>
  BY DEF NetTypeOK, BrokerMessageIn
<1>2. m \in PeerMessage /\ Tail(toBroker[i]) \in Seq(PeerMessage)
  BY <1>1
<1>3. toBroker' \in [Identity -> Seq(PeerMessage)]
  BY <1>2 DEF NetTypeOK, BrokerMessageIn
<1>4. brokerPc = "poll" /\ UNCHANGED <<session, open>>
  BY DEF BrokerMessageIn
<1>5. SUFFICES toPeer' \in [Identity -> Seq(BrokerMessage)] /\ BrokerInv'
  BY <1>3, <1>4 DEF NetTypeOK
<1>6. toPeer \in [Identity -> Seq(BrokerMessage)]
  BY DEF NetTypeOK
<1>7. CASE WorkerReady(i, m)
  <2>1. m.svc \in ServiceName
    BY <1>2, <1>7, PeerMessageFrames DEF WorkerReady
  <2>2. WorkerWaiting(i, m.svc) /\ UNCHANGED <<requests, toPeer>>
    BY <1>7 DEF WorkerReady
  <2>3. /\ known' \subseteq Identity
        /\ service' \in [Identity -> ServiceName \cup {NoService}]
        /\ nworkers' \in [ServiceName -> Int]
        /\ KnownHaveService'
    BY <1>7, <2>1 DEF WorkerReady, BrokerInv, BrokerTypeOK, KnownHaveService
  <2>4. /\ expired' \subseteq Identity
        /\ waiting' \in Seq(Identity)
        /\ swaiting' \in [ServiceName -> Seq(Identity)]
        /\ brokerPc' = "purge"
        /\ current' \in ServiceName
        /\ WorkConserving'
    BY <1>4, <2>1, <2>2, WorkerWaitingType
  <2> QED BY <1>6, <2>2, <2>3, <2>4 DEF BrokerInv, BrokerTypeOK, DispatchTarget
<1>8. CASE WorkerReply(i, m)
  <2>1. service[i] \in ServiceName /\ m.client \in Identity /\ m.tag \in Tag
    BY <1>2, <1>8, PeerMessageFrames DEF WorkerReply, BrokerInv, KnownHaveService
  <2>2. /\ WorkerWaiting(i, service[i])
        /\ UNCHANGED <<known, service, nworkers, requests>>
    BY <1>8 DEF WorkerReply
  <2>3. toPeer' \in [Identity -> Seq(BrokerMessage)]
    <3> DEFINE answer == [cmd |-> "ANSWER", svc |-> service[i], tag |-> m.tag]
    <3>1. answer \in BrokerMessage
      BY <2>1 DEF BrokerMessage, Answer
    <3>2. Routed(m.client, answer)
      BY <1>8 DEF WorkerReply
    <3> QED BY <3>1, <3>2, RoutedType
  <2>4. /\ expired' \subseteq Identity
        /\ waiting' \in Seq(Identity)
        /\ swaiting' \in [ServiceName -> Seq(Identity)]
        /\ brokerPc' = "purge"
        /\ current' \in ServiceName
        /\ WorkConserving'
    BY <1>4, <2>1, <2>2, WorkerWaitingType
  <2>5. KnownHaveService' /\ DispatchTarget'
    BY <2>2, <2>4 DEF BrokerInv, KnownHaveService, DispatchTarget
  <2>6. BrokerTypeOK'
    BY <2>2, <2>4 DEF BrokerInv, BrokerTypeOK
  <2> QED BY <2>3, <2>4, <2>5, <2>6 DEF BrokerInv
<1>9. CASE WorkerHeartbeat(i, m)
  <2>1. BrokerTypeOK'
    BY <1>9 DEF WorkerHeartbeat, EndOfLoop, BrokerInv, BrokerTypeOK
  <2>2. KnownHaveService' /\ DispatchTarget' /\ WorkConserving'
    BY <1>4, <1>9 DEF WorkerHeartbeat, EndOfLoop, BrokerInv, KnownHaveService,
                      DispatchTarget, WorkConserving
  <2> QED BY <1>6, <1>9, <2>1, <2>2 DEF WorkerHeartbeat, BrokerInv
<1>10. CASE WorkerRefuse(i, m)
  <2>1. toPeer' \in [Identity -> Seq(BrokerMessage)]
    <3>1. Disconnect \in BrokerMessage
      BY DEF BrokerMessage
    <3> QED BY <1>10, <3>1, RoutedType DEF WorkerRefuse
  <2>2. BrokerInv'
    BY <1>4, <1>10, WorkerDeleteInv DEF WorkerRefuse
  <2> QED BY <2>1, <2>2
<1>11. CASE WorkerDisconnect(i, m)
  <2>1. BrokerInv'
    BY <1>4, <1>11, WorkerDeleteInv DEF WorkerDisconnect
  <2> QED BY <1>6, <1>11, <2>1 DEF WorkerDisconnect
<1>12. CASE ClientMmi(i, m)
  <2>1. toPeer' \in [Identity -> Seq(BrokerMessage)]
    <3> DEFINE answer == [cmd |-> "ANSWER", svc |-> m.svc, code |-> MmiCode(m)]
    <3>1. answer \in BrokerMessage
      BY <1>12 DEF ClientMmi, MmiCode, BrokerMessage, MmiAnswer
    <3>2. Routed(i, answer)
      BY <1>12 DEF ClientMmi
    <3> QED BY <3>1, <3>2, RoutedType
  <2>2. BrokerTypeOK'
    BY <1>12 DEF ClientMmi, EndOfLoop, BrokerInv, BrokerTypeOK
  <2>3. KnownHaveService' /\ DispatchTarget' /\ WorkConserving'
    BY <1>4, <1>12 DEF ClientMmi, EndOfLoop, BrokerInv, KnownHaveService,
                       DispatchTarget, WorkConserving
  <2> QED BY <2>1, <2>2, <2>3 DEF BrokerInv
<1>13. CASE ClientRequest(i, m)
  <2>1. m.svc \in ServiceName /\ m.tag \in Tag
    BY <1>2, <1>13, PeerMessageFrames DEF ClientRequest, ServiceName
  <2> DEFINE r == [client |-> i, tag |-> m.tag]
  <2>2. r \in Queued
    BY <2>1 DEF Queued
  <2>3. requests' = [requests EXCEPT ![m.svc] = Append(@, r)]
    BY <1>13 DEF ClientRequest
  <2>4. requests' \in [ServiceName -> Seq(Queued)]
    <3>1. requests[m.svc] \in Seq(Queued)
      BY <2>1 DEF BrokerInv, BrokerTypeOK
    <3>2. Append(requests[m.svc], r) \in Seq(Queued)
      BY <2>2, <3>1
    <3> QED BY <2>3, <3>2 DEF BrokerInv, BrokerTypeOK
  <2>5. BrokerTypeOK' /\ KnownHaveService' /\ DispatchTarget'
    BY <1>13, <2>1, <2>4 DEF ClientRequest, StartDispatch, BrokerInv,
                             BrokerTypeOK, KnownHaveService, DispatchTarget
  <2>6. \A s \in ServiceName : s # m.svc => requests'[s] = requests[s]
    BY <2>3 DEF BrokerInv, BrokerTypeOK
  <2>7. WorkConserving'
    BY <1>4, <1>13, <2>6 DEF ClientRequest, StartDispatch, BrokerInv, WorkConserving
  <2> QED BY <1>6, <1>13, <2>5, <2>7 DEF ClientRequest, BrokerInv
<1> QED
  BY <1>7, <1>8, <1>9, <1>10, <1>11, <1>12, <1>13 DEF BrokerMessageIn

\* The rest of the broker's loop: purge, dispatch and heartbeat round.
LEMMA BrokerInvStep ==
    ASSUME NetTypeOK, BrokerInv, BrokerNext
    PROVE  NetTypeOK' /\ BrokerInv'
<1>1. CASE \E i \in Identity : BrokerMessageIn(i)
  BY <1>1, BrokerMessageInv
<1>2. CASE BrokerPollTimeout
  BY <1>2 DEF BrokerPollTimeout, netVars, NetTypeOK, BrokerInv, BrokerTypeOK,
              KnownHaveService, DispatchTarget, WorkConserving
<1>3. CASE PurgeHead
  <2>1. WorkConserving'
    BY <1>3, WorkerDeleteType DEF PurgeHead, BrokerInv, WorkConserving
  <2>2. BrokerTypeOK' /\ KnownHaveService'
    BY <1>3, WorkerDeleteType DEF PurgeHead, BrokerInv, BrokerTypeOK
  <2>3. DispatchTarget' /\ NetTypeOK'
    BY <1>3 DEF PurgeHead, DispatchTarget, netVars, NetTypeOK
  <2> QED BY <2>1, <2>2, <2>3 DEF BrokerInv
<1>4. CASE PurgeDone
  <2>1. WorkConserving'
    BY <1>4, BrokerAssumption DEF PurgeDone, BrokerInv, WorkConserving
  <2>2. DispatchTarget'
    BY <1>4 DEF PurgeDone, BrokerInv, BrokerTypeOK, DispatchTarget
  <2>3. NetTypeOK' /\ BrokerTypeOK' /\ KnownHaveService'
    BY <1>4 DEF PurgeDone, netVars, NetTypeOK, BrokerInv, BrokerTypeOK,
                KnownHaveService
  <2> QED BY <2>1, <2>2, <2>3 DEF BrokerInv
<1>5. CASE Dispatch
  <2> DEFINE i == Head(swaiting[current])
             r == Head(requests[current])
             request == [cmd |-> "REQUEST", client |-> r.client, tag |-> r.tag]
  <2>1. /\ brokerPc = "dispatch"
        /\ current \in ServiceName
        /\ swaiting[current] # <<>> /\ requests[current] # <<>>
    BY <1>5 DEF Dispatch, BrokerInv, DispatchTarget
  <2>2. swaiting[current] \in Seq(Identity) /\ requests[current] \in Seq(Queued)
    BY <2>1 DEF BrokerInv, BrokerTypeOK
  <2>3. /\ Tail(swaiting[current]) \in Seq(Identity)
        /\ Tail(requests[current]) \in Seq(Queued)
        /\ r \in Queued
    BY <2>1, <2>2
  <2>4. request \in BrokerMessage
    BY <2>3 DEF Queued, BrokerMessage, Request
  <2>5. /\ swaiting' = [swaiting EXCEPT ![current] = Tail(@)]
        /\ requests' = [requests EXCEPT ![current] = Tail(@)]
        /\ waiting' = Without(waiting, i)
        /\ Routed(i, request)
        /\ UNCHANGED <<session, open, toBroker, known, service, expired,
                       nworkers, brokerPc, current>>
    BY <1>5 DEF Dispatch
  <2>6. NetTypeOK'
    BY <2>4, <2>5, RoutedType DEF NetTypeOK
  <2>7. waiting' \in Seq(Identity)
    BY <2>5, WithoutType DEF BrokerInv, BrokerTypeOK
  <2>8. BrokerTypeOK'
    BY <2>3, <2>5, <2>7 DEF BrokerInv, BrokerTypeOK
  <2>9. \A s \in ServiceName \ {current} :
          swaiting'[s] = swaiting[s] /\ requests'[s] = requests[s]
    BY <2>5 DEF BrokerInv, BrokerTypeOK
  <2>10. WorkConserving'
    BY <2>1, <2>5, <2>9 DEF BrokerInv, WorkConserving
  <2>11. KnownHaveService' /\ DispatchTarget'
    BY <2>5 DEF BrokerInv, KnownHaveService, DispatchTarget
  <2> QED BY <2>6, <2>8, <2>10, <2>11 DEF BrokerInv
<1>6. CASE DispatchDone
  <2>1. WorkConserving'
    BY <1>6 DEF DispatchDone, BrokerInv, WorkConserving
  <2>2. NetTypeOK' /\ BrokerTypeOK' /\ KnownHaveService' /\ DispatchTarget'
    BY <1>6 DEF DispatchDone, EndOfLoop, netVars, NetTypeOK, BrokerInv,
                BrokerTypeOK, KnownHaveService, DispatchTarget
  <2> QED BY <2>1, <2>2 DEF BrokerInv
<1>7. CASE HeartbeatRound
  <2>1. Heartbeat \in BrokerMessage
    BY DEF BrokerMessage
  <2>2. \A i \in Identity : toPeer[i] \in Seq(BrokerMessage)
                          /\ Append(toPeer[i], Heartbeat) \in Seq(BrokerMessage)
    BY <2>1 DEF NetTypeOK
  <2>3. NetTypeOK'
    BY <1>7, <2>2 DEF HeartbeatRound, NetTypeOK
  <2>4. BrokerTypeOK' /\ KnownHaveService' /\ DispatchTarget'
    BY <1>7 DEF HeartbeatRound, BrokerInv, BrokerTypeOK, KnownHaveService,
                DispatchTarget
  <2>5. WorkConserving'
    BY <1>7 DEF HeartbeatRound, BrokerInv, WorkConserving
  <2> QED BY <2>3, <2>4, <2>5 DEF BrokerInv
<1> QED
  BY <1>1, <1>2, <1>3, <1>4, <1>5, <1>6, <1>7 DEF BrokerNext

-----------------------------------------------------------------------------
LEMMA GreetingType ==
    ASSUME NEW w \in Worker
    PROVE  w \in Peer /\ Greeting(w) \in PeerMessage
BY WorkerAssumption DEF Greeting, PeerMessage, Ready, Peer

LEMMA ConnectInv ==
    ASSUME NetTypeOK, WorkerTypeOK, NEW w \in Worker, Connect(w)
    PROVE  NetTypeOK' /\ liveness' \in [Worker -> 0 .. Liveness]
<1>1. NetTypeOK'
  BY GreetingType, ReopenType DEF Connect
<1> QED BY <1>1, WorkerAssumption DEF Connect, WorkerTypeOK

LEMMA MaybeHeartbeatType ==
    ASSUME NetTypeOK, NEW w \in Worker, MaybeHeartbeat(w)
    PROVE  toBroker' \in [Identity -> Seq(PeerMessage)]
<1>1. CASE UNCHANGED toBroker
  BY <1>1 DEF NetTypeOK
<1>2. CASE Send(w, Heartbeat)
  <2>1. w \in Peer /\ Heartbeat \in PeerMessage
    BY DEF Peer, PeerMessage
  <2> QED BY <1>2, <2>1, SendType
<1> QED BY <1>1, <1>2 DEF MaybeHeartbeat

\* What a worker takes out of its socket.
LEMMA TakeCommandType ==
    ASSUME NetTypeOK, NEW w \in Worker, NEW cmd, TakeCommand(w, cmd), Take(w)
    PROVE  /\ Head(Inbox(w)) \in BrokerMessage
           /\ toPeer' \in [Identity -> Seq(BrokerMessage)]
<1>1. w \in Peer /\ Inbox(w) # <<>>
  BY DEF Peer, TakeCommand
<1> QED BY <1>1, TakeType

\* One step of a worker, or its end or its start.
LEMMA WorkerInvStep ==
    ASSUME NetTypeOK, WorkerInv, NEW w \in Worker,
           \/ WorkerNext(w)  \/ WorkerStart(w)
           \/ WorkerGiveUp(w) \/ WorkerCrash(w) \/ WorkerLeave(w)
    PROVE  NetTypeOK' /\ WorkerInv'
<1>1. CASE WorkerTakeRequest(w)
  <2> DEFINE m == Head(Inbox(w))
             request == [client |-> m.client, tag |-> m.tag]
  <2>1. TakeCommand(w, "REQUEST") /\ Take(w)
    BY <1>1 DEF WorkerTakeRequest
  <2>2. m \in BrokerMessage /\ m.cmd = "REQUEST"
    BY <2>1, TakeCommandType DEF TakeCommand
  <2>3. request \in [client : Identity, tag : Tag]
    BY <2>2, BrokerMessageFrames
  <2>4. NetTypeOK'
    BY <1>1, <2>1, TakeCommandType DEF WorkerTakeRequest, NetTypeOK
  <2>5. request # Nothing
    BY <2>3, WorkerAssumption
  <2>6. /\ held' = [held EXCEPT ![w] = request]
        /\ workerPc' = [workerPc EXCEPT ![w] = "app"]
        /\ liveness' = [liveness EXCEPT ![w] = Liveness]
    BY <1>1 DEF WorkerTakeRequest
  <2>7. WorkerInv'
    BY <2>3, <2>5, <2>6, WorkerAssumption DEF WorkerInv, WorkerTypeOK, BusyHolds
  <2> QED BY <2>4, <2>7
<1>2. CASE WorkerTakeHeartbeat(w)
  <2>1. toPeer' \in [Identity -> Seq(BrokerMessage)]
    BY <1>2, TakeCommandType DEF WorkerTakeHeartbeat
  <2>2. toBroker' \in [Identity -> Seq(PeerMessage)]
    BY <1>2, MaybeHeartbeatType DEF WorkerTakeHeartbeat
  <2>3. WorkerInv'
    BY <1>2, WorkerAssumption DEF WorkerTakeHeartbeat, WorkerInv, WorkerTypeOK, BusyHolds
  <2> QED BY <1>2, <2>1, <2>2, <2>3 DEF WorkerTakeHeartbeat, NetTypeOK
<1>3. CASE WorkerTakeDisconnect(w)
  <2>1. WorkerInv'
    BY <1>3, ConnectInv DEF WorkerTakeDisconnect, WorkerInv, WorkerTypeOK, BusyHolds
  <2> QED BY <1>3, <2>1, ConnectInv DEF WorkerTakeDisconnect, WorkerInv
<1>4. CASE WorkerPollTimeout(w)
  <2>1. toBroker' \in [Identity -> Seq(PeerMessage)]
    BY <1>4, MaybeHeartbeatType DEF WorkerPollTimeout
  <2>2. liveness' \in [Worker -> 0 .. Liveness]
    BY <1>4, WorkerAssumption DEF WorkerPollTimeout, WorkerInv, WorkerTypeOK
  <2>3. WorkerInv'
    BY <1>4, <2>2 DEF WorkerPollTimeout, WorkerInv, WorkerTypeOK, BusyHolds
  <2> QED BY <1>4, <2>1, <2>3 DEF WorkerPollTimeout, NetTypeOK
<1>5. CASE WorkerReconnect(w)
  <2>1. WorkerInv'
    BY <1>5, ConnectInv DEF WorkerReconnect, WorkerInv, WorkerTypeOK, BusyHolds
  <2> QED BY <1>5, <2>1, ConnectInv DEF WorkerReconnect, WorkerInv
<1>6. CASE WorkerSendReply(w)
  <2> DEFINE reply == [cmd |-> "REPLY", client |-> held[w].client, tag |-> held[w].tag]
  <2>1. held[w] \in [client : Identity, tag : Tag]
    BY <1>6 DEF WorkerSendReply, WorkerInv, WorkerTypeOK, BusyHolds
  <2>2. reply \in PeerMessage
    BY <2>1 DEF PeerMessage, Reply
  <2>3. w \in Peer /\ Send(w, reply)
    BY <1>6 DEF WorkerSendReply, Peer
  <2>4. toBroker' \in [Identity -> Seq(PeerMessage)]
    BY <2>2, <2>3, SendType
  <2>5. WorkerInv'
    BY <1>6 DEF WorkerSendReply, WorkerInv, WorkerTypeOK, BusyHolds
  <2> QED BY <1>6, <2>4, <2>5 DEF WorkerSendReply, NetTypeOK
<1>7. CASE WorkerStart(w)
  <2>1. WorkerInv'
    BY <1>7, ConnectInv DEF WorkerStart, WorkerInv, WorkerTypeOK, BusyHolds
  <2> QED BY <1>7, <2>1, ConnectInv DEF WorkerStart, WorkerInv
<1>8. CASE WorkerGiveUp(w)
  BY <1>8, WorkerAssumption DEF WorkerGiveUp, netVars, NetTypeOK, WorkerInv,
                                WorkerTypeOK, BusyHolds
<1>9. CASE WorkerCrash(w)
  <2>1. NetTypeOK'
    BY <1>9, CloseType DEF WorkerCrash, Peer
  <2> QED BY <1>9, <2>1 DEF WorkerCrash, WorkerInv, WorkerTypeOK, BusyHolds
<1>10. CASE WorkerLeave(w)
  <2>1. w \in Peer /\ Disconnect \in PeerMessage
    BY DEF Peer, PeerMessage
  <2>2. toBroker' \in [Identity -> Seq(PeerMessage)]
    BY <1>10, <2>1, SendType DEF WorkerLeave
  <2>3. toPeer' \in [Identity -> Seq(BrokerMessage)]
    <3>1. toPeer' = [toPeer EXCEPT ![Conn(w)] = <<>>]
      BY <1>10 DEF WorkerLeave
    <3>2. toPeer \in [Identity -> Seq(BrokerMessage)]
      BY DEF NetTypeOK
    <3>3. <<>> \in Seq(BrokerMessage)
      OBVIOUS
    <3> QED BY <3>1, <3>2, <3>3
  <2>4. session' \in [Peer -> 1 .. MaxSession] /\ open' \subseteq Identity
    BY <1>10 DEF WorkerLeave, NetTypeOK
  <2>5. WorkerInv'
    BY <1>10 DEF WorkerLeave, WorkerInv, WorkerTypeOK, BusyHolds
  <2> QED BY <2>2, <2>3, <2>4, <2>5 DEF NetTypeOK
<1> QED
  BY <1>1, <1>2, <1>3, <1>4, <1>5, <1>6, <1>7, <1>8, <1>9, <1>10 DEF WorkerNext

-----------------------------------------------------------------------------
LEMMA NextCallsType ==
    ASSUME ClientTypeOK, NEW c \in Client, calls[c] < MaxCalls
    PROVE  NextCalls(c) \subseteq Calls /\ calls[c] + 1 \in 0 .. MaxCalls
<1>1. calls[c] \in 0 .. MaxCalls
  BY DEF ClientTypeOK
<1>2. calls[c] + 1 \in Tag /\ calls[c] + 1 \in 0 .. MaxCalls
  BY <1>1, NetAssumption DEF Tag
<1> QED BY <1>2 DEF NextCalls, Calls, Call

\* One step of a client.
LEMMA ClientInvStep ==
    ASSUME NetTypeOK, ClientInv, NEW c \in Client, ClientNext(c)
    PROVE  NetTypeOK' /\ ClientInv'
<1>1. c \in Peer /\ Calls \subseteq PeerMessage
  BY DEF Peer, Calls, PeerMessage
<1>2. CASE ClientCall(c)
  <2>1. PICK m \in NextCalls(c) :
          /\ call' = [call EXCEPT ![c] = m]
          /\ IF outstanding[c] THEN UNCHANGED toBroker ELSE Send(c, m)
    BY <1>2 DEF ClientCall
  <2>2. m \in Calls /\ calls[c] + 1 \in 0 .. MaxCalls
    BY <1>2, NextCallsType DEF ClientCall, ClientInv
  <2>3. toBroker' \in [Identity -> Seq(PeerMessage)]
    BY <1>1, <2>1, <2>2, SendType DEF NetTypeOK
  <2>4. retriesLeft' \in [Client -> 0 .. Retries]
    BY <1>2, ClientAssumption DEF ClientCall, ClientInv, ClientTypeOK
  <2>5. /\ clientPc' = [clientPc EXCEPT ![c] = "waiting"]
        /\ calls' = [calls EXCEPT ![c] = @ + 1]
        /\ outstanding' = [outstanding EXCEPT ![c] = TRUE]
    BY <1>2 DEF ClientCall
  <2>6. ClientInv'
    BY <2>1, <2>2, <2>4, <2>5 DEF ClientInv, ClientTypeOK, WaitingCalls
  <2> QED BY <1>2, <2>3, <2>6 DEF ClientCall, NetTypeOK
<1>3. CASE ClientReply(c)
  <2>1. toPeer' \in [Identity -> Seq(BrokerMessage)]
    BY <1>1, <1>3, TakeType DEF ClientReply
  <2>2. ClientInv'
    BY <1>3 DEF ClientReply, ClientInv, ClientTypeOK, WaitingCalls
  <2> QED BY <1>3, <2>1, <2>2 DEF ClientReply, NetTypeOK
<1>4. CASE ClientRetry(c)
  <2>1. call[c] \in PeerMessage
    BY <1>1, <1>4 DEF ClientRetry, ClientInv, WaitingCalls
  <2>2. NetTypeOK'
    BY <1>1, <1>4, <2>1, ReopenType DEF ClientRetry
  <2>3. retriesLeft' \in [Client -> 0 .. Retries]
    BY <1>4, ClientAssumption DEF ClientRetry, ClientInv, ClientTypeOK
  <2>4. ClientInv'
    BY <1>4, <2>3 DEF ClientRetry, ClientInv, ClientTypeOK, WaitingCalls
  <2> QED BY <2>2, <2>4
<1>5. CASE ClientAbandon(c)
  <2>1. retriesLeft' \in [Client -> 0 .. Retries]
    BY <1>5, ClientAssumption DEF ClientAbandon, ClientInv, ClientTypeOK
  <2>2. ClientInv'
    BY <1>5, <2>1 DEF ClientAbandon, ClientInv, ClientTypeOK, WaitingCalls
  <2> QED BY <1>5, <2>2 DEF ClientAbandon, netVars, NetTypeOK
<1> QED BY <1>2, <1>3, <1>4, <1>5 DEF ClientNext

-----------------------------------------------------------------------------
\* A component that takes no part in a step keeps its invariant.
LEMMA Untouched ==
    /\ BrokerInv /\ UNCHANGED brokerVars => BrokerInv'
    /\ WorkerInv /\ UNCHANGED workerVars => WorkerInv'
    /\ ClientInv /\ UNCHANGED clientVars => ClientInv'
<1>1. BrokerInv /\ UNCHANGED brokerVars => BrokerInv'
  BY DEF brokerVars, BrokerInv, BrokerTypeOK, KnownHaveService, DispatchTarget,
         WorkConserving
<1>2. WorkerInv /\ UNCHANGED workerVars => WorkerInv'
  BY DEF workerVars, WorkerInv, WorkerTypeOK, BusyHolds
<1>3. ClientInv /\ UNCHANGED clientVars => ClientInv'
  BY DEF clientVars, ClientInv, ClientTypeOK, WaitingCalls
<1> QED BY <1>1, <1>2, <1>3

LEMMA FaultInvStep ==
    ASSUME IInv, Fault
    PROVE  IInv'
<1>1. faults' \in 0 .. MaxFaults /\ ClientInv'
  BY Untouched, FaultAssumption DEF Fault, IInv
<1>2. CASE (\E i \in Identity : Expire(i)) /\ UNCHANGED workerVars
  <2>1. PICK i \in Identity : Expire(i)
    BY <1>2
  <2>2. NetTypeOK'
    BY <2>1 DEF Expire, netVars, IInv, NetTypeOK
  <2>3. BrokerInv'
    BY <2>1 DEF Expire, IInv, BrokerInv, BrokerTypeOK, KnownHaveService,
                DispatchTarget, WorkConserving
  <2> QED BY <1>1, <1>2, <2>2, <2>3, Untouched DEF IInv
<1>3. CASE BrokerRestart /\ UNCHANGED workerVars
  <2>1. NetTypeOK'
    BY <1>3, OutageType DEF BrokerRestart, IInv
  <2>2. BrokerInv'
    BY <1>3 DEF BrokerRestart, BrokerInv, BrokerTypeOK, KnownHaveService,
                DispatchTarget, WorkConserving
  <2> QED BY <1>1, <1>3, <2>1, <2>2, Untouched DEF IInv
<1>4. CASE /\ \E w \in Worker : WorkerGiveUp(w) \/ WorkerCrash(w) \/ WorkerLeave(w)
           /\ UNCHANGED brokerVars
  BY <1>1, <1>4, WorkerInvStep, Untouched DEF IInv
<1> QED BY <1>2, <1>3, <1>4 DEF Fault

LEMMA InitIInv == Init => IInv
<1> SUFFICES ASSUME Init PROVE IInv
  OBVIOUS
<1>1. NetTypeOK
  <2>1. \A i \in Identity :
          (IF i[1] \in Worker /\ i[2] = 1 THEN <<Greeting(i[1])>> ELSE <<>>)
          \in Seq(PeerMessage)
    BY GreetingType
  <2>2. toBroker \in [Identity -> Seq(PeerMessage)]
    BY <2>1 DEF Init, NetInit
  <2>3. toPeer \in [Identity -> Seq(BrokerMessage)]
    BY DEF Init, NetInit
  <2>4. session \in [Peer -> 1 .. MaxSession] /\ open \subseteq Identity
    BY NetAssumption DEF Init, NetInit, Identity
  <2> QED BY <2>2, <2>3, <2>4 DEF NetTypeOK
<1>2. BrokerInv
  BY DEF Init, BrokerInit, BrokerInv, BrokerTypeOK, KnownHaveService,
         DispatchTarget, WorkConserving
<1>3. WorkerInv
  BY WorkerAssumption DEF Init, WorkerInit, WorkerInv, WorkerTypeOK, BusyHolds
<1>4. ClientInv
  BY ClientAssumption, NetAssumption
     DEF Init, ClientInit, ClientInv, ClientTypeOK, WaitingCalls
<1> QED BY <1>1, <1>2, <1>3, <1>4, FaultAssumption DEF Init, IInv

LEMMA NextIInv == IInv /\ [Next]_vars => IInv'
<1> SUFFICES ASSUME IInv, [Next]_vars PROVE IInv'
  OBVIOUS
<1>1. CASE BrokerStep
  BY <1>1, BrokerInvStep, Untouched DEF BrokerStep, IInv
<1>2. CASE \E w \in Worker : WorkerStep(w)
  BY <1>2, WorkerInvStep, Untouched DEF WorkerStep, IInv
<1>3. CASE \E c \in Client : ClientStep(c)
  BY <1>3, ClientInvStep, Untouched DEF ClientStep, IInv
<1>4. CASE Fault
  BY <1>4, FaultInvStep
<1>5. CASE UNCHANGED vars
  <2>1. NetTypeOK' /\ faults' \in 0 .. MaxFaults
    BY <1>5 DEF vars, netVars, IInv, NetTypeOK
  <2> QED BY <1>5, <2>1, Untouched DEF vars, IInv
<1> QED BY <1>1, <1>2, <1>3, <1>4, <1>5 DEF Next

LEMMA SpecIInv == Spec => []IInv
BY InitIInv, NextIInv, PTL DEF Spec

\* Every variable keeps its type: every handler puts only well-formed messages
\* into the channels, follows service pointers only of workers that have one
\* and leaves the application only with a request it was given.
THEOREM TypeCorrect == Spec => []TypeOK
<1>1. IInv => TypeOK
  BY DEF IInv, TypeOK, BrokerInv, WorkerInv, ClientInv
<1> QED BY <1>1, SpecIInv, PTL

\* s_service_dispatch is called wherever a request or an idle worker is added,
\* and nowhere else is it needed: outside the dispatch of its service no
\* request is queued while a worker waits for it.
THEOREM ConservesWork == Spec => []WorkConserving
<1>1. IInv => WorkConserving
  BY DEF IInv, BrokerInv
<1> QED BY <1>1, SpecIInv, PTL

-----------------------------------------------------------------------------
(***************************************************************************)
(* Permissions.  ListsAgree, WorkerCount and OnePermission need each other:*)
(* a worker enters the lists because a READY or a REPLY of its socket says *)
(* so, and that it is not in them yet is known only because the permission *)
(* can be in one place.  Where it is in the network matters too, so        *)
(* PlacesInv also says what sockets can hold.                              *)
(***************************************************************************)

\* A socket is open only while it is its owner's latest, and a socket that was
\* never opened left no trace.
SocketsInOrder ==
    /\ \A i \in open : i = Conn(i[1])
    /\ \A i \in Identity :
         i[2] > session[i[1]] => toBroker[i] = <<>> /\ toPeer[i] = <<>> /\ i \notin known

\* Clients call, workers greet with their own service, answer, beat and leave.
ClientSocket == Client \X (1 .. MaxSession)
WorkerSocket == Worker \X (1 .. MaxSession)
FromWorker(w) == {Greeting(w)} \cup Reply \cup {Heartbeat, Disconnect}

Roles ==
    /\ \A i \in ClientSocket : toBroker[i] \in Seq(Calls)
    /\ \A i \in WorkerSocket : toBroker[i] \in Seq(FromWorker(i[1]))

\* So the broker knows only workers, by the service they announced.
KnownAreWorkers ==
    /\ known \subseteq WorkerSocket
    /\ \A i \in known : service[i] = ServiceOf[i[1]]

\* s_worker_delete of a stranger touches no service.
StrangersServeNothing == \A i \in Identity \ known : service[i] = NoService

\* Only the application holds a request.
FreeHands == \A w \in Worker : workerPc[w] # "app" => held[w] = Nothing

Counted == IsFiniteSet(known) /\ WorkerCount

\* The places of a permission, and that it is in one of them only.
Told(i)  == Spots(toBroker[i], Ready \cup Reply)
Asked(i) == Spots(toPeer[i], Request)
Busy(i)  == \E w \in Worker : i = Conn(w) /\ held[w] # Nothing

Permit(i) ==
    /\ AtMostOne(Told(i))
    /\ AtMostOne(Asked(i))
    /\ Told(i) # {} => i \notin Range(waiting) /\ Asked(i) = {} /\ ~ Busy(i)
    /\ i \in Range(waiting) => Asked(i) = {} /\ ~ Busy(i)
    /\ Asked(i) # {} => ~ Busy(i)

Permits == \A i \in WorkerSocket : Permit(i)

PlacesInv ==
    /\ SocketsInOrder
    /\ Roles
    /\ KnownAreWorkers
    /\ StrangersServeNothing
    /\ FreeHands
    /\ ListsAgree
    /\ Counted
    /\ Permits

-----------------------------------------------------------------------------
(* What Append, Tail, SubSeq and Without do to the spots of a list.         *)

LEMMA SpotsAppend ==
    ASSUME NEW S, NEW list \in Seq(S), NEW m \in S, NEW M
    PROVE  Spots(Append(list, m), M) =
             Spots(list, M) \cup (IF m \in M THEN {Len(list) + 1} ELSE {})
<1>1. /\ Len(list) \in Nat
      /\ Len(Append(list, m)) = Len(list) + 1
      /\ \A k \in 1 .. Len(list) : Append(list, m)[k] = list[k]
      /\ Append(list, m)[Len(list) + 1] = m
  BY AppendProperties
<1> QED BY <1>1 DEF Spots

\* A list that loses members at its ends has no more spots than before.
Shrinks(A, B) == (AtMostOne(A) => AtMostOne(B)) /\ (A = {} => B = {})

LEMMA SpotsTail ==
    ASSUME NEW S, NEW list \in Seq(S), list # <<>>, NEW M
    PROVE  /\ Shrinks(Spots(list, M), Spots(Tail(list), M))
           /\ Head(list) \in M => 1 \in Spots(list, M)
           /\ Head(list) \in M /\ AtMostOne(Spots(list, M)) => Spots(Tail(list), M) = {}
<1>1. /\ Len(list) \in Nat \ {0}
      /\ Len(Tail(list)) = Len(list) - 1
      /\ \A k \in 1 .. Len(Tail(list)) : Tail(list)[k] = list[k + 1]
      /\ Head(list) = list[1]
  BY HeadTailProperties, EmptySeq
<1>2. \A k \in Spots(Tail(list), M) : k + 1 \in Spots(list, M) /\ k \in Nat \ {0}
  BY <1>1 DEF Spots
<1>3. Head(list) \in M => 1 \in Spots(list, M)
  BY <1>1 DEF Spots
<1>4. AtMostOne(Spots(list, M)) => AtMostOne(Spots(Tail(list), M))
  BY <1>2 DEF AtMostOne
<1>5. Head(list) \in M /\ AtMostOne(Spots(list, M)) => Spots(Tail(list), M) = {}
  BY <1>2, <1>3 DEF AtMostOne
<1> QED BY <1>2, <1>3, <1>4, <1>5 DEF Shrinks

LEMMA SpotsPrefix ==
    ASSUME NEW S, NEW list \in Seq(S), NEW n \in 0 .. Len(list), NEW M
    PROVE  Shrinks(Spots(list, M), Spots(SubSeq(list, 1, n), M))
<1>1. Len(list) \in Nat
  OBVIOUS
<1>2. \A k \in 1 .. n : list[k] \in S
  BY <1>1
<1>3. /\ Len(SubSeq(list, 1, n)) = n
      /\ \A k \in 1 .. n : SubSeq(list, 1, n)[k] = list[k]
  BY <1>1, <1>2, SubSeqProperties
<1>4. Spots(SubSeq(list, 1, n), M) \subseteq Spots(list, M)
  BY <1>1, <1>3 DEF Spots
<1> QED BY <1>4 DEF Shrinks, AtMostOne

LEMMA SpotsEmpty ==
    ASSUME NEW M
    PROVE  Spots(<<>>, M) = {}
BY DEF Spots

LEMMA SpotsRange ==
    ASSUME NEW S, NEW list \in Seq(S), NEW x
    PROVE  Spots(list, {x}) = {} <=> x \notin Range(list)
BY DEF Spots, Range

-----------------------------------------------------------------------------
(* The same for the order of a list. *)

LEMMA BeforeType ==
    ASSUME NEW S, NEW list \in Seq(S), NEW i, NEW j, Before(list, i, j)
    PROVE  i \in Range(list) /\ j \in Range(list)
BY DEF Before, Range

LEMMA BeforeAppend ==
    ASSUME NEW S, NEW list \in Seq(S), NEW e \in S
    PROVE  /\ Range(Append(list, e)) = Range(list) \cup {e}
           /\ \A i, j : Before(Append(list, e), i, j)
                        <=> Before(list, i, j) \/ (i \in Range(list) /\ j = e)
<1> DEFINE long == Append(list, e)
<1>1. /\ Len(list) \in Nat
      /\ Len(long) = Len(list) + 1
      /\ \A k \in 1 .. Len(list) : long[k] = list[k]
      /\ long[Len(list) + 1] = e
      /\ DOMAIN long = 1 .. Len(list) + 1
      /\ DOMAIN list = 1 .. Len(list)
  BY AppendProperties, LenProperties
<1> HIDE DEF long
<1>2. Range(long) = Range(list) \cup {e}
  BY <1>1 DEF Range
<1>3. ASSUME NEW i, NEW j, Before(long, i, j)
      PROVE  Before(list, i, j) \/ (i \in Range(list) /\ j = e)
  BY <1>1, <1>3 DEF Before, Range
<1>4. ASSUME NEW i, NEW j, Before(list, i, j)
      PROVE  Before(long, i, j)
  BY <1>1, <1>4 DEF Before
<1>5. ASSUME NEW i \in Range(list)
      PROVE  Before(long, i, e)
  BY <1>1, <1>5 DEF Before, Range
<1> QED BY <1>2, <1>3, <1>4, <1>5 DEF long

LEMMA NoneTwice ==
    ASSUME NEW S, NEW list \in Seq(S), \A i \in S : ~ Before(list, i, i)
    PROVE  \A p, q \in 1 .. Len(list) : list[p] = list[q] => p = q
<1>1. SUFFICES ASSUME NEW p \in 1 .. Len(list), NEW q \in 1 .. Len(list),
                      list[p] = list[q], p # q
               PROVE  FALSE
  OBVIOUS
<1>2. list[p] \in S
  OBVIOUS
<1>3. p < q \/ q < p
  <2>1. p \in Int /\ q \in Int
    OBVIOUS
  <2> QED BY <1>1, <2>1
<1> QED BY <1>1, <1>2, <1>3 DEF Before

LEMMA BeforeTail ==
    ASSUME NEW S, NEW list \in Seq(S), list # <<>>, \A i \in S : ~ Before(list, i, i)
    PROVE  /\ Range(Tail(list)) = Range(list) \ {Head(list)}
           /\ Head(list) \in Range(list)
           /\ \A i, j : Before(Tail(list), i, j)
                <=> Before(list, i, j) /\ i # Head(list) /\ j # Head(list)
<1> DEFINE short == Tail(list)
           e == Head(list)
<1>0. short \in Seq(S) /\ Len(short) = Len(list) - 1
  BY HeadTailProperties
<1>1. /\ Len(list) \in Nat \ {0}
      /\ Len(short) = Len(list) - 1
      /\ \A k \in 1 .. Len(list) - 1 : short[k] = list[k + 1]
      /\ e = list[1]
      /\ DOMAIN short = 1 .. Len(list) - 1
      /\ DOMAIN list = 1 .. Len(list)
  BY <1>0, HeadTailProperties, EmptySeq, LenProperties
<1>2. \A p, q \in 1 .. Len(list) : list[p] = list[q] => p = q
  BY NoneTwice
<1> HIDE DEF short, e
<1>3. \A k \in 2 .. Len(list) : list[k] # e /\ k - 1 \in 1 .. Len(list) - 1 /\ short[k - 1] = list[k]
  BY <1>1, <1>2
<1>4. Range(short) = Range(list) \ {e}
  <2>1. \A k \in 1 .. Len(list) - 1 : k + 1 \in 2 .. Len(list)
    BY <1>1
  <2>2. Range(short) \subseteq Range(list) \ {e}
    BY <1>1, <1>3, <2>1 DEF Range
  <2>3. \A k \in 1 .. Len(list) : k = 1 \/ k \in 2 .. Len(list)
    BY <1>1
  <2>4. Range(list) \ {e} \subseteq Range(short)
    <3>1. ASSUME NEW k \in 1 .. Len(list), list[k] # e
          PROVE  list[k] \in Range(short)
      <4>1. k \in 2 .. Len(list)
        BY <1>1, <2>3, <3>1
      <4>2. k - 1 \in DOMAIN short /\ short[k - 1] = list[k]
        BY <1>1, <1>3, <4>1
      <4> QED BY <4>2 DEF Range
    <3> QED BY <1>1, <3>1 DEF Range
  <2> QED BY <2>2, <2>4
<1>5. e \in Range(list)
  BY <1>1 DEF Range
<1>6. ASSUME NEW i, NEW j, Before(short, i, j)
      PROVE  Before(list, i, j) /\ i # e /\ j # e
  <2>1. PICK p \in 1 .. Len(short), q \in 1 .. Len(short) :
               p < q /\ short[p] = i /\ short[q] = j
    BY <1>6 DEF Before
  <2>2. /\ p + 1 \in 1 .. Len(list) /\ q + 1 \in 1 .. Len(list) /\ p + 1 < q + 1
        /\ list[p + 1] = i /\ list[q + 1] = j
    BY <1>1, <2>1
  <2>3. i # e /\ j # e
    BY <1>1, <1>2, <2>1, <2>2
  <2> QED BY <2>2, <2>3 DEF Before
<1>7. ASSUME NEW i, NEW j, Before(list, i, j), i # e, j # e
      PROVE  Before(short, i, j)
  <2>1. PICK p \in 1 .. Len(list), q \in 1 .. Len(list) :
               p < q /\ list[p] = i /\ list[q] = j
    BY <1>7 DEF Before
  <2>2. p \in 2 .. Len(list) /\ q \in 2 .. Len(list)
    BY <1>1, <1>7, <2>1
  <2>3. p - 1 < q - 1 /\ short[p - 1] = i /\ short[q - 1] = j
        /\ p - 1 \in 1 .. Len(short) /\ q - 1 \in 1 .. Len(short)
    BY <1>1, <1>3, <2>1, <2>2
  <2> QED BY <2>3 DEF Before
<1>8. \A i, j : Before(short, i, j) <=> Before(list, i, j) /\ i # e /\ j # e
  BY <1>6, <1>7
<1> QED BY <1>4, <1>5, <1>8 DEF short, e

\* zlist_remove from a list that names nobody twice.
LEMMA BeforeWithout ==
    ASSUME NEW S, NEW list \in Seq(S), NEW e, \A i \in S : ~ Before(list, i, i)
    PROVE  /\ Range(Without(list, e)) = Range(list) \ {e}
           /\ \A i, j : Before(Without(list, e), i, j)
                        <=> Before(list, i, j) /\ i # e /\ j # e
<1>1. CASE ~ \E j \in 1 .. Len(list) : list[j] = e
  <2>1. Without(list, e) = list
    BY <1>1 DEF Without
  <2>2. e \notin Range(list)
    BY <1>1 DEF Range
  <2> QED BY <2>1, <2>2, BeforeType
<1>2. CASE \E j \in 1 .. Len(list) : list[j] = e
  <2>1. PICK n \in 1 .. Len(list) : list[n] = e
    BY <1>2
  <2>2. Len(list) \in Nat /\ DOMAIN list = 1 .. Len(list) /\ Len(list) - 1 \in Nat
    BY <2>1
  <2>3. \A p, q \in 1 .. Len(list) : list[p] = list[q] => p = q
    BY NoneTwice
  <2>4. Without(list, e) = [k \in 1 .. Len(list) - 1 |->
                              IF k < n THEN list[k] ELSE list[k + 1]]
    <3>1. \A k \in 1 .. Len(list) - 1 : (\E j \in 1 .. k : list[j] = e) <=> ~ (k < n)
      BY <2>1, <2>2, <2>3
    <3> QED BY <1>2, <3>1 DEF Without
  <2> DEFINE short == Without(list, e)
  <2>5. /\ DOMAIN short = 1 .. Len(list) - 1
        /\ Len(short) = Len(list) - 1
        /\ \A k \in 1 .. Len(list) - 1 :
              short[k] = IF k < n THEN list[k] ELSE list[k + 1]
    BY <2>2, <2>4
  <2> HIDE DEF short
  <2> DEFINE up(k) == IF k < n THEN k ELSE k + 1
             down(k) == IF k < n THEN k ELSE k - 1
  <2>6. \A k \in 1 .. Len(list) - 1 :
          up(k) \in 1 .. Len(list) /\ up(k) # n /\ short[k] = list[up(k)]
    BY <2>1, <2>2, <2>5
  <2>7. \A k \in 1 .. Len(list) : k # n =>
          down(k) \in 1 .. Len(list) - 1 /\ short[down(k)] = list[k]
    BY <2>1, <2>2, <2>5
  <2>8. \A k \in 1 .. Len(list) : k # n <=> list[k] # e
    BY <2>1, <2>3
  <2>9. Range(short) \subseteq Range(list) \ {e}
    BY <2>2, <2>5, <2>6, <2>8 DEF Range
  <2>10. Range(list) \ {e} \subseteq Range(short)
    BY <2>2, <2>5, <2>7, <2>8 DEF Range
  <2>11. ASSUME NEW i, NEW j, Before(short, i, j)
         PROVE  Before(list, i, j) /\ i # e /\ j # e
    <3>1. PICK p \in 1 .. Len(short), q \in 1 .. Len(short) :
               p < q /\ short[p] = i /\ short[q] = j
      BY <2>11 DEF Before
    <3>2. /\ up(p) \in 1 .. Len(list) /\ up(q) \in 1 .. Len(list)
          /\ up(p) # n /\ up(q) # n
          /\ list[up(p)] = i /\ list[up(q)] = j
      BY <2>5, <2>6, <3>1
    <3>3. up(p) < up(q)
      BY <3>1, <2>1, <2>2
    <3>4. i # e /\ j # e
      BY <2>8, <3>2
    <3> QED BY <3>2, <3>3, <3>4 DEF Before
  <2>12. ASSUME NEW i, NEW j, Before(list, i, j), i # e, j # e
         PROVE  Before(short, i, j)
    <3>1. PICK p \in 1 .. Len(list), q \in 1 .. Len(list) :
               p < q /\ list[p] = i /\ list[q] = j
      BY <2>12 DEF Before
    <3>2. p # n /\ q # n
      BY <2>1, <2>12, <3>1
    <3>3. /\ down(p) \in 1 .. Len(short) /\ down(q) \in 1 .. Len(short)
          /\ short[down(p)] = i /\ short[down(q)] = j
      BY <2>5, <2>7, <3>1, <3>2
    <3>4. down(p) < down(q)
      BY <3>1, <3>2, <2>1, <2>2
    <3> QED BY <3>3, <3>4 DEF Before
  <2> QED BY <2>9, <2>10, <2>11, <2>12 DEF short
<1> QED BY <1>1, <1>2
LEMMA SpotsBefore ==
    ASSUME NEW S, NEW list \in Seq(S), NEW x, ~ Before(list, x, x)
    PROVE  AtMostOne(Spots(list, {x}))
<1>1. SUFFICES ASSUME NEW p \in 1 .. Len(list), NEW q \in 1 .. Len(list),
                      list[p] = x, list[q] = x, p # q
               PROVE  FALSE
  BY DEF AtMostOne, Spots
<1>2. p \in Int /\ q \in Int
  OBVIOUS
<1>3. p < q \/ q < p
  BY <1>1, <1>2
<1> QED BY <1>1, <1>3 DEF Before

-----------------------------------------------------------------------------
(* What the handlers of the broker do to its lists. *)

\* The lists of the services name nobody twice either.
LEMMA ServiceLists ==
    ASSUME BrokerTypeOK, ListsAgree, NEW s \in ServiceName
    PROVE  /\ swaiting[s] \in Seq(Identity)
           /\ waiting \in Seq(Identity)
           /\ \A i \in Identity : ~ Before(waiting, i, i)
           /\ \A i \in Identity : ~ Before(swaiting[s], i, i)
           /\ Range(swaiting[s]) = {i \in Range(waiting) : service[i] = s}
           /\ Range(waiting) \subseteq known
           /\ \A i, j : Before(swaiting[s], i, j)
                        <=> Before(waiting, i, j) /\ service[i] = s /\ service[j] = s
<1>1. swaiting[s] \in Seq(Identity) /\ waiting \in Seq(Identity)
  BY DEF BrokerTypeOK
<1>2. /\ Range(swaiting[s]) = {i \in Range(waiting) : service[i] = s}
      /\ Range(waiting) \subseteq known
  BY DEF ListsAgree
<1>3. \A i, j : Before(waiting, i, j) => i \in known /\ j \in known
  BY <1>1, <1>2, BeforeType
<1>4. \A i, j : Before(swaiting[s], i, j) => i \in known /\ j \in known
  BY <1>1, <1>2, BeforeType
<1>5. \A i, j : Before(swaiting[s], i, j)
                <=> Before(waiting, i, j) /\ service[i] = s /\ service[j] = s
  BY <1>3, <1>4 DEF ListsAgree
<1>6. \A i \in Identity : ~ Before(waiting, i, i)
  BY <1>3 DEF ListsAgree
<1> QED BY <1>1, <1>2, <1>5, <1>6

\* s_worker_waiting, of a worker that is in no list.
LEMMA WaitingLists ==
    ASSUME BrokerTypeOK, ListsAgree, NEW i \in Identity, NEW s \in ServiceName,
           i \notin Range(waiting), WorkerWaiting(i, s),
           known' = known \cup {i}, service'[i] = s,
           \A j \in known \ {i} : service'[j] = service[j]
    PROVE  ListsAgree' /\ Range(waiting') = Range(waiting) \cup {i}
<1>1. /\ waiting' = Append(waiting, i)
      /\ swaiting' = [swaiting EXCEPT ![s] = Append(@, i)]
  BY DEF WorkerWaiting
<1>2. /\ waiting \in Seq(Identity)
      /\ \A j : ~ Before(waiting, j, j)
      /\ Range(waiting) \subseteq known
  BY ServiceLists, BeforeType DEF ListsAgree, BrokerTypeOK
<1>3. /\ Range(waiting') = Range(waiting) \cup {i}
      /\ \A j, k : Before(waiting', j, k)
                   <=> Before(waiting, j, k) \/ (j \in Range(waiting) /\ k = i)
  BY <1>1, <1>2, BeforeAppend
<1>4. \A j \in Range(waiting) : service'[j] = service[j] /\ j # i
  BY <1>2
<1>5. \A j, k : Before(waiting, j, k) => j \in Range(waiting) /\ k \in Range(waiting)
  BY <1>2, BeforeType
<1>6. ASSUME NEW t \in ServiceName
      PROVE  /\ Range(swaiting'[t]) = {j \in Range(waiting') : service'[j] = t}
             /\ \A j, k : Before(swaiting'[t], j, k)
                  <=> Before(waiting', j, k) /\ service'[j] = t /\ service'[k] = t
  <2>1. /\ swaiting[t] \in Seq(Identity)
        /\ Range(swaiting[t]) = {j \in Range(waiting) : service[j] = t}
        /\ \A j, k : Before(swaiting[t], j, k)
                     <=> Before(waiting, j, k) /\ service[j] = t /\ service[k] = t
    BY ServiceLists
  <2>2. CASE t = s
    <3>1. swaiting'[t] = Append(swaiting[t], i)
      BY <1>1, <2>2 DEF BrokerTypeOK
    <3>2. /\ Range(swaiting'[t]) = Range(swaiting[t]) \cup {i}
          /\ \A j, k : Before(swaiting'[t], j, k)
               <=> Before(swaiting[t], j, k) \/ (j \in Range(swaiting[t]) /\ k = i)
      BY <2>1, <3>1, BeforeAppend
    <3>3. Range(swaiting'[t]) = {j \in Range(waiting') : service'[j] = t}
      BY <1>3, <1>4, <2>1, <2>2, <3>2
    <3>4. ASSUME NEW j, NEW k
          PROVE  Before(swaiting'[t], j, k)
                 <=> Before(waiting', j, k) /\ service'[j] = t /\ service'[k] = t
      BY <1>3, <1>4, <1>5, <2>1, <2>2, <3>2
    <3> QED BY <3>3, <3>4
  <2>3. CASE t # s
    <3>1. swaiting'[t] = swaiting[t]
      BY <1>1, <2>3 DEF BrokerTypeOK
    <3>2. Range(swaiting'[t]) = {j \in Range(waiting') : service'[j] = t}
      BY <1>3, <1>4, <2>1, <2>3, <3>1
    <3>3. ASSUME NEW j, NEW k
          PROVE  Before(swaiting'[t], j, k)
                 <=> Before(waiting', j, k) /\ service'[j] = t /\ service'[k] = t
      BY <1>3, <1>4, <1>5, <2>1, <2>3, <3>1
    <3> QED BY <3>2, <3>3
  <2> QED BY <2>2, <2>3
<1>7. \A j \in known' : ~ Before(waiting', j, j)
  BY <1>2, <1>3
<1>8. Range(waiting') \subseteq known'
  BY <1>2, <1>3
<1> QED BY <1>3, <1>6, <1>7, <1>8 DEF ListsAgree

\* s_worker_delete takes the worker out of every list it is in.
LEMMA DeleteLists ==
    ASSUME BrokerTypeOK, ListsAgree, NEW i \in Identity, WorkerDelete(i)
    PROVE  ListsAgree' /\ Range(waiting') = Range(waiting) \ {i}
<1>1. /\ known' = known \ {i}
      /\ service' = [service EXCEPT ![i] = NoService]
      /\ waiting' = Without(waiting, i)
      /\ swaiting' = [s \in ServiceName |-> IF s = service[i] THEN Without(swaiting[s], i)
                                            ELSE swaiting[s]]
  BY DEF WorkerDelete
<1>2. /\ waiting \in Seq(Identity)
      /\ \A j : ~ Before(waiting, j, j)
      /\ Range(waiting) \subseteq known
  BY ServiceLists, BeforeType DEF ListsAgree, BrokerTypeOK
<1>3. /\ Range(waiting') = Range(waiting) \ {i}
      /\ \A j, k : Before(waiting', j, k) <=> Before(waiting, j, k) /\ j # i /\ k # i
  BY <1>1, <1>2, BeforeWithout
<1>4. \A j \in Range(waiting) \ {i} : service'[j] = service[j]
  BY <1>1, <1>2 DEF BrokerTypeOK
<1>5. \A j, k : Before(waiting, j, k) => j \in Range(waiting) /\ k \in Range(waiting)
  BY <1>2, BeforeType
<1>6. ASSUME NEW t \in ServiceName
      PROVE  /\ Range(swaiting'[t]) = {j \in Range(waiting') : service'[j] = t}
             /\ \A j, k : Before(swaiting'[t], j, k)
                  <=> Before(waiting', j, k) /\ service'[j] = t /\ service'[k] = t
  <2>1. /\ swaiting[t] \in Seq(Identity)
        /\ \A j \in Identity : ~ Before(swaiting[t], j, j)
        /\ Range(swaiting[t]) = {j \in Range(waiting) : service[j] = t}
        /\ \A j, k : Before(swaiting[t], j, k)
                     <=> Before(waiting, j, k) /\ service[j] = t /\ service[k] = t
    BY ServiceLists
  <2>2. /\ Range(swaiting'[t]) = Range(swaiting[t]) \ {i}
        /\ \A j, k : Before(swaiting'[t], j, k)
                     <=> Before(swaiting[t], j, k) /\ j # i /\ k # i
    <3>1. CASE t = service[i]
      <4>1. swaiting'[t] = Without(swaiting[t], i)
        BY <1>1, <3>1
      <4> QED BY <2>1, <4>1, BeforeWithout
    <3>2. CASE t # service[i]
      <4>1. swaiting'[t] = swaiting[t]
        BY <1>1, <3>2
      <4>2. i \notin Range(swaiting[t])
        BY <2>1, <3>2
      <4> QED BY <2>1, <3>2, <4>1, <4>2
    <3> QED BY <3>1, <3>2
  <2>3. Range(swaiting'[t]) = {j \in Range(waiting') : service'[j] = t}
    BY <1>3, <1>4, <2>1, <2>2
  <2>4. ASSUME NEW j, NEW k
        PROVE  Before(swaiting'[t], j, k)
               <=> Before(waiting', j, k) /\ service'[j] = t /\ service'[k] = t
    BY <1>3, <1>4, <1>5, <2>1, <2>2
  <2> QED BY <2>3, <2>4
<1>7. \A j \in known' : ~ Before(waiting', j, j)
  BY <1>2, <1>3
<1>8. Range(waiting') \subseteq known'
  BY <1>1, <1>2, <1>3
<1> QED BY <1>3, <1>6, <1>7, <1>8 DEF ListsAgree

\* A turn of s_service_dispatch takes the head of a service's list out of both.
LEMMA DispatchLists ==
    ASSUME BrokerTypeOK, ListsAgree, DispatchTarget, Dispatch
    PROVE  /\ ListsAgree'
           /\ Head(swaiting[current]) \in Range(waiting)
           /\ service[Head(swaiting[current])] = current
           /\ Range(waiting') = Range(waiting) \ {Head(swaiting[current])}
<1> DEFINE i == Head(swaiting[current])
<1>1. /\ waiting' = Without(waiting, i)
      /\ swaiting' = [swaiting EXCEPT ![current] = Tail(@)]
      /\ swaiting[current] # <<>>
      /\ current \in ServiceName
      /\ UNCHANGED <<known, service>>
  BY DEF Dispatch, DispatchTarget
<1>2. /\ waiting \in Seq(Identity)
      /\ \A j : ~ Before(waiting, j, j)
      /\ Range(waiting) \subseteq known
  BY ServiceLists, BeforeType DEF ListsAgree, BrokerTypeOK
<1>3. /\ Range(waiting') = Range(waiting) \ {i}
      /\ \A j, k : Before(waiting', j, k) <=> Before(waiting, j, k) /\ j # i /\ k # i
  BY <1>1, <1>2, BeforeWithout
<1>4. /\ swaiting[current] \in Seq(Identity)
      /\ \A j \in Identity : ~ Before(swaiting[current], j, j)
      /\ Range(swaiting[current]) = {j \in Range(waiting) : service[j] = current}
  BY <1>1, ServiceLists
<1>5. i \in Range(waiting) /\ service[i] = current
  BY <1>1, <1>4, BeforeTail
<1>6. ASSUME NEW t \in ServiceName
      PROVE  /\ Range(swaiting'[t]) = {j \in Range(waiting') : service'[j] = t}
             /\ \A j, k : Before(swaiting'[t], j, k)
                  <=> Before(waiting', j, k) /\ service'[j] = t /\ service'[k] = t
  <2>1. /\ swaiting[t] \in Seq(Identity)
        /\ Range(swaiting[t]) = {j \in Range(waiting) : service[j] = t}
        /\ \A j, k : Before(swaiting[t], j, k)
                     <=> Before(waiting, j, k) /\ service[j] = t /\ service[k] = t
    BY ServiceLists
  <2>2. /\ Range(swaiting'[t]) = Range(swaiting[t]) \ {i}
        /\ \A j, k : Before(swaiting'[t], j, k)
                     <=> Before(swaiting[t], j, k) /\ j # i /\ k # i
    <3>1. CASE t = current
      <4>1. swaiting'[t] = Tail(swaiting[t])
        BY <1>1, <3>1 DEF BrokerTypeOK
      <4> QED BY <1>1, <1>4, <3>1, <4>1, BeforeTail
    <3>2. CASE t # current
      <4>1. swaiting'[t] = swaiting[t]
        BY <1>1, <3>2 DEF BrokerTypeOK
      <4>2. i \notin Range(swaiting[t])
        BY <1>5, <2>1, <3>2
      <4> QED BY <1>5, <2>1, <3>2, <4>1, <4>2
    <3> QED BY <3>1, <3>2
  <2>3. Range(swaiting'[t]) = {j \in Range(waiting') : service'[j] = t}
    BY <1>1, <1>3, <2>1, <2>2
  <2>4. ASSUME NEW j, NEW k
        PROVE  Before(swaiting'[t], j, k)
               <=> Before(waiting', j, k) /\ service'[j] = t /\ service'[k] = t
    BY <1>1, <1>3, <2>1, <2>2
  <2> QED BY <2>3, <2>4
<1>7. \A j \in known' : ~ Before(waiting', j, j)
  BY <1>2, <1>3
<1>8. Range(waiting') \subseteq known'
  BY <1>1, <1>2, <1>3
<1> QED BY <1>3, <1>5, <1>6, <1>7, <1>8 DEF ListsAgree

-----------------------------------------------------------------------------
(* service->workers counts the known workers. *)

LEMMA CountReady ==
    ASSUME BrokerTypeOK, Counted, NEW i \in Identity, NEW s \in ServiceName,
           i \notin known, known' = known \cup {i},
           service' = [service EXCEPT ![i] = s],
           nworkers' = [nworkers EXCEPT ![s] = @ + 1]
    PROVE  Counted'
<1>1. IsFiniteSet(known')
  BY FS_AddElement DEF Counted
<1>2. ASSUME NEW t \in ServiceName
      PROVE  nworkers'[t] = Cardinality({j \in known' : service'[j] = t})
  <2> DEFINE of == {j \in known : service[j] = t}
             ofNow == {j \in known' : service'[j] = t}
  <2>1. IsFiniteSet(of) /\ i \notin of
    BY FS_Subset DEF Counted
  <2>2. nworkers[t] = Cardinality(of)
    BY DEF Counted, WorkerCount
  <2>3. CASE t = s
    <3>1. ofNow = of \cup {i}
      BY <2>3 DEF BrokerTypeOK
    <3>2. Cardinality(ofNow) = Cardinality(of) + 1
      BY <2>1, <3>1, FS_AddElement
    <3>3. nworkers'[t] = nworkers[t] + 1
      BY <2>3 DEF BrokerTypeOK
    <3> QED BY <2>2, <3>2, <3>3
  <2>4. CASE t # s
    <3>1. ofNow = of
      BY <2>4 DEF BrokerTypeOK
    <3>2. nworkers'[t] = nworkers[t]
      BY <2>4 DEF BrokerTypeOK
    <3> QED BY <2>2, <3>1, <3>2
  <2> QED BY <2>3, <2>4
<1> QED BY <1>1, <1>2 DEF Counted, WorkerCount

LEMMA CountDelete ==
    ASSUME BrokerTypeOK, KnownHaveService, StrangersServeNothing, Counted,
           NEW i \in Identity, WorkerDelete(i)
    PROVE  Counted' /\ StrangersServeNothing'
<1>1. /\ known' = known \ {i}
      /\ service' = [service EXCEPT ![i] = NoService]
      /\ nworkers' = [s \in ServiceName |->
                        IF s = service[i] THEN nworkers[s] - 1 ELSE nworkers[s]]
  BY DEF WorkerDelete
<1>2. IsFiniteSet(known')
  BY <1>1, FS_RemoveElement DEF Counted
<1>3. StrangersServeNothing'
  BY <1>1 DEF StrangersServeNothing, BrokerTypeOK
<1>4. ASSUME NEW t \in ServiceName
      PROVE  nworkers'[t] = Cardinality({j \in known' : service'[j] = t})
  <2> DEFINE of == {j \in known : service[j] = t}
             ofNow == {j \in known' : service'[j] = t}
  <2>1. IsFiniteSet(of)
    BY FS_Subset DEF Counted
  <2>2. nworkers[t] = Cardinality(of)
    BY DEF Counted, WorkerCount
  <2>3. ofNow = of \ {i}
    BY <1>1, BrokerAssumption DEF BrokerTypeOK
  <2>4. CASE t = service[i]
    <3>1. i \in of
      BY <2>4, BrokerAssumption DEF StrangersServeNothing
    <3>2. Cardinality(ofNow) = Cardinality(of) - 1
      BY <2>1, <2>3, <3>1, FS_RemoveElement
    <3>3. nworkers'[t] = nworkers[t] - 1
      BY <1>1, <2>4
    <3> QED BY <2>2, <3>2, <3>3
  <2>5. CASE t # service[i]
    <3>1. ofNow = of
      BY <2>3, <2>5
    <3>2. nworkers'[t] = nworkers[t]
      BY <1>1, <2>5
    <3> QED BY <2>2, <3>1, <3>2
  <2> QED BY <2>4, <2>5
<1> QED BY <1>2, <1>3, <1>4 DEF Counted, WorkerCount

-----------------------------------------------------------------------------
(* The network. *)

LEMMA Sockets ==
    /\ Identity = ClientSocket \cup WorkerSocket
    /\ ClientSocket \cap WorkerSocket = {}
    /\ \A i \in Identity : i[1] \in Peer /\ i[2] \in 1 .. MaxSession /\ i = <<i[1], i[2]>>
BY NetAssumption DEF Identity, Peer, ClientSocket, WorkerSocket

LEMMA ConnOf ==
    ASSUME NetTypeOK, NEW p \in Peer
    PROVE  /\ Conn(p) \in Identity
           /\ Conn(p)[1] = p /\ Conn(p)[2] = session[p]
           /\ session[p] \in 1 .. MaxSession
           /\ p \in Worker => Conn(p) \in WorkerSocket
           /\ p \in Client => Conn(p) \in ClientSocket
BY DEF NetTypeOK, Conn, Identity, WorkerSocket, ClientSocket

\* A permission is kept when nothing is added to any of its places.
LEMMA PermitShrinks ==
    ASSUME NEW i, Permit(i), Shrinks(Told(i), Told(i)'), Shrinks(Asked(i), Asked(i)'),
           Range(waiting') \subseteq Range(waiting), Busy(i)' => Busy(i)
    PROVE  Permit(i)'
BY DEF Permit, Shrinks

\* What the broker routes that is not a request.
LEMMA RoutedAsked ==
    ASSUME NetTypeOK, NEW x, NEW m \in BrokerMessage, m \notin Request, Routed(x, m)
    PROVE  \A j \in Identity : /\ Asked(j)' = Asked(j)
                               /\ j \notin open => toPeer'[j] = toPeer[j]
<1>1. ASSUME NEW j \in Identity
      PROVE  toPeer'[j] = toPeer[j] \/ (j \in open /\ toPeer'[j] = Append(toPeer[j], m))
  BY DEF NetTypeOK, Routed
<1>2. ASSUME NEW j \in Identity
      PROVE  Asked(j)' = Asked(j)
  <2>1. toPeer[j] \in Seq(BrokerMessage)
    BY DEF NetTypeOK
  <2>2. Spots(Append(toPeer[j], m), Request) =
          Spots(toPeer[j], Request) \cup (IF m \in Request THEN {Len(toPeer[j]) + 1} ELSE {})
    BY <2>1, SpotsAppend
  <2>3. Spots(Append(toPeer[j], m), Request) = Spots(toPeer[j], Request)
    BY <2>2
  <2> QED BY <1>1, <2>3 DEF Asked
<1> QED BY <1>1, <1>2

\* Routed and the heartbeat round reach only open sockets, the latest of their
\* owners; the broker makes known only a socket that has spoken.
LEMMA SocketsBroker ==
    ASSUME NetTypeOK, SocketsInOrder, UNCHANGED <<session, open>>,
           \A j \in Identity : /\ j \notin open => toPeer'[j] = toPeer[j]
                               /\ toBroker[j] = <<>> => toBroker'[j] = <<>>
                               /\ j \in known' => j \in known \/ toBroker[j] # <<>>
    PROVE  SocketsInOrder'
<1>1. ASSUME NEW j \in Identity, j[2] > session[j[1]]
      PROVE  j \notin open
  BY <1>1, ConnOf, Sockets DEF SocketsInOrder, NetTypeOK
<1>2. \A p : Conn(p)' = Conn(p)
  BY DEF Conn
<1> QED BY <1>1, <1>2 DEF SocketsInOrder

\* Taking a message out of a channel, or losing the end of a channel, leaves
\* everybody in their role.
LEMMA RolesShrink ==
    ASSUME Roles, NEW c \in Identity,
           \A j \in Identity \ {c} : toBroker'[j] = toBroker[j],
           \A S : toBroker[c] \in Seq(S) => toBroker'[c] \in Seq(S)
    PROVE  Roles'
<1>1. ASSUME NEW i \in ClientSocket
      PROVE  toBroker'[i] \in Seq(Calls)
  BY Sockets DEF Roles
<1>2. ASSUME NEW i \in WorkerSocket
      PROVE  toBroker'[i] \in Seq(FromWorker(i[1]))
  BY Sockets DEF Roles
<1> QED BY <1>1, <1>2 DEF Roles

\* One message more in a worker's channel, of a kind that workers send.
LEMMA RolesSend ==
    ASSUME NetTypeOK, Roles, NEW w \in Worker,
           NEW m \in FromWorker(w), Send(w, m)
    PROVE  Roles'
<1>1. Conn(w) \in WorkerSocket /\ Conn(w)[1] = w /\ Conn(w) \in Identity
  BY ConnOf DEF Peer
<1>2. toBroker[Conn(w)] \in Seq(FromWorker(w))
  BY <1>1 DEF Roles
<1>3. Append(toBroker[Conn(w)], m) \in Seq(FromWorker(w))
  BY <1>2
<1>4. \A j \in Identity : toBroker'[j] = IF j = Conn(w) THEN Append(toBroker[j], m)
                                         ELSE toBroker[j]
  BY <1>1 DEF NetTypeOK, Send
<1> QED BY <1>1, <1>3, <1>4, Sockets DEF Roles

-----------------------------------------------------------------------------
\* A handler that leaves the broker's lists alone.
LEMMA ListsStill ==
    ASSUME PlacesInv, UNCHANGED <<known, service, waiting, swaiting, nworkers>>
    PROVE  ListsAgree' /\ Counted' /\ StrangersServeNothing' /\ KnownAreWorkers'
<1>1. ListsAgree'
  BY DEF PlacesInv, ListsAgree, Before
<1>2. Counted'
  BY DEF PlacesInv, Counted, WorkerCount
<1>3. StrangersServeNothing' /\ KnownAreWorkers'
  BY DEF PlacesInv, StrangersServeNothing, KnownAreWorkers
<1> QED BY <1>1, <1>2, <1>3

\* A handler that deletes a worker.
LEMMA ListsDelete ==
    ASSUME BrokerInv, PlacesInv, NEW i \in Identity, WorkerDelete(i)
    PROVE  /\ ListsAgree' /\ Counted' /\ StrangersServeNothing' /\ KnownAreWorkers'
           /\ known' \subseteq known /\ Range(waiting') \subseteq Range(waiting)
<1>1. ListsAgree' /\ Range(waiting') = Range(waiting) \ {i}
  BY DeleteLists DEF BrokerInv, PlacesInv
<1>2. Counted' /\ StrangersServeNothing'
  BY CountDelete DEF BrokerInv, PlacesInv
<1>3. KnownAreWorkers' /\ known' \subseteq known
  BY DEF WorkerDelete, PlacesInv, KnownAreWorkers, BrokerInv, BrokerTypeOK
<1> QED BY <1>1, <1>2, <1>3

\* What a handler of the message m of socket i may do to the places: the lists
\* stay sound, no request is sent, and only a READY or a REPLY puts its own
\* worker into the lists.
HandlerKeeps(i, m) ==
    /\ ListsAgree' /\ Counted' /\ StrangersServeNothing' /\ KnownAreWorkers'
    /\ known' \subseteq known \cup {i}
    /\ \A j \in Identity : /\ Asked(j)' = Asked(j)
                           /\ j \notin open => toPeer'[j] = toPeer[j]
    /\ \/ Range(waiting') \subseteq Range(waiting)
       \/ /\ m \in Ready \cup Reply
          /\ Range(waiting') = Range(waiting) \cup {i}

LEMMA HandlerPlaces ==
    ASSUME NetTypeOK, BrokerInv, PlacesInv, NEW i \in Identity, BrokerMessageIn(i)
    PROVE  HandlerKeeps(i, Head(toBroker[i]))
<1> DEFINE m == Head(toBroker[i])
<1>1. toBroker[i] \in Seq(PeerMessage) /\ toBroker[i] # <<>>
  BY DEF NetTypeOK, BrokerMessageIn
<1>2. m \in PeerMessage
  BY <1>1
<1>3. i \in ClientSocket => m.cmd = "CALL"
  <2>1. i \in ClientSocket => m \in Calls
    BY <1>1 DEF PlacesInv, Roles
  <2> QED BY <2>1 DEF Calls, Call, MmiCall
<1>4. i \in WorkerSocket /\ m.cmd = "READY" => m.svc = ServiceOf[i[1]]
  <2>1. i \in WorkerSocket => m \in FromWorker(i[1])
    BY <1>1 DEF PlacesInv, Roles
  <2> QED BY <2>1 DEF FromWorker, Greeting, Reply, Heartbeat, Disconnect
<1>5. m.cmd \in {"READY", "REPLY"} => m \in Ready \cup Reply
  BY <1>2 DEF PeerMessage, Ready, Reply, Heartbeat, Disconnect, Call, MmiCall
<1>6. m.cmd \in {"READY", "REPLY"} => i \in WorkerSocket
  BY <1>3, Sockets
<1>7. ASSUME UNCHANGED toPeer
      PROVE  \A j \in Identity : Asked(j)' = Asked(j) /\ toPeer'[j] = toPeer[j]
  BY <1>7 DEF Asked
<1>8. CASE WorkerReady(i, m)
  <2>1. i \in WorkerSocket /\ m.svc = ServiceOf[i[1]] /\ m.svc \in ServiceName
    BY <1>2, <1>4, <1>6, <1>8, PeerMessageFrames DEF WorkerReady
  <2>2. /\ i \notin known /\ known' = known \cup {i}
        /\ service' = [service EXCEPT ![i] = m.svc]
        /\ nworkers' = [nworkers EXCEPT ![m.svc] = @ + 1]
        /\ WorkerWaiting(i, m.svc)
        /\ UNCHANGED toPeer
    BY <1>8 DEF WorkerReady
  <2>3. i \notin Range(waiting)
    BY <2>2 DEF PlacesInv, ListsAgree
  <2>4. service'[i] = m.svc /\ \A j \in known \ {i} : service'[j] = service[j]
    BY <2>2 DEF BrokerInv, BrokerTypeOK
  <2>5. ListsAgree' /\ Range(waiting') = Range(waiting) \cup {i}
    BY <2>1, <2>2, <2>3, <2>4, WaitingLists DEF BrokerInv, PlacesInv
  <2>6. Counted'
    BY <2>1, <2>2, CountReady DEF BrokerInv, PlacesInv
  <2>7. StrangersServeNothing' /\ KnownAreWorkers'
    BY <2>1, <2>2 DEF PlacesInv, StrangersServeNothing, KnownAreWorkers, BrokerInv,
                      BrokerTypeOK
  <2>8. m \in Ready \cup Reply
    BY <1>5, <1>8 DEF WorkerReady
  <2> QED BY <1>7, <2>2, <2>5, <2>6, <2>7, <2>8 DEF HandlerKeeps
<1>9. CASE WorkerReply(i, m)
  <2>1. /\ i \in known
        /\ WorkerWaiting(i, service[i])
        /\ UNCHANGED <<known, service, nworkers>>
    BY <1>9 DEF WorkerReply
  <2>2. i \in WorkerSocket /\ m \in Ready \cup Reply
    BY <1>5, <1>6, <1>9 DEF WorkerReply
  <2>3. i \notin Range(waiting)
    <3>1. 1 \in Told(i)
      BY <1>1, <2>2, SpotsTail DEF Told
    <3> QED BY <2>2, <3>1 DEF PlacesInv, Permits, Permit
  <2>4. service[i] \in ServiceName /\ known' = known \cup {i}
    BY <2>1 DEF BrokerInv, KnownHaveService
  <2>5. ListsAgree' /\ Range(waiting') = Range(waiting) \cup {i}
    BY <2>1, <2>3, <2>4, WaitingLists DEF BrokerInv, PlacesInv
  <2>6. Counted' /\ StrangersServeNothing' /\ KnownAreWorkers'
    BY <2>1 DEF PlacesInv, Counted, WorkerCount, StrangersServeNothing, KnownAreWorkers
  <2>7. \A j \in Identity : /\ Asked(j)' = Asked(j)
                            /\ j \notin open => toPeer'[j] = toPeer[j]
    <3> DEFINE answer == [cmd |-> "ANSWER", svc |-> service[i], tag |-> m.tag]
    <3>1. m.tag \in Tag
      BY <1>2, <1>9, PeerMessageFrames DEF WorkerReply
    <3>2. answer \in BrokerMessage /\ answer \notin Request
      BY <2>4, <3>1 DEF BrokerMessage, Answer, Request
    <3>3. Routed(m.client, answer)
      BY <1>9 DEF WorkerReply
    <3> QED BY <3>2, <3>3, RoutedAsked
  <2> QED BY <2>2, <2>4, <2>5, <2>6, <2>7 DEF HandlerKeeps
<1>10. CASE WorkerHeartbeat(i, m)
  <2>1. UNCHANGED <<known, service, waiting, swaiting, nworkers, toPeer>>
    BY <1>10 DEF WorkerHeartbeat
  <2> QED BY <1>7, <2>1, ListsStill DEF HandlerKeeps
<1>11. CASE WorkerRefuse(i, m)
  <2>1. WorkerDelete(i) /\ Routed(i, Disconnect)
    BY <1>11 DEF WorkerRefuse
  <2>2. Disconnect \in BrokerMessage /\ Disconnect \notin Request
    BY DEF BrokerMessage, Disconnect, Request
  <2> QED BY <2>1, <2>2, ListsDelete, RoutedAsked DEF HandlerKeeps
<1>12. CASE WorkerDisconnect(i, m)
  <2>1. WorkerDelete(i) /\ UNCHANGED toPeer
    BY <1>12 DEF WorkerDisconnect
  <2> QED BY <1>7, <2>1, ListsDelete DEF HandlerKeeps
<1>13. CASE ClientMmi(i, m)
  <2> DEFINE answer == [cmd |-> "ANSWER", svc |-> m.svc, code |-> MmiCode(m)]
  <2>1. UNCHANGED <<known, service, waiting, swaiting, nworkers>> /\ Routed(i, answer)
    BY <1>13 DEF ClientMmi
  <2>2. answer \in BrokerMessage /\ answer \notin Request
    BY <1>13 DEF ClientMmi, MmiCode, BrokerMessage, MmiAnswer, Request
  <2>3. \A j \in Identity : /\ Asked(j)' = Asked(j)
                            /\ j \notin open => toPeer'[j] = toPeer[j]
    BY <2>1, <2>2, RoutedAsked
  <2> QED BY <2>1, <2>3, ListsStill DEF HandlerKeeps
<1>14. CASE ClientRequest(i, m)
  <2>1. UNCHANGED <<known, service, waiting, swaiting, nworkers, toPeer>>
    BY <1>14 DEF ClientRequest
  <2> QED BY <1>7, <2>1, ListsStill DEF HandlerKeeps
<1> QED
  BY <1>8, <1>9, <1>10, <1>11, <1>12, <1>13, <1>14 DEF BrokerMessageIn

\* One pass of the main loop that found a message.
LEMMA MessagePlaces ==
    ASSUME NetTypeOK, BrokerInv, PlacesInv, NEW i \in Identity, BrokerMessageIn(i),
           UNCHANGED workerVars
    PROVE  PlacesInv'
<1> DEFINE m == Head(toBroker[i])
<1>1. toBroker[i] \in Seq(PeerMessage) /\ toBroker[i] # <<>>
  BY DEF NetTypeOK, BrokerMessageIn
<1>2. /\ \A j \in Identity \ {i} : toBroker'[j] = toBroker[j]
      /\ toBroker'[i] = Tail(toBroker[i])
      /\ UNCHANGED <<session, open>>
  BY DEF NetTypeOK, BrokerMessageIn
<1>3. HandlerKeeps(i, m)
  BY HandlerPlaces
<1>4. FreeHands'
  BY DEF workerVars, PlacesInv, FreeHands
<1>5. Roles'
  <2>1. \A S : toBroker[i] \in Seq(S) => Tail(toBroker[i]) \in Seq(S)
    BY <1>1
  <2> QED BY <1>2, <2>1, RolesShrink DEF PlacesInv
<1>6. SocketsInOrder'
  BY <1>1, <1>2, <1>3, SocketsBroker DEF PlacesInv, HandlerKeeps
<1>7. Permits'
  <2>1. SUFFICES ASSUME NEW j \in WorkerSocket PROVE Permit(j)'
    BY DEF Permits
  <2>2. Permit(j) /\ j \in Identity
    BY Sockets DEF PlacesInv, Permits
  <2>3. Busy(j)' <=> Busy(j)
    BY <1>2 DEF Busy, Conn, workerVars
  <2>4. Asked(j)' = Asked(j)
    BY <1>3, <2>2 DEF HandlerKeeps
  <2>5. Shrinks(Told(j), Told(j)')
    <3>1. CASE j = i
      BY <1>1, <1>2, <3>1, SpotsTail DEF Told
    <3>2. CASE j # i
      BY <1>2, <2>2, <3>2 DEF Told, Shrinks
    <3> QED BY <3>1, <3>2
  <2>6. CASE Range(waiting') \subseteq Range(waiting)
    <3>1. Shrinks(Asked(j), Asked(j)')
      BY <2>4 DEF Shrinks
    <3> QED BY <2>2, <2>3, <2>5, <2>6, <3>1, PermitShrinks
  <2>7. CASE m \in Ready \cup Reply /\ Range(waiting') = Range(waiting) \cup {i}
    <3>1. CASE j = i
      <4>1. 1 \in Told(j)
        BY <1>1, <2>7, <3>1, SpotsTail DEF Told
      <4>2. Told(j)' = {}
        <5>1. AtMostOne(Spots(toBroker[i], Ready \cup Reply))
          BY <2>2, <3>1 DEF Permit, Told
        <5> QED BY <1>1, <1>2, <2>7, <3>1, <5>1, SpotsTail DEF Told
      <4>3. Asked(j) = {} /\ ~ Busy(j)
        BY <2>2, <4>1 DEF Permit
      <4> QED BY <2>3, <2>4, <4>2, <4>3 DEF Permit, AtMostOne
    <3>2. CASE j # i
      <4>1. j \in Range(waiting') <=> j \in Range(waiting)
        BY <2>7, <3>2
      <4> QED BY <2>2, <2>3, <2>4, <2>5, <4>1 DEF Permit, Shrinks
    <3> QED BY <3>1, <3>2
  <2> QED BY <1>3, <2>6, <2>7 DEF HandlerKeeps
<1> QED BY <1>3, <1>4, <1>5, <1>6, <1>7 DEF PlacesInv, HandlerKeeps

-----------------------------------------------------------------------------
\* The rest of the broker's loop.  A step that touches neither the network nor
\* the lists:
LEMMA QuietPlaces ==
    ASSUME PlacesInv, UNCHANGED <<netVars, known, service, waiting, swaiting, nworkers, held>>,
           \A w \in Worker : workerPc'[w] = workerPc[w] \/ workerPc[w] # "app"
    PROVE  PlacesInv'
<1>1. SocketsInOrder' /\ Roles'
  BY DEF netVars, PlacesInv, SocketsInOrder, Conn, Roles
<1>2. FreeHands'
  BY DEF PlacesInv, FreeHands
<1>3. Permits'
  BY DEF netVars, PlacesInv, Permits, Permit, Told, Asked, Busy, Conn
<1> QED BY <1>1, <1>2, <1>3, ListsStill DEF PlacesInv

LEMMA PurgePlaces ==
    ASSUME BrokerInv, PlacesInv, PurgeHead, UNCHANGED workerVars
    PROVE  PlacesInv'
<1> DEFINE i == Head(waiting)
<1>1. WorkerDelete(i) /\ UNCHANGED netVars /\ waiting # <<>>
  BY DEF PurgeHead, HeadExpired
<1>2. i \in Identity
  BY <1>1 DEF BrokerInv, BrokerTypeOK
<1>3. /\ ListsAgree' /\ Counted' /\ StrangersServeNothing' /\ KnownAreWorkers'
      /\ known' \subseteq known /\ Range(waiting') \subseteq Range(waiting)
  BY <1>1, <1>2, ListsDelete
<1>4. SocketsInOrder' /\ Roles'
  BY <1>1, <1>3 DEF netVars, PlacesInv, SocketsInOrder, Conn, Roles
<1>5. FreeHands'
  BY DEF workerVars, PlacesInv, FreeHands
<1>6. \A j : /\ Told(j)' = Told(j) /\ Asked(j)' = Asked(j)
             /\ Busy(j)' <=> Busy(j)
  BY <1>1 DEF netVars, workerVars, Told, Asked, Busy, Conn
<1>7. Permits'
  BY <1>3, <1>6 DEF PlacesInv, Permits, Permit
<1> QED BY <1>3, <1>4, <1>5, <1>7 DEF PlacesInv

LEMMA DispatchPlaces ==
    ASSUME NetTypeOK, BrokerInv, PlacesInv, Dispatch, UNCHANGED workerVars
    PROVE  PlacesInv'
<1> DEFINE i == Head(swaiting[current])
           r == Head(requests[current])
           request == [cmd |-> "REQUEST", client |-> r.client, tag |-> r.tag]
<1>1. /\ ListsAgree'
      /\ i \in Range(waiting)
      /\ Range(waiting') = Range(waiting) \ {i}
  BY DispatchLists DEF BrokerInv, PlacesInv
<1>2. /\ Routed(i, request)
      /\ UNCHANGED <<session, open, toBroker, known, service, nworkers>>
  BY DEF Dispatch
<1>3. Counted' /\ StrangersServeNothing' /\ KnownAreWorkers'
  BY <1>2 DEF PlacesInv, Counted, WorkerCount, StrangersServeNothing, KnownAreWorkers
<1>4. \A j \in Identity : toPeer'[j] = toPeer[j]
                          \/ (j = i /\ j \in open /\ toPeer'[j] = Append(toPeer[j], request))
  BY <1>2 DEF NetTypeOK, Routed
<1>5. SocketsInOrder' /\ Roles'
  <2>1. \A j \in Identity : j \notin open => toPeer'[j] = toPeer[j]
    BY <1>4
  <2> QED BY <1>2, <2>1, SocketsBroker DEF PlacesInv, Roles
<1>6. FreeHands'
  BY DEF workerVars, PlacesInv, FreeHands
<1>7. request \in BrokerMessage
  <2>1. current \in ServiceName /\ requests[current] # <<>>
    BY DEF Dispatch, BrokerInv, DispatchTarget
  <2>2. r \in Queued
    BY <2>1 DEF BrokerInv, BrokerTypeOK
  <2> QED BY <2>2 DEF Queued, BrokerMessage, Request
<1>8. Permits'
  <2>1. SUFFICES ASSUME NEW j \in WorkerSocket PROVE Permit(j)'
    BY DEF Permits
  <2>2. Permit(j) /\ j \in Identity /\ toPeer[j] \in Seq(BrokerMessage)
    BY Sockets DEF PlacesInv, Permits, NetTypeOK
  <2>3. Told(j)' = Told(j) /\ (Busy(j)' <=> Busy(j))
    BY <1>2 DEF Told, Busy, Conn, workerVars
  <2>4. CASE j = i
    <3>1. Told(j) = {} /\ Asked(j) = {} /\ ~ Busy(j)
      BY <1>1, <2>2, <2>4 DEF Permit
    <3>2. AtMostOne(Spots(Append(toPeer[j], request), Request))
      <4>1. Spots(Append(toPeer[j], request), Request) =
              Spots(toPeer[j], Request)
                \cup (IF request \in Request THEN {Len(toPeer[j]) + 1} ELSE {})
        BY <1>7, <2>2, SpotsAppend
      <4> QED BY <3>1, <4>1 DEF Asked, AtMostOne
    <3>3. AtMostOne(Asked(j)')
      BY <1>4, <2>2, <3>1, <3>2 DEF Asked, AtMostOne
    <3>4. j \notin Range(waiting')
      BY <1>1, <2>4
    <3> QED BY <2>3, <3>1, <3>3, <3>4 DEF Permit, AtMostOne
  <2>5. CASE j # i
    <3>1. Asked(j)' = Asked(j)
      BY <1>4, <2>2, <2>5 DEF Asked
    <3>2. Shrinks(Told(j), Told(j)') /\ Shrinks(Asked(j), Asked(j)')
      BY <2>3, <3>1 DEF Shrinks
    <3> QED BY <1>1, <2>2, <2>3, <3>2, PermitShrinks
  <2> QED BY <2>4, <2>5
<1> QED BY <1>1, <1>3, <1>5, <1>6, <1>8 DEF PlacesInv

LEMMA HeartbeatPlaces ==
    ASSUME NetTypeOK, PlacesInv, HeartbeatRound, UNCHANGED workerVars
    PROVE  PlacesInv'
<1>1. /\ UNCHANGED <<session, open, toBroker>>
      /\ UNCHANGED <<known, service, waiting, swaiting, nworkers>>
  BY DEF HeartbeatRound
<1>2. \A j \in Identity : toPeer'[j] = toPeer[j]
                          \/ (j \in open /\ toPeer'[j] = Append(toPeer[j], Heartbeat))
  BY DEF HeartbeatRound
<1>3. SocketsInOrder' /\ Roles'
  <2>1. \A j \in Identity : j \notin open => toPeer'[j] = toPeer[j]
    BY <1>2
  <2> QED BY <1>1, <2>1, SocketsBroker DEF PlacesInv, Roles
<1>4. FreeHands'
  BY DEF workerVars, PlacesInv, FreeHands
<1>5. ASSUME NEW j \in Identity
      PROVE  Asked(j)' = Asked(j)
  <2>1. toPeer[j] \in Seq(BrokerMessage) /\ Heartbeat \in BrokerMessage
    BY DEF NetTypeOK, BrokerMessage
  <2>2. Heartbeat \notin Request
    BY DEF Heartbeat, Request
  <2>3. Spots(Append(toPeer[j], Heartbeat), Request) =
          Spots(toPeer[j], Request)
            \cup (IF Heartbeat \in Request THEN {Len(toPeer[j]) + 1} ELSE {})
    BY <2>1, SpotsAppend
  <2>4. Spots(Append(toPeer[j], Heartbeat), Request) = Spots(toPeer[j], Request)
    BY <2>2, <2>3
  <2> QED BY <1>2, <2>4 DEF Asked
<1>6. \A j : Told(j)' = Told(j) /\ (Busy(j)' <=> Busy(j))
  BY <1>1 DEF Told, Busy, Conn, workerVars
<1>7. Permits'
  BY <1>1, <1>5, <1>6, Sockets DEF PlacesInv, Permits, Permit
<1> QED BY <1>1, <1>3, <1>4, <1>7, ListsStill DEF PlacesInv

LEMMA BrokerPlaces ==
    ASSUME NetTypeOK, BrokerInv, PlacesInv, BrokerNext, UNCHANGED workerVars
    PROVE  PlacesInv'
<1>1. CASE \E i \in Identity : BrokerMessageIn(i)
  BY <1>1, MessagePlaces
<1>2. CASE BrokerPollTimeout
  BY <1>2, QuietPlaces DEF BrokerPollTimeout, workerVars
<1>3. CASE PurgeHead
  BY <1>3, PurgePlaces
<1>4. CASE PurgeDone
  BY <1>4, QuietPlaces DEF PurgeDone, workerVars
<1>5. CASE Dispatch
  BY <1>5, DispatchPlaces
<1>6. CASE DispatchDone
  BY <1>6, QuietPlaces DEF DispatchDone, workerVars
<1>7. CASE HeartbeatRound
  BY <1>7, HeartbeatPlaces
<1> QED BY <1>1, <1>2, <1>3, <1>4, <1>5, <1>6, <1>7 DEF BrokerNext

\* A broker that starts again knows nobody, and connections only lose.
LEMMA RestartPlaces ==
    ASSUME NetTypeOK, PlacesInv, BrokerRestart, UNCHANGED workerVars
    PROVE  PlacesInv'
<1>1. /\ known' = {} /\ waiting' = <<>>
      /\ service' = [i \in Identity |-> NoService]
      /\ swaiting' = [s \in ServiceName |-> <<>>]
      /\ nworkers' = [s \in ServiceName |-> 0]
      /\ Outage
  BY DEF BrokerRestart
<1>2. \A j \in Identity : /\ toBroker'[j] \in {toBroker[j], <<>>}
                          /\ toPeer'[j] \in {toPeer[j], <<>>}
  BY <1>1 DEF Outage, NetTypeOK
<1>3. UNCHANGED <<session, open>>
  BY <1>1 DEF Outage
<1>4. SocketsInOrder'
  BY <1>1, <1>2, <1>3 DEF PlacesInv, SocketsInOrder, Conn
<1>5. Roles'
  <2>1. \A S : <<>> \in Seq(S)
    OBVIOUS
  <2> QED BY <1>2, <2>1, Sockets DEF PlacesInv, Roles
<1>6. StrangersServeNothing' /\ KnownAreWorkers'
  BY <1>1 DEF StrangersServeNothing, KnownAreWorkers
<1>7. ListsAgree'
  BY <1>1 DEF ListsAgree, Before, Range
<1>8. Counted'
  <2>1. IsFiniteSet({}) /\ Cardinality({}) = 0
    BY FS_EmptySet
  <2>2. \A s \in ServiceName : {i \in known' : service'[i] = s} = {}
    BY <1>1
  <2> QED BY <1>1, <2>1, <2>2 DEF Counted, WorkerCount
<1>9. FreeHands'
  BY DEF workerVars, PlacesInv, FreeHands
<1>10. Permits'
  <2>1. SUFFICES ASSUME NEW j \in WorkerSocket PROVE Permit(j)'
    BY DEF Permits
  <2>2. Permit(j) /\ j \in Identity
    BY Sockets DEF PlacesInv, Permits
  <2>3. Shrinks(Told(j), Told(j)') /\ Shrinks(Asked(j), Asked(j)')
    BY <1>2, <2>2, SpotsEmpty DEF Told, Asked, Shrinks, AtMostOne
  <2>4. Busy(j)' <=> Busy(j)
    BY <1>3 DEF Busy, Conn, workerVars
  <2>5. Range(waiting') \subseteq Range(waiting)
    BY <1>1 DEF Range
  <2> QED BY <2>2, <2>3, <2>4, <2>5, PermitShrinks
<1> QED BY <1>4, <1>5, <1>6, <1>7, <1>8, <1>9, <1>10 DEF PlacesInv

-----------------------------------------------------------------------------
(* The peers. *)

\* A peer that keeps its socket changes only that socket's channels.
LEMMA SocketsPeer ==
    ASSUME NetTypeOK, SocketsInOrder, UNCHANGED <<session, known>>, open' \subseteq open,
           NEW p \in Peer,
           \A j \in Identity \ {Conn(p)} : toBroker'[j] = toBroker[j] /\ toPeer'[j] = toPeer[j]
    PROVE  SocketsInOrder'
<1>1. \A j \in Identity : j[2] > session[j[1]] => j # Conn(p)
  BY ConnOf
<1>2. \A q : Conn(q)' = Conn(q)
  BY DEF Conn
<1> QED BY <1>1, <1>2 DEF SocketsInOrder

\* A new socket of a peer, which greets with m, in place of its latest one.
LEMMA ReopenPlaces ==
    ASSUME NetTypeOK, SocketsInOrder, NEW p \in Peer, NEW m, Reopen(p, m)
    PROVE  /\ Conn(p)' \in Identity /\ Conn(p)' # Conn(p) /\ Conn(p)' \notin known
           /\ Conn(p)'[1] = p
           /\ \A q \in Peer \ {p} : Conn(q)' = Conn(q)
           /\ toBroker'[Conn(p)'] = <<m>>
           /\ toPeer'[Conn(p)'] = <<>> /\ toPeer'[Conn(p)] = <<>>
           /\ \E k \in 0 .. Len(toBroker[Conn(p)]) :
                 toBroker'[Conn(p)] = SubSeq(toBroker[Conn(p)], 1, k)
           /\ \A j \in Identity \ {Conn(p), Conn(p)'} :
                 toBroker'[j] = toBroker[j] /\ toPeer'[j] = toPeer[j]
           /\ known' = known => SocketsInOrder'
<1> DEFINE fresh == <<p, session[p] + 1>>
           old == Conn(p)
<1>1. /\ session[p] < MaxSession
      /\ session' = [session EXCEPT ![p] = @ + 1]
      /\ open' = (open \ {Conn(p)}) \cup {fresh}
      /\ toPeer' = [toPeer EXCEPT ![Conn(p)] = <<>>]
  BY DEF Reopen
<1>2. PICK k \in 0 .. Len(toBroker[Conn(p)]) :
        toBroker' = [toBroker EXCEPT ![Conn(p)] = SubSeq(@, 1, k), ![fresh] = <<m>>]
  BY DEF Reopen
<1>3. /\ old \in Identity /\ old[1] = p /\ old[2] = session[p]
      /\ session[p] \in 1 .. MaxSession
  BY ConnOf
<1>4. fresh \in Identity /\ fresh # old /\ fresh[1] = p /\ fresh[2] > session[p]
  BY <1>1, <1>3, NetAssumption DEF Identity
<1>5. session'[p] = session[p] + 1 /\ \A q \in Peer \ {p} : session'[q] = session[q]
  BY <1>1 DEF NetTypeOK
<1>6. Conn(p)' = fresh /\ \A q \in Peer \ {p} : Conn(q)' = Conn(q)
  BY <1>5 DEF Conn
<1>7. toBroker[fresh] = <<>> /\ toPeer[fresh] = <<>> /\ fresh \notin known
  BY <1>4 DEF SocketsInOrder
<1>8. /\ toBroker'[fresh] = <<m>> /\ toBroker'[old] = SubSeq(toBroker[old], 1, k)
      /\ toPeer'[fresh] = <<>> /\ toPeer'[old] = <<>>
      /\ \A j \in Identity \ {old, fresh} :
            toBroker'[j] = toBroker[j] /\ toPeer'[j] = toPeer[j]
  BY <1>1, <1>2, <1>3, <1>4, <1>7 DEF NetTypeOK
<1>9. ASSUME known' = known
      PROVE  SocketsInOrder'
  <2>1. ASSUME NEW i \in open'
        PROVE  i = Conn(i[1])'
    <3>1. CASE i = fresh
      BY <1>4, <1>6, <3>1
    <3>2. CASE i # fresh
      <4>1. i \in open /\ i # old
        BY <1>1, <3>2
      <4>2. i = Conn(i[1]) /\ i[1] \in Peer
        BY <4>1, Sockets DEF SocketsInOrder, NetTypeOK
      <4>3. i[1] # p
        BY <4>1, <4>2
      <4> QED BY <1>6, <4>2, <4>3
    <3> QED BY <3>1, <3>2
  <2>2. ASSUME NEW i \in Identity, i[2] > session'[i[1]]
        PROVE  toBroker'[i] = <<>> /\ toPeer'[i] = <<>> /\ i \notin known'
    <3>1. i[1] \in Peer /\ i[2] \in 1 .. MaxSession
      BY Sockets
    <3>2. i[2] > session[i[1]]
      BY <1>3, <1>5, <2>2, <3>1
    <3>3. i # fresh /\ i # old
      BY <1>3, <1>4, <1>5, <2>2, <3>1, <3>2
    <3> QED BY <1>8, <1>9, <3>2, <3>3 DEF SocketsInOrder
  <2> QED BY <2>1, <2>2 DEF SocketsInOrder
<1> QED BY <1>3, <1>4, <1>6, <1>7, <1>8, <1>9

\* A step of a worker that keeps its socket c and takes nothing new into a
\* place of its permission.
LEMMA WorkerShrinks ==
    ASSUME NetTypeOK, PlacesInv, UNCHANGED brokerVars, NEW w \in Worker,
           NEW c, c = Conn(w), UNCHANGED session, open' \subseteq open,
           \A j \in Identity \ {c} : toBroker'[j] = toBroker[j] /\ toPeer'[j] = toPeer[j],
           Roles', FreeHands',
           Shrinks(Told(c), Told(c)'), Shrinks(Asked(c), Asked(c)'),
           \A v \in Worker : held'[v] = held[v] \/ held'[v] = Nothing
    PROVE  PlacesInv'
<1>1. w \in Peer /\ c \in Identity
  BY ConnOf DEF Peer
<1>2. SocketsInOrder'
  BY <1>1, SocketsPeer DEF PlacesInv, brokerVars
<1>3. Permits'
  <2>1. SUFFICES ASSUME NEW j \in WorkerSocket PROVE Permit(j)'
    BY DEF Permits
  <2>2. Permit(j) /\ j \in Identity
    BY Sockets DEF PlacesInv, Permits
  <2>3. Busy(j)' => Busy(j)
    BY DEF Busy, Conn
  <2>4. Shrinks(Told(j), Told(j)') /\ Shrinks(Asked(j), Asked(j)')
    <3>1. CASE j = c
      BY <3>1
    <3>2. CASE j # c
      BY <2>2, <3>2 DEF Told, Asked, Shrinks
    <3> QED BY <3>1, <3>2
  <2>5. Range(waiting') \subseteq Range(waiting)
    BY DEF brokerVars
  <2> QED BY <2>2, <2>3, <2>4, <2>5, PermitShrinks
<1> QED BY <1>2, <1>3, ListsStill DEF PlacesInv, brokerVars

\* Any message but a READY or a REPLY leaves the permission where it is.
LEMMA SendQuiet ==
    ASSUME NetTypeOK, PlacesInv, NEW w \in Worker, NEW m \in {Heartbeat, Disconnect},
           Send(w, m), NEW c, c = Conn(w)
    PROVE  /\ Roles'
           /\ \A j \in Identity \ {c} : toBroker'[j] = toBroker[j]
           /\ Told(c)' = Told(c)
<1>1. m \in FromWorker(w) /\ m \in PeerMessage /\ m \notin Ready \cup Reply
  BY DEF FromWorker, PeerMessage, Heartbeat, Disconnect, Ready, Reply
<1>2. c \in Identity
  BY ConnOf DEF Peer
<1>3. toBroker[c] \in Seq(PeerMessage)
  BY <1>2 DEF NetTypeOK
<1>4. /\ toBroker'[c] = Append(toBroker[c], m)
      /\ \A j \in Identity \ {c} : toBroker'[j] = toBroker[j]
  BY <1>2 DEF Send, NetTypeOK
<1>5. Spots(Append(toBroker[c], m), Ready \cup Reply) =
        Spots(toBroker[c], Ready \cup Reply)
          \cup (IF m \in Ready \cup Reply THEN {Len(toBroker[c]) + 1} ELSE {})
  BY <1>1, <1>3, SpotsAppend
<1>6. Spots(Append(toBroker[c], m), Ready \cup Reply)
        = Spots(toBroker[c], Ready \cup Reply)
  BY <1>1, <1>5
<1>7. Roles'
  BY <1>1, RolesSend DEF PlacesInv
<1> QED BY <1>4, <1>6, <1>7 DEF Told

LEMMA MaybeHeartbeatQuiet ==
    ASSUME NetTypeOK, PlacesInv, NEW w \in Worker, MaybeHeartbeat(w), NEW c, c = Conn(w)
    PROVE  /\ Roles'
           /\ \A j \in Identity \ {c} : toBroker'[j] = toBroker[j]
           /\ Told(c)' = Told(c)
<1>1. CASE UNCHANGED toBroker
  BY <1>1 DEF PlacesInv, Roles, Told
<1>2. CASE Send(w, Heartbeat)
  BY <1>2, SendQuiet
<1> QED BY <1>1, <1>2 DEF MaybeHeartbeat

\* What a worker takes out of its inbox.
LEMMA TakePlaces ==
    ASSUME NetTypeOK, NEW w \in Worker, NEW cmd, TakeCommand(w, cmd), Take(w),
           NEW c, c = Conn(w)
    PROVE  /\ \A j \in Identity \ {c} : toPeer'[j] = toPeer[j]
           /\ Shrinks(Asked(c), Asked(c)')
           /\ cmd = "REQUEST" => /\ Asked(c) # {}
                                 /\ AtMostOne(Asked(c)) => Asked(c)' = {}
<1>1. c \in Identity
  BY ConnOf DEF Peer
<1>2. /\ toPeer[c] \in Seq(BrokerMessage) /\ toPeer[c] # <<>>
      /\ Head(toPeer[c]).cmd = cmd
  BY <1>1 DEF NetTypeOK, TakeCommand, Inbox
<1>3. /\ toPeer'[c] = Tail(toPeer[c])
      /\ \A j \in Identity \ {c} : toPeer'[j] = toPeer[j]
  BY <1>1 DEF Take, NetTypeOK
<1>4. cmd = "REQUEST" => Head(toPeer[c]) \in Request
  <2>1. Head(toPeer[c]) \in BrokerMessage
    BY <1>2
  <2> QED BY <1>2, <2>1 DEF BrokerMessage, Request, Heartbeat, Disconnect, Answer, MmiAnswer
<1> QED BY <1>2, <1>3, <1>4, SpotsTail DEF Asked

\* mdwrk_recv connects only without a request in hand: the new socket carries
\* one permission, its READY, and the old one at most what it carried.
LEMMA ConnectPlaces ==
    ASSUME NetTypeOK, PlacesInv, UNCHANGED brokerVars, NEW w \in Worker, Connect(w),
           UNCHANGED held, FreeHands', workerPc[w] # "app"
    PROVE  PlacesInv'
<1> DEFINE p == Conn(w)
<1>0. PICK new : new = Conn(w)'
  OBVIOUS
<1>1. w \in Peer /\ Reopen(w, Greeting(w))
  BY DEF Peer, Connect
<1>2. held[w] = Nothing
  BY DEF PlacesInv, FreeHands
<1>3. /\ new \in Identity /\ new # p /\ new \notin known /\ new[1] = w
      /\ \A q \in Peer \ {w} : Conn(q)' = Conn(q)
      /\ toBroker'[new] = <<Greeting(w)>>
      /\ toPeer'[new] = <<>> /\ toPeer'[p] = <<>>
      /\ \A j \in Identity \ {p, new} : toBroker'[j] = toBroker[j] /\ toPeer'[j] = toPeer[j]
      /\ SocketsInOrder'
  BY <1>0, <1>1, ReopenPlaces DEF PlacesInv, brokerVars
<1>4. PICK k \in 0 .. Len(toBroker[p]) : toBroker'[p] = SubSeq(toBroker[p], 1, k)
  BY <1>1, ReopenPlaces DEF PlacesInv
<1>5. p \in WorkerSocket /\ p[1] = w /\ new \in WorkerSocket
  BY <1>3, ConnOf DEF Peer, Identity, WorkerSocket
<1>6. toBroker[p] \in Seq(PeerMessage) /\ p \in Identity
  BY <1>5, Sockets DEF NetTypeOK
<1>7. Roles'
  <2>1. ASSUME NEW j \in ClientSocket
        PROVE  toBroker'[j] \in Seq(Calls)
    BY <1>3, <1>5, Sockets DEF PlacesInv, Roles
  <2>2. toBroker'[p] \in Seq(FromWorker(w))
    <3>1. toBroker[p] \in Seq(FromWorker(w))
      BY <1>5 DEF PlacesInv, Roles
    <3>2. SubSeq(toBroker[p], 1, k) \in Seq(FromWorker(w))
      BY <3>1, SubSeqProperties
    <3> QED BY <1>4, <3>2
  <2>3. toBroker'[new] \in Seq(FromWorker(w))
    BY <1>3 DEF FromWorker
  <2>4. ASSUME NEW j \in WorkerSocket \ {p, new}
        PROVE  toBroker'[j] \in Seq(FromWorker(j[1]))
    BY <1>3, Sockets DEF PlacesInv, Roles
  <2>5. ASSUME NEW j \in WorkerSocket
        PROVE  toBroker'[j] \in Seq(FromWorker(j[1]))
    <3>1. CASE j = p
      BY <1>5, <2>2, <3>1
    <3>2. CASE j = new
      BY <1>3, <2>3, <3>2
    <3> QED BY <2>4, <3>1, <3>2
  <2> QED BY <2>1, <2>5 DEF Roles
<1>8. Permits'
  <2>1. SUFFICES ASSUME NEW j \in WorkerSocket PROVE Permit(j)'
    BY DEF Permits
  <2>2. Permit(j) /\ j \in Identity
    BY Sockets DEF PlacesInv, Permits
  <2>3. Busy(j)' => Busy(j)
    <3>1. ASSUME NEW v \in Worker, j = Conn(v)', held'[v] # Nothing
          PROVE  j = Conn(v) /\ held[v] # Nothing
      BY <1>2, <1>3, <3>1 DEF Peer
    <3> QED BY <3>1 DEF Busy
  <2>4. Range(waiting') = Range(waiting)
    BY DEF brokerVars
  <2>5. CASE j = new
    <3>1. Told(j)' = Spots(<<Greeting(w)>>, Ready \cup Reply)
      BY <1>3, <2>5 DEF Told
    <3>2. AtMostOne(Told(j)')
      BY <3>1 DEF Spots, AtMostOne
    <3>3. Asked(j)' = {}
      BY <1>3, <2>5, SpotsEmpty DEF Asked
    <3>4. j \notin Range(waiting')
      BY <1>3, <2>4, <2>5 DEF PlacesInv, ListsAgree
    <3>5. ~ Busy(j)'
      <4>1. ASSUME NEW v \in Worker, j = Conn(v)', held'[v] # Nothing
            PROVE  FALSE
        <5>1. v # w
          BY <1>2, <4>1
        <5>2. Conn(v)' = Conn(v) /\ Conn(v)[1] = v
          BY <1>3, <5>1 DEF Peer, Conn
        <5> QED BY <1>3, <2>5, <4>1, <5>1, <5>2
      <4> QED BY <4>1 DEF Busy
    <3> QED BY <3>2, <3>3, <3>4, <3>5 DEF Permit, AtMostOne
  <2>6. CASE j # new
    <3>1. Shrinks(Told(j), Told(j)')
      <4>1. CASE j = p
        BY <1>4, <1>6, <4>1, SpotsPrefix DEF Told
      <4>2. CASE j # p
        BY <1>3, <2>2, <2>6, <4>2 DEF Told, Shrinks
      <4> QED BY <4>1, <4>2
    <3>2. Shrinks(Asked(j), Asked(j)')
      <4>1. CASE j = p
        BY <1>3, <4>1, SpotsEmpty DEF Asked, Shrinks, AtMostOne
      <4>2. CASE j # p
        BY <1>3, <2>2, <2>6, <4>2 DEF Asked, Shrinks
      <4> QED BY <4>1, <4>2
    <3> QED BY <2>2, <2>3, <2>4, <3>1, <3>2, PermitShrinks
  <2> QED BY <2>5, <2>6
<1> QED BY <1>3, <1>7, <1>8, ListsStill DEF PlacesInv, brokerVars

\* One step of a worker, or its end or its start.
LEMMA WorkerPlaces ==
    ASSUME NetTypeOK, WorkerInv, PlacesInv, UNCHANGED brokerVars, NEW w \in Worker,
           \/ WorkerNext(w)  \/ WorkerStart(w)
           \/ WorkerGiveUp(w) \/ WorkerCrash(w) \/ WorkerLeave(w)
    PROVE  PlacesInv'
<1>0. PICK c : c = Conn(w)
  OBVIOUS
<1>1. c \in Identity /\ c \in WorkerSocket /\ w \in Peer /\ c[1] = w
  BY <1>0, ConnOf DEF Peer
<1>2. Permit(c) /\ toBroker[c] \in Seq(PeerMessage)
  BY <1>1 DEF PlacesInv, Permits, NetTypeOK
<1>3. CASE WorkerTakeRequest(w)
  <2>1. TakeCommand(w, "REQUEST") /\ Take(w)
    BY <1>3 DEF WorkerTakeRequest
  <2>2. /\ \A j \in Identity \ {c} : toPeer'[j] = toPeer[j]
        /\ Asked(c) # {} /\ Asked(c)' = {}
    BY <1>0, <1>2, <2>1, TakePlaces DEF Permit
  <2>3. /\ UNCHANGED <<session, open, toBroker>>
        /\ workerPc' = [workerPc EXCEPT ![w] = "app"]
        /\ \A v \in Worker \ {w} : held'[v] = held[v]
    BY <1>3 DEF WorkerTakeRequest, WorkerInv, WorkerTypeOK
  <2>4. FreeHands'
    BY <2>3 DEF PlacesInv, FreeHands, WorkerInv, WorkerTypeOK
  <2>5. SocketsInOrder' /\ Roles'
    BY <1>0, <1>1, <2>2, <2>3, SocketsPeer DEF PlacesInv, brokerVars, Roles
  <2>6. Permits'
    <3>1. SUFFICES ASSUME NEW j \in WorkerSocket PROVE Permit(j)'
      BY DEF Permits
    <3>2. Permit(j) /\ j \in Identity
      BY Sockets DEF PlacesInv, Permits
    <3>3. Told(j)' = Told(j) /\ Range(waiting') = Range(waiting)
      BY <2>3 DEF Told, brokerVars
    <3>4. CASE j = c
      BY <2>2, <3>2, <3>3, <3>4 DEF Permit, AtMostOne
    <3>5. CASE j # c
      <4>1. Asked(j)' = Asked(j)
        BY <2>2, <3>2, <3>5 DEF Asked
      <4>2. Busy(j)' <=> Busy(j)
        BY <1>0, <2>3, <3>5 DEF Busy, Conn
      <4> QED BY <3>2, <3>3, <4>1, <4>2 DEF Permit
    <3> QED BY <3>4, <3>5
  <2> QED BY <2>4, <2>5, <2>6, ListsStill DEF PlacesInv, brokerVars
<1>4. CASE WorkerTakeHeartbeat(w)
  <2>1. TakeCommand(w, "HEARTBEAT") /\ Take(w) /\ MaybeHeartbeat(w)
        /\ UNCHANGED <<session, open, workerPc, held>>
    BY <1>4 DEF WorkerTakeHeartbeat
  <2>2. FreeHands'
    BY <2>1 DEF PlacesInv, FreeHands
  <2>3. Shrinks(Told(c), Told(c)')
    BY <1>0, <2>1, MaybeHeartbeatQuiet DEF Shrinks
  <2> QED BY <1>0, <2>1, <2>2, <2>3, MaybeHeartbeatQuiet, TakePlaces, WorkerShrinks
<1>5. CASE WorkerTakeDisconnect(w)
  <2>1. Connect(w) /\ UNCHANGED <<workerPc, held>> /\ workerPc[w] # "app"
    BY <1>5 DEF WorkerTakeDisconnect, TakeCommand
  <2>2. FreeHands'
    BY <2>1 DEF PlacesInv, FreeHands
  <2> QED BY <2>1, <2>2, ConnectPlaces
<1>6. CASE WorkerPollTimeout(w)
  <2>1. MaybeHeartbeat(w) /\ UNCHANGED <<session, open, toPeer, workerPc, held>>
    BY <1>6 DEF WorkerPollTimeout
  <2>2. FreeHands'
    BY <2>1 DEF PlacesInv, FreeHands
  <2>3. Shrinks(Told(c), Told(c)') /\ Shrinks(Asked(c), Asked(c)')
    BY <1>0, <2>1, MaybeHeartbeatQuiet DEF Shrinks, Asked
  <2> QED BY <1>0, <2>1, <2>2, <2>3, MaybeHeartbeatQuiet, WorkerShrinks
<1>7. CASE WorkerReconnect(w)
  <2>1. /\ Connect(w) /\ UNCHANGED held /\ workerPc[w] # "app"
        /\ workerPc' = [workerPc EXCEPT ![w] = "recv"]
    BY <1>7 DEF WorkerReconnect
  <2>2. FreeHands'
    BY <2>1 DEF PlacesInv, FreeHands, WorkerInv, WorkerTypeOK
  <2> QED BY <2>1, <2>2, ConnectPlaces
<1>8. CASE WorkerSendReply(w)
  <2> DEFINE reply == [cmd |-> "REPLY", client |-> held[w].client, tag |-> held[w].tag]
  <2>1. held[w] \in [client : Identity, tag : Tag] /\ held[w] # Nothing
    BY <1>8 DEF WorkerSendReply, WorkerInv, WorkerTypeOK, BusyHolds
  <2>2. reply \in Reply /\ reply \in PeerMessage /\ reply \in FromWorker(w)
    BY <2>1 DEF Reply, PeerMessage, FromWorker
  <2>3. /\ Send(w, reply) /\ UNCHANGED <<session, open, toPeer>>
        /\ held' = [held EXCEPT ![w] = Nothing]
        /\ workerPc' = [workerPc EXCEPT ![w] = "recv"]
    BY <1>8 DEF WorkerSendReply
  <2>4. FreeHands'
    BY <2>3 DEF PlacesInv, FreeHands, WorkerInv, WorkerTypeOK
  <2>5. Roles'
    BY <2>2, <2>3, RolesSend DEF PlacesInv
  <2>6. /\ toBroker'[c] = Append(toBroker[c], reply)
        /\ \A j \in Identity \ {c} : toBroker'[j] = toBroker[j]
    BY <1>0, <1>1, <2>3 DEF Send, NetTypeOK
  <2>7. SocketsInOrder'
    BY <1>0, <1>1, <2>3, <2>6, SocketsPeer DEF PlacesInv, brokerVars
  <2>8. Permits'
    <3>1. SUFFICES ASSUME NEW j \in WorkerSocket PROVE Permit(j)'
      BY DEF Permits
    <3>2. Permit(j) /\ j \in Identity
      BY Sockets DEF PlacesInv, Permits
    <3>3. Asked(j)' = Asked(j) /\ Range(waiting') = Range(waiting)
      BY <2>3 DEF Asked, brokerVars
    <3>4. CASE j = c
      <4>1. Busy(j)
        BY <1>0, <2>1, <3>4 DEF Busy
      <4>2. Told(j) = {} /\ Asked(j) = {} /\ j \notin Range(waiting)
        BY <3>2, <4>1 DEF Permit
      <4>3. ~ Busy(j)'
        <5>1. \A v \in Worker : j = Conn(v)' => v = w
          BY <1>1, <3>4 DEF Conn
        <5> QED BY <2>3, <5>1 DEF Busy, WorkerInv, WorkerTypeOK
      <4>4. AtMostOne(Told(j)')
        <5>1. Spots(Append(toBroker[j], reply), Ready \cup Reply) =
                Spots(toBroker[j], Ready \cup Reply)
                  \cup (IF reply \in Ready \cup Reply THEN {Len(toBroker[j]) + 1} ELSE {})
          BY <1>2, <2>2, <3>4, SpotsAppend
        <5>2. Spots(Append(toBroker[j], reply), Ready \cup Reply) = {Len(toBroker[j]) + 1}
          BY <2>2, <4>2, <5>1 DEF Told
        <5>3. Told(j)' = {Len(toBroker[j]) + 1}
          BY <2>6, <3>4, <5>2 DEF Told
        <5> QED BY <5>3 DEF AtMostOne
      <4> QED BY <3>3, <4>2, <4>3, <4>4 DEF Permit, AtMostOne
    <3>5. CASE j # c
      <4>1. Told(j)' = Told(j)
        BY <2>6, <3>2, <3>5 DEF Told
      <4>2. Busy(j)' <=> Busy(j)
        BY <1>0, <2>3, <3>5 DEF Busy, Conn, WorkerInv, WorkerTypeOK
      <4> QED BY <3>2, <3>3, <4>1, <4>2 DEF Permit
    <3> QED BY <3>4, <3>5
  <2> QED BY <2>4, <2>5, <2>7, <2>8, ListsStill DEF PlacesInv, brokerVars
<1>9. CASE WorkerStart(w)
  <2>1. /\ Connect(w) /\ UNCHANGED held /\ workerPc[w] # "app"
        /\ workerPc' = [workerPc EXCEPT ![w] = "recv"]
    BY <1>9 DEF WorkerStart
  <2>2. FreeHands'
    BY <2>1 DEF PlacesInv, FreeHands, WorkerInv, WorkerTypeOK
  <2> QED BY <2>1, <2>2, ConnectPlaces
<1>10. CASE WorkerGiveUp(w)
  <2>1. /\ UNCHANGED <<netVars, held>> /\ workerPc[w] = "recv"
        /\ workerPc' = [workerPc EXCEPT ![w] = "sleep"]
    BY <1>10 DEF WorkerGiveUp
  <2>2. \A v \in Worker : workerPc'[v] = workerPc[v] \/ workerPc[v] # "app"
    BY <2>1 DEF WorkerInv, WorkerTypeOK
  <2> QED BY <2>1, <2>2, QuietPlaces DEF brokerVars
<1>11. CASE WorkerCrash(w)
  <2>1. /\ Close(w)
        /\ workerPc' = [workerPc EXCEPT ![w] = "stopped"]
        /\ held' = [held EXCEPT ![w] = Nothing]
    BY <1>11 DEF WorkerCrash
  <2>2. PICK k \in 0 .. Len(toBroker[c]) :
          toBroker' = [toBroker EXCEPT ![c] = SubSeq(@, 1, k)]
    BY <1>0, <2>1 DEF Close
  <2>3. /\ toPeer' = [toPeer EXCEPT ![c] = <<>>]
        /\ open' = open \ {c} /\ UNCHANGED session
    BY <1>0, <2>1 DEF Close
  <2>4. /\ toPeer'[c] = <<>> /\ toBroker'[c] = SubSeq(toBroker[c], 1, k)
        /\ \A j \in Identity \ {c} : toBroker'[j] = toBroker[j] /\ toPeer'[j] = toPeer[j]
    BY <1>1, <2>2, <2>3 DEF NetTypeOK
  <2>5. FreeHands'
    BY <2>1 DEF PlacesInv, FreeHands, WorkerInv, WorkerTypeOK
  <2>6. Roles'
    <3>1. \A S : toBroker[c] \in Seq(S) => SubSeq(toBroker[c], 1, k) \in Seq(S)
      BY SubSeqProperties
    <3> QED BY <1>1, <2>4, <3>1, RolesShrink DEF PlacesInv
  <2>7. Shrinks(Told(c), Told(c)') /\ Shrinks(Asked(c), Asked(c)')
    <3>1. Shrinks(Told(c), Told(c)')
      BY <1>2, <2>4, SpotsPrefix DEF Told
    <3>2. Shrinks(Asked(c), Asked(c)')
      BY <2>4, SpotsEmpty DEF Asked, Shrinks, AtMostOne
    <3> QED BY <3>1, <3>2
  <2>8. \A v \in Worker : held'[v] = held[v] \/ held'[v] = Nothing
    BY <2>1 DEF WorkerInv, WorkerTypeOK
  <2> QED BY <1>0, <2>3, <2>4, <2>5, <2>6, <2>7, <2>8, WorkerShrinks
<1>12. CASE WorkerLeave(w)
  <2>1. /\ Send(w, Disconnect) /\ UNCHANGED <<session, held>>
        /\ open' = open \ {c} /\ toPeer' = [toPeer EXCEPT ![c] = <<>>]
        /\ workerPc[w] = "recv" /\ workerPc' = [workerPc EXCEPT ![w] = "stopped"]
    BY <1>0, <1>12 DEF WorkerLeave
  <2>2. toPeer'[c] = <<>> /\ \A j \in Identity \ {c} : toPeer'[j] = toPeer[j]
    BY <1>1, <2>1 DEF NetTypeOK
  <2>3. FreeHands'
    BY <2>1 DEF PlacesInv, FreeHands, WorkerInv, WorkerTypeOK
  <2>4. /\ Roles' /\ Told(c)' = Told(c)
        /\ \A j \in Identity \ {c} : toBroker'[j] = toBroker[j]
    BY <1>0, <2>1, SendQuiet
  <2>5. Shrinks(Told(c), Told(c)') /\ Shrinks(Asked(c), Asked(c)')
    BY <2>2, <2>4, SpotsEmpty DEF Asked, Shrinks, AtMostOne
  <2> QED BY <1>0, <2>1, <2>2, <2>3, <2>4, <2>5, WorkerShrinks
<1> QED
  BY <1>3, <1>4, <1>5, <1>6, <1>7, <1>8, <1>9, <1>10, <1>11, <1>12 DEF WorkerNext

\* A client touches only its own sockets, and calls.
LEMMA ClientElsewhere ==
    ASSUME PlacesInv, UNCHANGED <<brokerVars, workerVars>>,
           \A v \in Worker : Conn(v)' = Conn(v),
           SocketsInOrder',
           \A j \in WorkerSocket : toBroker'[j] = toBroker[j] /\ toPeer'[j] = toPeer[j],
           \A j \in ClientSocket : toBroker'[j] \in Seq(Calls)
    PROVE  PlacesInv'
<1>1. Roles' /\ FreeHands'
  BY DEF PlacesInv, Roles, FreeHands, workerVars
<1>2. Permits'
  BY DEF PlacesInv, Permits, Permit, Told, Asked, Busy, brokerVars, workerVars
<1> QED BY <1>1, <1>2, ListsStill DEF PlacesInv, brokerVars

LEMMA ClientPlaces ==
    ASSUME NetTypeOK, ClientInv, PlacesInv, UNCHANGED <<brokerVars, workerVars>>,
           NEW c \in Client, ClientNext(c)
    PROVE  PlacesInv'
<1>0. PICK i : i = Conn(c)
  OBVIOUS
<1>1. /\ c \in Peer /\ i \in Identity /\ i \in ClientSocket
      /\ \A v \in Worker : v \in Peer \ {c}
  BY <1>0, ConnOf, NetAssumption DEF Peer
<1>2. \A j \in ClientSocket : toBroker[j] \in Seq(Calls)
  BY DEF PlacesInv, Roles
<1>3. ASSUME UNCHANGED <<session, open>>,
             \A j \in Identity \ {i} : toBroker'[j] = toBroker[j] /\ toPeer'[j] = toPeer[j],
             toBroker'[i] \in Seq(Calls)
      PROVE  PlacesInv'
  <2>1. SocketsInOrder'
    BY <1>0, <1>1, <1>3, SocketsPeer DEF PlacesInv, brokerVars
  <2>2. \A v \in Worker : Conn(v)' = Conn(v)
    BY <1>3 DEF Conn
  <2>3. \A j \in WorkerSocket : toBroker'[j] = toBroker[j] /\ toPeer'[j] = toPeer[j]
    BY <1>1, <1>3, Sockets
  <2>4. \A j \in ClientSocket : toBroker'[j] \in Seq(Calls)
    BY <1>2, <1>3, Sockets
  <2> QED BY <2>1, <2>2, <2>3, <2>4, ClientElsewhere
<1>4. CASE ClientCall(c)
  <2>1. PICK m \in NextCalls(c) : IF outstanding[c] THEN UNCHANGED toBroker ELSE Send(c, m)
    BY <1>4 DEF ClientCall
  <2>2. m \in Calls
    BY <1>4, NextCallsType DEF ClientCall, ClientInv
  <2>3. toBroker'[i] \in Seq(Calls) /\ \A j \in Identity \ {i} : toBroker'[j] = toBroker[j]
    <3>1. toBroker[i] \in Seq(Calls) /\ Append(toBroker[i], m) \in Seq(Calls)
      BY <1>1, <1>2, <2>2
    <3> QED BY <1>0, <1>1, <2>1, <3>1 DEF Send, NetTypeOK
  <2> QED BY <1>3, <1>4, <2>3 DEF ClientCall
<1>5. CASE ClientReply(c)
  <2>1. Take(c) /\ UNCHANGED <<session, open, toBroker>>
    BY <1>5 DEF ClientReply
  <2>2. \A j \in Identity \ {i} : toPeer'[j] = toPeer[j]
    BY <1>0, <1>1, <2>1 DEF Take, NetTypeOK
  <2> QED BY <1>1, <1>2, <1>3, <2>1, <2>2
<1>6. CASE ClientRetry(c)
  <2>1. Reopen(c, call[c]) /\ call[c] \in Calls
    BY <1>6 DEF ClientRetry, ClientInv, WaitingCalls
  <2>2. PICK new : new = Conn(c)'
    OBVIOUS
  <2>3. /\ new \in Identity /\ new[1] = c
        /\ \A q \in Peer \ {c} : Conn(q)' = Conn(q)
        /\ toBroker'[new] = <<call[c]>>
        /\ \A j \in Identity \ {i, new} : toBroker'[j] = toBroker[j] /\ toPeer'[j] = toPeer[j]
        /\ SocketsInOrder'
    BY <1>0, <1>1, <2>1, <2>2, ReopenPlaces DEF PlacesInv, brokerVars
  <2>4. PICK k \in 0 .. Len(toBroker[i]) : toBroker'[i] = SubSeq(toBroker[i], 1, k)
    BY <1>0, <1>1, <2>1, ReopenPlaces DEF PlacesInv
  <2>5. new \in ClientSocket
    BY <2>3 DEF Identity, ClientSocket
  <2>6. \A j \in WorkerSocket : toBroker'[j] = toBroker[j] /\ toPeer'[j] = toPeer[j]
    BY <1>1, <2>3, <2>5, Sockets
  <2>7. ASSUME NEW j \in ClientSocket
        PROVE  toBroker'[j] \in Seq(Calls)
    <3>1. CASE j = i
      <4>1. SubSeq(toBroker[i], 1, k) \in Seq(Calls)
        <5>1. toBroker[i] \in Seq(Calls)
          BY <1>1, <1>2
        <5> QED BY <5>1, SubSeqProperties
      <4> QED BY <2>4, <3>1, <4>1
    <3>2. CASE j = new
      <4>1. <<call[c]>> \in Seq(Calls)
        BY <2>1
      <4> QED BY <2>3, <3>2, <4>1
    <3>3. CASE j \notin {i, new}
      <4>1. toBroker'[j] = toBroker[j]
        BY <2>3, <3>3, Sockets
      <4> QED BY <1>2, <4>1
    <3> QED BY <3>1, <3>2, <3>3
  <2> QED BY <1>1, <2>3, <2>6, <2>7, ClientElsewhere
<1>7. CASE ClientAbandon(c)
  <2>1. UNCHANGED netVars
    BY <1>7 DEF ClientAbandon
  <2> QED BY <1>1, <1>2, <1>3, <2>1 DEF netVars
<1> QED BY <1>4, <1>5, <1>6, <1>7 DEF ClientNext

-----------------------------------------------------------------------------
LEMMA InitPlaces == Init => PlacesInv
<1> SUFFICES ASSUME Init PROVE PlacesInv
  OBVIOUS
<1>1. /\ session = [p \in Peer |-> 1] /\ open = Peer \X {1}
      /\ toBroker = [i \in Identity |->
                       IF i[1] \in Worker /\ i[2] = 1 THEN <<Greeting(i[1])>> ELSE <<>>]
      /\ toPeer = [i \in Identity |-> <<>>]
  BY DEF Init, NetInit
<1>2. /\ known = {} /\ waiting = <<>>
      /\ service = [i \in Identity |-> NoService]
      /\ swaiting = [s \in ServiceName |-> <<>>]
      /\ nworkers = [s \in ServiceName |-> 0]
  BY DEF Init, BrokerInit
<1>3. held = [w \in Worker |-> Nothing]
  BY DEF Init, WorkerInit
<1>4. SocketsInOrder
  BY <1>1, <1>2, Sockets DEF SocketsInOrder, Conn
<1>5. Roles
  <2>1. ASSUME NEW i \in ClientSocket
        PROVE  toBroker[i] \in Seq(Calls)
    <3>1. i[1] \notin Worker /\ i \in Identity
      BY NetAssumption, Sockets DEF ClientSocket
    <3>2. toBroker[i] = <<>>
      BY <1>1, <3>1
    <3> QED BY <3>2
  <2>2. ASSUME NEW i \in WorkerSocket
        PROVE  toBroker[i] \in Seq(FromWorker(i[1]))
    <3>1. <<Greeting(i[1])>> \in Seq(FromWorker(i[1])) /\ <<>> \in Seq(FromWorker(i[1]))
      BY DEF FromWorker
    <3> QED BY <1>1, <3>1, Sockets
  <2> QED BY <2>1, <2>2 DEF Roles
<1>6. StrangersServeNothing /\ KnownAreWorkers /\ FreeHands
  BY <1>2, <1>3 DEF StrangersServeNothing, KnownAreWorkers, FreeHands
<1>7. ListsAgree
  BY <1>2 DEF ListsAgree, Before, Range
<1>8. Counted
  <2>1. IsFiniteSet({}) /\ Cardinality({}) = 0
    BY FS_EmptySet
  <2>2. \A s \in ServiceName : {i \in known : service[i] = s} = {}
    BY <1>2
  <2> QED BY <1>2, <2>1, <2>2 DEF Counted, WorkerCount
<1>9. Permits
  <2>1. SUFFICES ASSUME NEW j \in WorkerSocket PROVE Permit(j)
    BY DEF Permits
  <2>2. Asked(j) = {} /\ j \notin Range(waiting)
    BY <1>1, <1>2, Sockets, SpotsEmpty DEF Asked, Range
  <2>3. ~ Busy(j)
    BY <1>3 DEF Busy
  <2>4. toBroker[j] = <<>> \/ toBroker[j] = <<Greeting(j[1])>>
    BY <1>1, Sockets
  <2>5. AtMostOne(Told(j))
    BY <2>4 DEF Told, Spots, AtMostOne
  <2> QED BY <2>2, <2>3, <2>5 DEF Permit, AtMostOne
<1> QED BY <1>4, <1>5, <1>6, <1>7, <1>8, <1>9 DEF PlacesInv

LEMMA NextPlaces == IInv /\ PlacesInv /\ [Next]_vars => PlacesInv'
<1> SUFFICES ASSUME IInv, PlacesInv, [Next]_vars PROVE PlacesInv'
  OBVIOUS
<1>1. NetTypeOK /\ BrokerInv /\ WorkerInv /\ ClientInv
  BY DEF IInv
<1>2. CASE BrokerStep
  BY <1>1, <1>2, BrokerPlaces DEF BrokerStep
<1>3. CASE \E w \in Worker : WorkerStep(w)
  BY <1>1, <1>3, WorkerPlaces DEF WorkerStep
<1>4. CASE \E c \in Client : ClientStep(c)
  BY <1>1, <1>4, ClientPlaces DEF ClientStep
<1>5. CASE Fault
  <2>1. CASE (\E i \in Identity : Expire(i)) /\ UNCHANGED workerVars
    BY <2>1, QuietPlaces DEF Expire, workerVars
  <2>2. CASE BrokerRestart /\ UNCHANGED workerVars
    BY <1>1, <2>2, RestartPlaces
  <2>3. CASE /\ \E w \in Worker : WorkerGiveUp(w) \/ WorkerCrash(w) \/ WorkerLeave(w)
             /\ UNCHANGED brokerVars
    BY <1>1, <2>3, WorkerPlaces
  <2> QED BY <1>5, <2>1, <2>2, <2>3 DEF Fault
<1>6. CASE UNCHANGED vars
  BY <1>6, QuietPlaces DEF vars, brokerVars, workerVars
<1> QED BY <1>2, <1>3, <1>4, <1>5, <1>6 DEF Next

LEMMA SpecPlaces == Spec => [](IInv /\ PlacesInv)
<1>1. Init => IInv /\ PlacesInv
  BY InitIInv, InitPlaces
<1>2. IInv /\ PlacesInv /\ [Next]_vars => (IInv /\ PlacesInv)'
  BY NextIInv, NextPlaces
<1> QED BY <1>1, <1>2, PTL DEF Spec

\* The waiting lists of the broker and of its services name the same known
\* workers, each once and in the same order, whatever mix of handlers, purges,
\* dispatches, crashes and restarts came before.
THEOREM ListsStayInAgreement == Spec => []ListsAgree
<1>1. PlacesInv => ListsAgree
  BY DEF PlacesInv
<1> QED BY <1>1, SpecPlaces, PTL

\* service->workers is the number of known workers of the service: every worker
\* is counted once when it registers and discounted once when it is deleted.
THEOREM WorkersCounted == Spec => []WorkerCount
<1>1. PlacesInv => WorkerCount
  BY DEF PlacesInv, Counted
<1> QED BY <1>1, SpecPlaces, PTL

\* The places of a permission are those that Permissions lists.
LEMMA PermitsAreOne ==
    ASSUME IInv, PlacesInv
    PROVE  OnePermission
<1>1. SUFFICES ASSUME NEW i \in WorkerSocket PROVE AtMostOne(Permissions(i))
  BY DEF OnePermission, WorkerSocket
<1>2. Permit(i) /\ i \in Identity
  BY Sockets DEF PlacesInv, Permits
<1>3. waiting \in Seq(Identity)
  BY DEF IInv, BrokerInv, BrokerTypeOK
<1> DEFINE idle == Spots(waiting, {i})
           busy == {w \in Worker : i = Conn(w) /\ held[w] # Nothing}
<1>4. AtMostOne(idle) /\ (idle = {} <=> i \notin Range(waiting))
  <2>1. ~ Before(waiting, i, i)
    BY <1>3, BeforeType DEF PlacesInv, ListsAgree
  <2> QED BY <1>3, <2>1, SpotsBefore, SpotsRange
<1>5. AtMostOne(busy) /\ (busy = {} <=> ~ Busy(i))
  BY DEF AtMostOne, Busy, Conn
<1>6. Permissions(i) = ({"told"} \X Told(i)) \cup ({"idle"} \X idle)
                         \cup ({"asked"} \X Asked(i)) \cup ({"busy"} \X busy)
  BY DEF Permissions, Told, Asked
<1> HIDE DEF idle, busy
<1>7. /\ AtMostOne(Told(i)) /\ AtMostOne(Asked(i))
      /\ Told(i) = {} \/ (idle = {} /\ Asked(i) = {} /\ busy = {})
      /\ idle = {} \/ (Asked(i) = {} /\ busy = {})
      /\ Asked(i) = {} \/ busy = {}
  BY <1>2, <1>4, <1>5 DEF Permit
<1> QED BY <1>4, <1>5, <1>6, <1>7 DEF AtMostOne

\* A worker's socket carries one permission to work: of READY, place in the
\* lists, REQUEST, request in the application and REPLY never two at a time.
THEOREM PermissionIsOne == Spec => []OnePermission
<1>1. IInv /\ PlacesInv => OnePermission
  BY PermitsAreOne
<1> QED BY <1>1, SpecPlaces, PTL

-----------------------------------------------------------------------------
(***************************************************************************)
(* Exchanges.  What a client sent into one socket is in one place at most, *)
(* and the reply that mdcli_send is about to take answers the call it      *)
(* made.  An exchange is followed through the places it can be in: the     *)
(* channels, the queues of the services and the hands of the workers.      *)
(* Every step of the system only loses messages about a client's socket or *)
(* moves one message from one place to another, and moves it to the place  *)
(* where it belongs.                                                       *)
(***************************************************************************)

\* The places of a message about an exchange, and the list that each one is.
Places ==
       ({"up"}   \X Identity)
  \cup ({"down"} \X Identity)
  \cup ({"line"} \X ServiceName)
  \cup ({"hand"} \X Worker)

Hand(w) == IF held[w] = Nothing THEN <<>> ELSE <<held[w]>>

List(l) ==
    IF l[1] = "up" THEN toBroker[l[2]]
    ELSE IF l[1] = "down" THEN toPeer[l[2]]
    ELSE IF l[1] = "line" THEN requests[l[2]]
    ELSE Hand(l[2])

\* The messages that belong to the exchange of client socket i: its own calls
\* and answers, and what others carry back to it.
Of(i) == [client : {i}, tag : Tag]
UpMark(j, i) ==
    [cmd : {"REPLY"}, client : {i}, tag : Tag] \cup (IF j = i THEN Calls ELSE {})
DownMark(j, i) ==
    [cmd : {"REQUEST"}, client : {i}, tag : Tag]
      \cup (IF j = i THEN Answer \cup MmiAnswer ELSE {})

Mark(l, i) ==
    IF l[1] = "up" THEN UpMark(l[2], i)
    ELSE IF l[1] = "down" THEN DownMark(l[2], i)
    ELSE Of(i)

Here(l, i) == Spots(List(l), Mark(l, i))
Msgs(l, i) == Range(List(l)) \cap Mark(l, i)

Silent(i) == \A l \in Places : Msgs(l, i) = {}

OnePlace(i) ==
    /\ \A l \in Places : AtMostOne(Here(l, i))
    /\ \A l, k \in Places : Msgs(l, i) # {} /\ Msgs(k, i) # {} => l = k

\* The messages that belong to call q when it was made through socket i.
RightUp(j, q) ==
    {q} \cup {m \in Reply : q \in Call /\ m.tag = q.tag /\ ServiceOf[j[1]] = q.svc}
RightDown(j, q) ==
    {m \in Request : q \in Call /\ m.tag = q.tag /\ ServiceOf[j[1]] = q.svc}
      \cup {m \in Answer : q \in Call /\ m.tag = q.tag /\ m.svc = q.svc}
      \cup {m \in MmiAnswer : q \notin Call /\ m.svc = q.svc}

Right(l, q) ==
    IF l[1] = "up" THEN RightUp(l[2], q)
    ELSE IF l[1] = "down" THEN RightDown(l[2], q)
    ELSE {r \in Queued : /\ q \in Call /\ r.tag = q.tag
                         /\ q.svc = (IF l[1] = "line" THEN l[2] ELSE ServiceOf[l[2]])}

Fits(i, q) == \A l \in Places : Msgs(l, i) \subseteq Right(l, q)

\* The broker sends clients answers only.
ClientsHearAnswers == \A i \in ClientSocket : toPeer[i] \in Seq(Answer \cup MmiAnswer)

Lockstep ==
    /\ \A i \in ClientSocket : OnePlace(i)
    /\ \A i \in ClientSocket : i[2] > session[i[1]] => Silent(i)
    /\ \A c \in Client, i \in ClientSocket :
         ~ outstanding[c] /\ i = Conn(c) => Silent(i)

\* A client that returned from mdcli_send with a reply has a free socket.
IdleFree == \A c \in Client : clientPc[c] = "idle" => ~ outstanding[c]

OwnCall ==
    \A c \in Client, i \in ClientSocket, q \in Calls :
        clientPc[c] = "waiting" /\ i = Conn(c) /\ q = call[c] => Fits(i, q)

RepliesInv ==
    /\ ClientsHearAnswers
    /\ Lockstep
    /\ IdleFree
    /\ ~ KeepSession => OwnCall

-----------------------------------------------------------------------------
(* What becomes of the members of M in a list. *)

\* The list new has lost members of old and gained none of M.
Cut(new, old, M) ==
    /\ Range(new) \cap M \subseteq Range(old)
    /\ AtMostOne(Spots(old, M)) => AtMostOne(Spots(new, M))

LEMMA CutSame ==
    ASSUME NEW list, NEW M
    PROVE  Cut(list, list, M)
BY DEF Cut

LEMMA CutEmpty ==
    ASSUME NEW list, NEW M
    PROVE  Cut(<<>>, list, M)
BY SpotsEmpty DEF Cut, Range, AtMostOne

LEMMA CutTail ==
    ASSUME NEW S, NEW list \in Seq(S), list # <<>>, NEW M
    PROVE  Cut(Tail(list), list, M)
<1>1. Range(Tail(list)) \subseteq Range(list)
  <2>1. /\ Len(list) \in Nat \ {0}
        /\ DOMAIN Tail(list) = 1 .. Len(list) - 1 /\ DOMAIN list = 1 .. Len(list)
        /\ \A k \in 1 .. Len(list) - 1 : Tail(list)[k] = list[k + 1]
    BY HeadTailProperties, EmptySeq, LenProperties
  <2>2. \A k \in 1 .. Len(list) - 1 : k + 1 \in 1 .. Len(list)
    BY <2>1
  <2> QED BY <2>1, <2>2 DEF Range
<1> QED BY <1>1, SpotsTail DEF Cut, Shrinks

LEMMA CutPrefix ==
    ASSUME NEW S, NEW list \in Seq(S), NEW n \in 0 .. Len(list), NEW M
    PROVE  Cut(SubSeq(list, 1, n), list, M)
<1>1. Len(list) \in Nat
  OBVIOUS
<1>2. \A k \in 1 .. n : list[k] \in S
  BY <1>1
<1>3. /\ SubSeq(list, 1, n) \in Seq(S)
      /\ Len(SubSeq(list, 1, n)) = n
      /\ \A k \in 1 .. n : SubSeq(list, 1, n)[k] = list[k]
  BY <1>1, <1>2, SubSeqProperties
<1>4. DOMAIN SubSeq(list, 1, n) = 1 .. n /\ DOMAIN list = 1 .. Len(list)
  BY <1>3, LenProperties
<1>5. Range(SubSeq(list, 1, n)) \subseteq Range(list)
  BY <1>1, <1>3, <1>4 DEF Range
<1> QED BY <1>5, SpotsPrefix DEF Cut, Shrinks

LEMMA CutAppend ==
    ASSUME NEW S, NEW list \in Seq(S), NEW m \in S, NEW M, m \notin M
    PROVE  Cut(Append(list, m), list, M)
<1>1. Range(Append(list, m)) = Range(list) \cup {m}
  BY BeforeAppend
<1>2. Spots(Append(list, m), M) = Spots(list, M) \cup (IF m \in M THEN {Len(list) + 1} ELSE {})
  BY SpotsAppend
<1>3. Spots(Append(list, m), M) = Spots(list, M)
  BY <1>2
<1> QED BY <1>1, <1>3 DEF Cut

LEMMA SpotsOf ==
    ASSUME NEW S, NEW list \in Seq(S), NEW M
    PROVE  Spots(list, M) = {} <=> Range(list) \cap M = {}
<1>1. DOMAIN list = 1 .. Len(list)
  BY LenProperties
<1> QED BY <1>1 DEF Spots, Range

\* The one member of M is taken from the head of a list.
LEMMA TakeHead ==
    ASSUME NEW S, NEW list \in Seq(S), list # <<>>, NEW M, Head(list) \in M
    PROVE  /\ Head(list) \in Range(list) \cap M
           /\ AtMostOne(Spots(list, M)) => Range(Tail(list)) \cap M = {}
<1>1. Len(list) \in Nat \ {0} /\ DOMAIN list = 1 .. Len(list) /\ Head(list) = list[1]
  BY EmptySeq, LenProperties
<1>2. Head(list) \in Range(list)
  BY <1>1 DEF Range
<1>3. Tail(list) \in Seq(S)
  BY HeadTailProperties
<1>4. AtMostOne(Spots(list, M)) => Spots(Tail(list), M) = {}
  BY SpotsTail
<1> QED BY <1>2, <1>3, <1>4, SpotsOf

\* A member of M is put at the end of a list that had none.
LEMMA PutEnd ==
    ASSUME NEW S, NEW list \in Seq(S), NEW m \in S, NEW M
    PROVE  /\ Range(Append(list, m)) \cap M \subseteq (Range(list) \cap M) \cup {m}
           /\ Range(list) \cap M = {} => AtMostOne(Spots(Append(list, m), M))
<1>1. Range(Append(list, m)) = Range(list) \cup {m}
  BY BeforeAppend
<1>2. Spots(Append(list, m), M) = Spots(list, M) \cup (IF m \in M THEN {Len(list) + 1} ELSE {})
  BY SpotsAppend
<1>3. Range(list) \cap M = {} => Spots(list, M) = {}
  BY SpotsOf
<1> QED BY <1>1, <1>2, <1>3 DEF AtMostOne

-----------------------------------------------------------------------------
(* What a step may do to the exchange of socket i. *)

CutElsewhere(X, i) == \A l \in Places \ X : Cut(List(l)', List(l), Mark(l, i))

Fewer(i) == CutElsewhere({}, i)

\* The message x leaves place a, and y arrives at place b.
Moved(i, a, x, b, y) ==
    /\ a \in Places /\ b \in Places /\ a # b
    /\ x \in Msgs(a, i)
    /\ AtMostOne(Here(a, i)) => Msgs(a, i)' = {} /\ AtMostOne(Here(a, i)')
    /\ Msgs(b, i)' \subseteq Msgs(b, i) \cup {y}
    /\ Msgs(b, i) = {} => AtMostOne(Here(b, i)')
    /\ \A q \in Calls : x \in Right(a, q) => y \in Right(b, q)
    /\ CutElsewhere({a, b}, i)

LEMMA CutHere ==
    ASSUME NEW i, NEW l, Cut(List(l)', List(l), Mark(l, i))
    PROVE  /\ AtMostOne(Here(l, i)) => AtMostOne(Here(l, i)')
           /\ Msgs(l, i)' \subseteq Msgs(l, i)
BY DEF Cut, Here, Msgs

\* Either keeps the exchange in one place, silence silent, and what fits a call
\* fitting it.
LEMMA FewerKeeps ==
    ASSUME NEW i, Fewer(i)
    PROVE  /\ OnePlace(i) => OnePlace(i)'
           /\ Silent(i) => Silent(i)'
           /\ \A q \in Calls : Fits(i, q) => Fits(i, q)'
<1>1. \A l \in Places : /\ AtMostOne(Here(l, i)) => AtMostOne(Here(l, i)')
                        /\ Msgs(l, i)' \subseteq Msgs(l, i)
  BY CutHere DEF Fewer, CutElsewhere
<1>2. OnePlace(i) => OnePlace(i)'
  BY <1>1 DEF OnePlace
<1>3. Silent(i) => Silent(i)'
  BY <1>1 DEF Silent
<1>4. \A q \in Calls : Fits(i, q) => Fits(i, q)'
  BY <1>1 DEF Fits
<1> QED BY <1>2, <1>3, <1>4

LEMMA MovedKeeps ==
    ASSUME NEW i, NEW a, NEW x, NEW b, NEW y, Moved(i, a, x, b, y), OnePlace(i)
    PROVE  /\ OnePlace(i)'
           /\ Silent(i) => Silent(i)'
           /\ \A q \in Calls : Fits(i, q) => Fits(i, q)'
<1>1. a \in Places /\ b \in Places /\ a # b /\ Msgs(a, i) # {} /\ x \in Msgs(a, i)
  BY DEF Moved
<1>2. \A l \in Places \ {a} : Msgs(l, i) = {}
  BY <1>1 DEF OnePlace
<1>3. \A l \in Places \ {a, b} : /\ AtMostOne(Here(l, i)')
                                 /\ Msgs(l, i)' = {}
  BY <1>2, CutHere DEF Moved, CutElsewhere, OnePlace
<1>4. Msgs(a, i)' = {} /\ AtMostOne(Here(a, i)')
  BY <1>1 DEF Moved, OnePlace
<1>5. AtMostOne(Here(b, i)') /\ Msgs(b, i)' \subseteq {y}
  BY <1>1, <1>2 DEF Moved
<1>6. OnePlace(i)'
  BY <1>1, <1>3, <1>4, <1>5 DEF OnePlace
<1>7. ~ Silent(i)
  BY <1>1 DEF Silent
<1>8. ASSUME NEW q \in Calls, Fits(i, q)
      PROVE  Fits(i, q)'
  <2>1. y \in Right(b, q)
    BY <1>1, <1>8 DEF Fits, Moved
  <2>2. \A l \in Places : Msgs(l, i)' \subseteq Right(l, q)
    BY <1>1, <1>3, <1>4, <1>5, <2>1
  <2> QED BY <2>2 DEF Fits
<1> QED BY <1>6, <1>7, <1>8

-----------------------------------------------------------------------------
\* The places by kind.
LEMMA PlaceIs ==
    /\ \A j \in Identity : /\ <<"up", j>> \in Places /\ <<"down", j>> \in Places
                           /\ List(<<"up", j>>) = toBroker[j]
                           /\ List(<<"down", j>>) = toPeer[j]
    /\ \A s \in ServiceName : <<"line", s>> \in Places /\ List(<<"line", s>>) = requests[s]
    /\ \A w \in Worker : <<"hand", w>> \in Places /\ List(<<"hand", w>>) = Hand(w)
BY DEF Places, List

LEMMA ListNext ==
    /\ \A j \in Identity : /\ List(<<"up", j>>)' = toBroker'[j]
                           /\ List(<<"down", j>>)' = toPeer'[j]
    /\ \A s \in ServiceName : List(<<"line", s>>)' = requests'[s]
    /\ \A w \in Worker : List(<<"hand", w>>)' = Hand(w)'
BY DEF List

LEMMA MarkIs ==
    ASSUME NEW i
    PROVE  /\ \A j : Mark(<<"up", j>>, i) = UpMark(j, i)
           /\ \A j : Mark(<<"down", j>>, i) = DownMark(j, i)
           /\ \A s : Mark(<<"line", s>>, i) = Of(i)
           /\ \A w : Mark(<<"hand", w>>, i) = Of(i)
BY DEF Mark

LEMMA ByKind ==
    ASSUME NEW X, NEW i,
           \A j \in Identity : <<"up", j>> \notin X
                               => Cut(toBroker'[j], toBroker[j], UpMark(j, i)),
           \A j \in Identity : <<"down", j>> \notin X
                               => Cut(toPeer'[j], toPeer[j], DownMark(j, i)),
           \A s \in ServiceName : <<"line", s>> \notin X
                               => Cut(requests'[s], requests[s], Of(i)),
           \A w \in Worker : <<"hand", w>> \notin X
                               => Cut(Hand(w)', Hand(w), Of(i))
    PROVE  CutElsewhere(X, i)
<1>1. SUFFICES ASSUME NEW l \in Places \ X
               PROVE  Cut(List(l)', List(l), Mark(l, i))
  BY DEF CutElsewhere
<1>2. CASE \E j \in Identity : l = <<"up", j>>
  BY <1>1, <1>2, PlaceIs, ListNext, MarkIs
<1>3. CASE \E j \in Identity : l = <<"down", j>>
  BY <1>1, <1>3, PlaceIs, ListNext, MarkIs
<1>4. CASE \E s \in ServiceName : l = <<"line", s>>
  BY <1>1, <1>4, PlaceIs, ListNext, MarkIs
<1>5. CASE \E w \in Worker : l = <<"hand", w>>
  BY <1>1, <1>5, PlaceIs, ListNext, MarkIs
<1> QED BY <1>2, <1>3, <1>4, <1>5 DEF Places

\* A message is taken from the head of a place, or put at the end of one.
LEMMA Leaves ==
    ASSUME NEW S, NEW i, NEW l, List(l) \in Seq(S), List(l) # <<>>,
           Head(List(l)) \in Mark(l, i), List(l)' = Tail(List(l))
    PROVE  /\ Head(List(l)) \in Msgs(l, i)
           /\ AtMostOne(Here(l, i)) => Msgs(l, i)' = {} /\ AtMostOne(Here(l, i)')
<1>1. /\ Head(List(l)) \in Range(List(l)) \cap Mark(l, i)
      /\ AtMostOne(Spots(List(l), Mark(l, i))) => Range(Tail(List(l))) \cap Mark(l, i) = {}
  BY TakeHead
<1>2. Cut(List(l)', List(l), Mark(l, i))
  BY CutTail
<1> QED BY <1>1, <1>2, CutHere DEF Msgs, Here

LEMMA Arrives ==
    ASSUME NEW S, NEW i, NEW l, NEW m \in S, List(l) \in Seq(S),
           List(l)' = Append(List(l), m)
    PROVE  /\ Msgs(l, i)' \subseteq Msgs(l, i) \cup {m}
           /\ Msgs(l, i) = {} => AtMostOne(Here(l, i)')
<1>1. /\ Range(Append(List(l), m)) \cap Mark(l, i)
            \subseteq (Range(List(l)) \cap Mark(l, i)) \cup {m}
      /\ Range(List(l)) \cap Mark(l, i) = {}
           => AtMostOne(Spots(Append(List(l), m), Mark(l, i)))
  BY PutEnd
<1> QED BY <1>1 DEF Msgs, Here

LEMMA RoutedTo ==
    ASSUME NetTypeOK, NEW x, NEW m, Routed(x, m)
    PROVE  \A j \in Identity : toPeer'[j] = IF j = x /\ x \in open THEN Append(toPeer[j], m)
                                            ELSE toPeer[j]
BY DEF NetTypeOK, Routed

\* What the broker routes that is no part of the exchange.
LEMMA RoutedCut ==
    ASSUME NetTypeOK, NEW x, NEW m \in BrokerMessage, Routed(x, m),
           NEW i, m \notin DownMark(x, i)
    PROVE  \A j \in Identity : Cut(toPeer'[j], toPeer[j], DownMark(j, i))
<1>1. SUFFICES ASSUME NEW j \in Identity
               PROVE  Cut(toPeer'[j], toPeer[j], DownMark(j, i))
  OBVIOUS
<1>2. toPeer[j] \in Seq(BrokerMessage)
  BY DEF NetTypeOK
<1>3. CASE toPeer'[j] = toPeer[j]
  BY <1>3, CutSame
<1>4. CASE j = x /\ toPeer'[j] = Append(toPeer[j], m)
  BY <1>2, <1>4, CutAppend
<1> QED BY <1>3, <1>4, RoutedTo

\* The channels to the broker while it takes a message.
LEMMA TakenUp ==
    ASSUME NetTypeOK, NEW b \in Identity, BrokerMessageIn(b)
    PROVE  /\ toBroker[b] \in Seq(PeerMessage) /\ toBroker[b] # <<>>
           /\ Head(toBroker[b]) \in PeerMessage
           /\ toBroker'[b] = Tail(toBroker[b])
           /\ \A j \in Identity \ {b} : toBroker'[j] = toBroker[j]
           /\ \A M : \A j \in Identity : Cut(toBroker'[j], toBroker[j], M)
<1>1. /\ toBroker[b] \in Seq(PeerMessage) /\ toBroker[b] # <<>>
      /\ toBroker'[b] = Tail(toBroker[b])
      /\ \A j \in Identity \ {b} : toBroker'[j] = toBroker[j]
  BY DEF NetTypeOK, BrokerMessageIn
<1>2. ASSUME NEW j \in Identity, NEW M
      PROVE  Cut(toBroker'[j], toBroker[j], M)
  <2>1. CASE j = b
    BY <1>1, <2>1, CutTail
  <2>2. CASE j # b
    BY <1>1, <2>2, CutSame
  <2> QED BY <2>1, <2>2
<1>3. Head(toBroker[b]) \in PeerMessage
  BY <1>1
<1> QED BY <1>1, <1>2, <1>3


-----------------------------------------------------------------------------
(* The broker's turns. *)

\* What a step may do to the exchange of socket i, unless its owner sends.
Kept(i) == Fewer(i) \/ \E a, x, b, y : Moved(i, a, x, b, y)

LEMMA SameElsewhere ==
    ASSUME NEW X, NEW i,
           \A j \in Identity : <<"up", j>> \notin X
                               => Cut(toBroker'[j], toBroker[j], UpMark(j, i)),
           \A j \in Identity : <<"down", j>> \notin X
                               => Cut(toPeer'[j], toPeer[j], DownMark(j, i)),
           \A s \in ServiceName : <<"line", s>> \notin X => requests'[s] = requests[s],
           \A w \in Worker : <<"hand", w>> \notin X => Hand(w)' = Hand(w)
    PROVE  CutElsewhere(X, i)
<1>1. \A s \in ServiceName : <<"line", s>> \notin X => Cut(requests'[s], requests[s], Of(i))
  BY CutSame
<1>2. \A w \in Worker : <<"hand", w>> \notin X => Cut(Hand(w)', Hand(w), Of(i))
  BY CutSame
<1> QED BY <1>1, <1>2, ByKind

LEMMA SameHands ==
    ASSUME UNCHANGED workerVars
    PROVE  \A w \in Worker : Hand(w)' = Hand(w)
BY DEF workerVars, Hand

\* REPLY: what worker b sent moves on to the client, unless it is gone.
LEMMA ReplyKept ==
    ASSUME NetTypeOK, BrokerInv, PlacesInv, NEW b \in Identity, BrokerMessageIn(b),
           UNCHANGED workerVars, WorkerReply(b, Head(toBroker[b])),
           NEW i \in ClientSocket
    PROVE  Kept(i)
<1> DEFINE m == Head(toBroker[b])
           y == [cmd |-> "ANSWER", svc |-> service[b], tag |-> m.tag]
           up == <<"up", b>>
           down == <<"down", i>>
<1>1. /\ m.cmd = "REPLY" /\ b \in known /\ Routed(m.client, y)
      /\ UNCHANGED requests
  BY DEF WorkerReply
<1>2. m \in Reply /\ m.client \in Identity /\ m.tag \in Tag
  BY <1>1, TakenUp DEF PeerMessage, Ready, Reply, Heartbeat, Disconnect, Call, MmiCall
<1>3. service[b] = ServiceOf[b[1]] /\ service[b] \in ServiceName
  BY <1>1 DEF PlacesInv, KnownAreWorkers, BrokerInv, KnownHaveService
<1>4. y \in Answer /\ y \in BrokerMessage /\ y.cmd = "ANSWER"
  BY <1>2, <1>3 DEF Answer, BrokerMessage
<1>5. /\ \A s \in ServiceName : requests'[s] = requests[s]
      /\ \A w \in Worker : Hand(w)' = Hand(w)
      /\ \A j \in Identity : Cut(toBroker'[j], toBroker[j], UpMark(j, i))
  BY <1>1, SameHands, TakenUp
<1>6. i \in Identity
  BY Sockets
<1>7. CASE m.client # i
  <2>1. y \notin DownMark(m.client, i)
    BY <1>4, <1>7 DEF DownMark
  <2>2. \A j \in Identity : Cut(toPeer'[j], toPeer[j], DownMark(j, i))
    BY <1>1, <1>4, <2>1, RoutedCut
  <2> QED BY <1>5, <2>2, SameElsewhere DEF Kept, Fewer
<1>8. CASE i \notin open /\ m.client = i
  <2>1. \A j \in Identity : toPeer'[j] = toPeer[j]
    BY <1>1, <1>8, RoutedTo
  <2>2. \A j \in Identity : Cut(toPeer'[j], toPeer[j], DownMark(j, i))
    BY <2>1, CutSame
  <2> QED BY <1>5, <2>2, SameElsewhere DEF Kept, Fewer
<1>9. CASE i \in open /\ m.client = i
  <2>1. /\ toPeer'[i] = Append(toPeer[i], y)
        /\ \A j \in Identity \ {i} : toPeer'[j] = toPeer[j]
    BY <1>1, <1>6, <1>9, RoutedTo
  <2>2. /\ m \in Msgs(up, i)
        /\ AtMostOne(Here(up, i)) => Msgs(up, i)' = {} /\ AtMostOne(Here(up, i)')
    <3>1. List(up) = toBroker[b] /\ List(up)' = toBroker'[b] /\ Mark(up, i) = UpMark(b, i)
      BY PlaceIs, ListNext, MarkIs
    <3>2. m \in UpMark(b, i)
      BY <1>2, <1>9 DEF UpMark, Reply
    <3> QED BY <3>1, <3>2, TakenUp, Leaves
  <2>3. /\ Msgs(down, i)' \subseteq Msgs(down, i) \cup {y}
        /\ Msgs(down, i) = {} => AtMostOne(Here(down, i)')
    <3>1. /\ List(down) = toPeer[i] /\ List(down)' = toPeer'[i]
          /\ toPeer[i] \in Seq(BrokerMessage)
      BY <1>6, PlaceIs, ListNext DEF NetTypeOK
    <3>2. PICK z \in BrokerMessage : z = y
      BY <1>4
    <3>3. List(down)' = Append(List(down), z) /\ List(down) \in Seq(BrokerMessage)
      BY <2>1, <3>1, <3>2
    <3>4. /\ Msgs(down, i)' \subseteq Msgs(down, i) \cup {z}
          /\ Msgs(down, i) = {} => AtMostOne(Here(down, i)')
      BY <3>3, Arrives
    <3> QED BY <3>2, <3>4
  <2>4. ASSUME NEW q \in Calls, m \in Right(up, q)
        PROVE  y \in Right(down, q)
    <3>1. Right(up, q) = RightUp(b, q) /\ Right(down, q) = RightDown(i, q)
      BY DEF Right
    <3>2. m # q
      BY <1>1 DEF Calls, Call, MmiCall
    <3>3. q \in Call /\ m.tag = q.tag /\ ServiceOf[b[1]] = q.svc
      BY <2>4, <3>1, <3>2 DEF RightUp
    <3> QED BY <1>3, <1>4, <3>1, <3>3 DEF RightDown
  <2>5. CutElsewhere({up, down}, i)
    <3>1. \A j \in Identity : <<"down", j>> \notin {up, down}
                              => Cut(toPeer'[j], toPeer[j], DownMark(j, i))
      BY <2>1, CutSame
    <3> QED BY <1>5, <3>1, SameElsewhere
  <2>6. up \in Places /\ down \in Places /\ up # down
    BY <1>6, PlaceIs
  <2>7. Moved(i, up, m, down, y)
    BY <2>2, <2>3, <2>4, <2>5, <2>6 DEF Moved
  <2> QED BY <2>7 DEF Kept
<1> QED BY <1>7, <1>8, <1>9

\* A call of mmi.service: answered at once, by the name it asked for.
LEMMA MmiKept ==
    ASSUME NetTypeOK, BrokerInv, PlacesInv, NEW b \in Identity, BrokerMessageIn(b),
           UNCHANGED workerVars, ClientMmi(b, Head(toBroker[b])),
           NEW i \in ClientSocket
    PROVE  Kept(i)
<1> DEFINE m == Head(toBroker[b])
           y == [cmd |-> "ANSWER", svc |-> m.svc, code |-> MmiCode(m)]
           up == <<"up", b>>
           down == <<"down", i>>
<1>1. /\ m.cmd = "CALL" /\ m.svc \in Reserved /\ Routed(b, y)
      /\ UNCHANGED requests
  BY DEF ClientMmi
<1>2. m \in MmiCall
  BY <1>1, TakenUp, NetAssumption
     DEF PeerMessage, Ready, Reply, Heartbeat, Disconnect, Call, MmiCall
<1>3. y \in MmiAnswer /\ y \in BrokerMessage /\ y.cmd = "ANSWER"
  <2>1. MmiCode(m) \in {"200", "404", "501"}
    BY DEF MmiCode
  <2> QED BY <1>1, <2>1 DEF MmiAnswer, BrokerMessage
<1>5. /\ \A s \in ServiceName : requests'[s] = requests[s]
      /\ \A w \in Worker : Hand(w)' = Hand(w)
      /\ \A j \in Identity : Cut(toBroker'[j], toBroker[j], UpMark(j, i))
  BY <1>1, SameHands, TakenUp
<1>6. i \in Identity
  BY Sockets
<1>7. CASE b # i
  <2>1. y \notin DownMark(b, i)
    BY <1>3, <1>7 DEF DownMark
  <2>2. \A j \in Identity : Cut(toPeer'[j], toPeer[j], DownMark(j, i))
    BY <1>1, <1>3, <2>1, RoutedCut
  <2> QED BY <1>5, <2>2, SameElsewhere DEF Kept, Fewer
<1>8. CASE i \notin open /\ b = i
  <2>1. \A j \in Identity : toPeer'[j] = toPeer[j]
    BY <1>1, <1>8, RoutedTo
  <2>2. \A j \in Identity : Cut(toPeer'[j], toPeer[j], DownMark(j, i))
    BY <2>1, CutSame
  <2> QED BY <1>5, <2>2, SameElsewhere DEF Kept, Fewer
<1>9. CASE i \in open /\ b = i
  <2>1. /\ toPeer'[i] = Append(toPeer[i], y)
        /\ \A j \in Identity \ {i} : toPeer'[j] = toPeer[j]
    BY <1>1, <1>6, <1>9, RoutedTo
  <2>2. /\ m \in Msgs(up, i)
        /\ AtMostOne(Here(up, i)) => Msgs(up, i)' = {} /\ AtMostOne(Here(up, i)')
    <3>1. List(up) = toBroker[b] /\ List(up)' = toBroker'[b] /\ Mark(up, i) = UpMark(b, i)
      BY PlaceIs, ListNext, MarkIs
    <3>2. m \in UpMark(b, i)
      BY <1>2, <1>9 DEF UpMark, Calls
    <3> QED BY <3>1, <3>2, TakenUp, Leaves
  <2>3. /\ Msgs(down, i)' \subseteq Msgs(down, i) \cup {y}
        /\ Msgs(down, i) = {} => AtMostOne(Here(down, i)')
    <3>1. /\ List(down) = toPeer[i] /\ List(down)' = toPeer'[i]
          /\ toPeer[i] \in Seq(BrokerMessage)
      BY <1>6, PlaceIs, ListNext DEF NetTypeOK
    <3> QED BY <1>3, <2>1, <3>1, Arrives
  <2>4. ASSUME NEW q \in Calls, m \in Right(up, q)
        PROVE  y \in Right(down, q)
    <3>1. Right(up, q) = RightUp(b, q) /\ Right(down, q) = RightDown(i, q)
      BY DEF Right
    <3>2. m \notin Reply
      BY <1>1 DEF Reply
    <3>3. m = q
      BY <2>4, <3>1, <3>2 DEF RightUp
    <3>4. q \notin Call
      BY <1>1, <3>3, NetAssumption DEF Call
    <3> QED BY <1>3, <3>1, <3>3, <3>4 DEF RightDown
  <2>5. CutElsewhere({up, down}, i)
    <3>1. \A j \in Identity : <<"down", j>> \notin {up, down}
                              => Cut(toPeer'[j], toPeer[j], DownMark(j, i))
      BY <2>1, CutSame
    <3> QED BY <1>5, <3>1, SameElsewhere
  <2>6. up \in Places /\ down \in Places /\ up # down
    BY <1>6, PlaceIs
  <2>7. Moved(i, up, m, down, y)
    BY <2>2, <2>3, <2>4, <2>5, <2>6 DEF Moved
  <2> QED BY <2>7 DEF Kept
<1> QED BY <1>7, <1>8, <1>9

\* A request joins the queue of its service.
LEMMA RequestKept ==
    ASSUME NetTypeOK, BrokerInv, NEW b \in Identity, BrokerMessageIn(b),
           UNCHANGED workerVars, ClientRequest(b, Head(toBroker[b])),
           NEW i \in ClientSocket
    PROVE  Kept(i)
<1> DEFINE m == Head(toBroker[b])
           y == [client |-> b, tag |-> m.tag]
           up == <<"up", b>>
<1>0. PICK s \in Service : s = m.svc
  BY DEF ClientRequest
<1> DEFINE line == <<"line", s>>
<1>1. /\ m.cmd = "CALL" /\ s \in ServiceName
      /\ requests' = [requests EXCEPT ![s] = Append(@, y)]
      /\ UNCHANGED toPeer
  BY <1>0 DEF ClientRequest, ServiceName
<1>2. m \in Call /\ m.tag \in Tag
  BY <1>0, <1>1, TakenUp, PeerMessageFrames, NetAssumption
     DEF PeerMessage, Ready, Reply, Heartbeat, Disconnect, Call, MmiCall
<1>3. /\ y \in Queued /\ requests[s] \in Seq(Queued)
      /\ requests'[s] = Append(requests[s], y)
      /\ \A t \in ServiceName \ {s} : requests'[t] = requests[t]
  BY <1>1, <1>2 DEF Queued, BrokerInv, BrokerTypeOK
<1>5. /\ \A j \in Identity : Cut(toPeer'[j], toPeer[j], DownMark(j, i))
      /\ \A w \in Worker : Hand(w)' = Hand(w)
      /\ \A w \in Worker : Cut(Hand(w)', Hand(w), Of(i))
      /\ \A j \in Identity : Cut(toBroker'[j], toBroker[j], UpMark(j, i))
  BY <1>1, SameHands, TakenUp, CutSame
<1>7. CASE b # i
  <2>1. y \notin Of(i)
    BY <1>7 DEF Of
  <2>2. ASSUME NEW t \in ServiceName
        PROVE  Cut(requests'[t], requests[t], Of(i))
    <3>1. CASE t = s
      BY <1>3, <2>1, <3>1, CutAppend
    <3>2. CASE t # s
      BY <1>3, <3>2, CutSame
    <3> QED BY <3>1, <3>2
  <2>3. CutElsewhere({}, i)
    BY <1>5, <2>2, ByKind
  <2> QED BY <2>3 DEF Kept, Fewer
<1>9. CASE b = i
  <2>2. /\ m \in Msgs(up, i)
        /\ AtMostOne(Here(up, i)) => Msgs(up, i)' = {} /\ AtMostOne(Here(up, i)')
    <3>1. List(up) = toBroker[b] /\ List(up)' = toBroker'[b] /\ Mark(up, i) = UpMark(b, i)
      BY PlaceIs, ListNext, MarkIs
    <3>2. m \in UpMark(b, i)
      BY <1>2, <1>9 DEF UpMark, Calls
    <3> QED BY <3>1, <3>2, TakenUp, Leaves
  <2>3. /\ Msgs(line, i)' \subseteq Msgs(line, i) \cup {y}
        /\ Msgs(line, i) = {} => AtMostOne(Here(line, i)')
    <3>1. List(line) = requests[s] /\ List(line)' = requests'[s]
      BY <1>1, PlaceIs, ListNext
    <3>2. PICK z \in Queued : z = y
      BY <1>3
    <3>3. List(line)' = Append(List(line), z) /\ List(line) \in Seq(Queued)
      BY <1>3, <3>1, <3>2
    <3>4. /\ Msgs(line, i)' \subseteq Msgs(line, i) \cup {z}
          /\ Msgs(line, i) = {} => AtMostOne(Here(line, i)')
      BY <3>3, Arrives
    <3> QED BY <3>2, <3>4
  <2>4. ASSUME NEW q \in Calls, m \in Right(up, q)
        PROVE  y \in Right(line, q)
    <3>1. Right(up, q) = RightUp(b, q)
      BY DEF Right
    <3>2. m \notin Reply
      BY <1>1 DEF Reply
    <3>3. m = q
      BY <2>4, <3>1, <3>2 DEF RightUp
    <3> QED BY <1>0, <1>2, <1>3, <3>3 DEF Right
  <2>5. CutElsewhere({up, line}, i)
    <3>1. \A t \in ServiceName : <<"line", t>> \notin {up, line}
                                 => requests'[t] = requests[t]
      BY <1>3
    <3> QED BY <1>5, <3>1, SameElsewhere
  <2>6. up \in Places /\ line \in Places /\ up # line
    BY <1>1, PlaceIs
  <2>7. Moved(i, up, m, line, y)
    BY <2>2, <2>3, <2>4, <2>5, <2>6 DEF Moved
  <2> QED BY <2>7 DEF Kept
<1> QED BY <1>7, <1>9

\* The other handlers add nothing to an exchange.
LEMMA MessageKept ==
    ASSUME NetTypeOK, BrokerInv, PlacesInv, NEW b \in Identity, BrokerMessageIn(b),
           UNCHANGED workerVars, NEW i \in ClientSocket
    PROVE  Kept(i)
<1> DEFINE m == Head(toBroker[b])
<1>1. /\ \A w \in Worker : Hand(w)' = Hand(w)
      /\ \A j \in Identity : Cut(toBroker'[j], toBroker[j], UpMark(j, i))
  BY SameHands, TakenUp
<1>2. CASE UNCHANGED <<requests, toPeer>>
  <2>1. \A j \in Identity : Cut(toPeer'[j], toPeer[j], DownMark(j, i))
    BY <1>2, CutSame
  <2> QED BY <1>1, <1>2, <2>1, SameElsewhere DEF Kept, Fewer
<1>3. CASE WorkerRefuse(b, m)
  <2>1. Routed(b, Disconnect) /\ UNCHANGED requests
    BY <1>3 DEF WorkerRefuse
  <2>2. Disconnect.cmd = "DISCONNECT" /\ Disconnect \in BrokerMessage
    BY DEF Disconnect, BrokerMessage
  <2>3. Disconnect \notin DownMark(b, i)
    BY <2>2 DEF DownMark, Answer, MmiAnswer
  <2>4. \A j \in Identity : Cut(toPeer'[j], toPeer[j], DownMark(j, i))
    BY <2>1, <2>2, <2>3, RoutedCut
  <2> QED BY <1>1, <2>1, <2>4, SameElsewhere DEF Kept, Fewer
<1>4. WorkerReady(b, m) \/ WorkerHeartbeat(b, m) \/ WorkerDisconnect(b, m)
      => UNCHANGED <<requests, toPeer>>
  BY DEF WorkerReady, WorkerHeartbeat, WorkerDisconnect
<1> QED BY <1>2, <1>3, <1>4, ReplyKept, MmiKept, RequestKept DEF BrokerMessageIn

\* The head of the queue goes to a worker of the service, unless it is gone.
LEMMA DispatchKept ==
    ASSUME NetTypeOK, BrokerInv, PlacesInv, Dispatch, UNCHANGED workerVars,
           NEW i \in ClientSocket
    PROVE  Kept(i)
<1>1. PICK s \in ServiceName : s = current
  BY DEF BrokerInv, DispatchTarget, Dispatch
<1>2. PICK b \in Identity : b = Head(swaiting[s])
  BY <1>1, DispatchLists, Sockets
     DEF BrokerInv, PlacesInv, ListsAgree, KnownAreWorkers
<1>3. service[b] = s /\ ServiceOf[b[1]] = s
  BY <1>1, <1>2, DispatchLists DEF BrokerInv, PlacesInv, ListsAgree, KnownAreWorkers
<1>4. /\ requests[s] \in Seq(Queued) /\ requests[s] # <<>>
      /\ requests'[s] = Tail(requests[s])
      /\ \A t \in ServiceName \ {s} : requests'[t] = requests[t]
  BY <1>1 DEF BrokerInv, BrokerTypeOK, Dispatch
<1>5. PICK r \in Queued : r = Head(requests[s])
  BY <1>4
<1>6. PICK y \in Request : y = [cmd |-> "REQUEST", client |-> r.client, tag |-> r.tag]
  BY DEF Queued, Request
<1>7. Routed(b, y) /\ UNCHANGED toBroker
  BY <1>1, <1>2, <1>5, <1>6 DEF Dispatch
<1>8. y \in BrokerMessage
  BY DEF BrokerMessage
<1>9. /\ \A t \in ServiceName : Cut(requests'[t], requests[t], Of(i))
      /\ \A w \in Worker : Hand(w)' = Hand(w)
      /\ \A w \in Worker : Cut(Hand(w)', Hand(w), Of(i))
      /\ \A j \in Identity : Cut(toBroker'[j], toBroker[j], UpMark(j, i))
  <2>1. ASSUME NEW t \in ServiceName
        PROVE  Cut(requests'[t], requests[t], Of(i))
    <3>1. CASE t = s
      BY <1>4, <3>1, CutTail
    <3>2. CASE t # s
      BY <1>4, <3>2, CutSame
    <3> QED BY <3>1, <3>2
  <2> QED BY <1>7, <2>1, SameHands, CutSame
<1>10. CASE r.client # i
  <2>1. y \notin DownMark(b, i)
    BY <1>6, <1>10 DEF DownMark, Answer, MmiAnswer
  <2>2. \A j \in Identity : Cut(toPeer'[j], toPeer[j], DownMark(j, i))
    BY <1>7, <1>8, <2>1, RoutedCut
  <2> QED BY <1>9, <2>2, ByKind DEF Kept, Fewer
<1>11. CASE b \notin open
  <2>1. \A j \in Identity : toPeer'[j] = toPeer[j]
    BY <1>7, <1>11, RoutedTo
  <2>2. \A j \in Identity : Cut(toPeer'[j], toPeer[j], DownMark(j, i))
    BY <2>1, CutSame
  <2> QED BY <1>9, <2>2, ByKind DEF Kept, Fewer
<1>12. CASE r.client = i /\ b \in open
  <2> DEFINE line == <<"line", s>>
             down == <<"down", b>>
  <2>1. /\ toPeer'[b] = Append(toPeer[b], y)
        /\ \A j \in Identity \ {b} : toPeer'[j] = toPeer[j]
    BY <1>7, <1>12, RoutedTo
  <2>2. /\ r \in Msgs(line, i)
        /\ AtMostOne(Here(line, i)) => Msgs(line, i)' = {} /\ AtMostOne(Here(line, i)')
    <3>1. List(line) = requests[s] /\ List(line)' = requests'[s] /\ Mark(line, i) = Of(i)
      BY PlaceIs, ListNext, MarkIs
    <3>2. r \in Of(i)
      BY <1>12 DEF Of, Queued
    <3>3. /\ List(line) \in Seq(Queued) /\ List(line) # <<>>
          /\ List(line)' = Tail(List(line))
          /\ r = Head(List(line)) /\ Head(List(line)) \in Mark(line, i)
      BY <1>4, <1>5, <3>1, <3>2
    <3> QED BY <3>3, Leaves
  <2>3. /\ Msgs(down, i)' \subseteq Msgs(down, i) \cup {y}
        /\ Msgs(down, i) = {} => AtMostOne(Here(down, i)')
    <3>1. List(down)' = Append(List(down), y) /\ List(down) \in Seq(BrokerMessage)
      BY <2>1, PlaceIs, ListNext DEF NetTypeOK
    <3> QED BY <1>8, <3>1, Arrives
  <2>4. ASSUME NEW q \in Calls, r \in Right(line, q)
        PROVE  y \in Right(down, q)
    <3>1. q \in Call /\ r.tag = q.tag /\ q.svc = s
      BY <2>4 DEF Right
    <3>2. y.tag = q.tag
      BY <1>6, <3>1
    <3>3. y \in RightDown(b, q)
      BY <1>3, <3>1, <3>2 DEF RightDown
    <3> QED BY <3>3 DEF Right
  <2>5. CutElsewhere({line, down}, i)
    <3>1. \A j \in Identity : <<"down", j>> \notin {line, down}
                              => Cut(toPeer'[j], toPeer[j], DownMark(j, i))
      BY <2>1, CutSame
    <3> QED BY <1>9, <3>1, ByKind
  <2>6. line \in Places /\ down \in Places /\ line # down
    BY PlaceIs
  <2>7. Moved(i, line, r, down, y)
    BY <2>2, <2>3, <2>4, <2>5, <2>6 DEF Moved
  <2> QED BY <2>7 DEF Kept
<1> QED BY <1>10, <1>11, <1>12

LEMMA HeartbeatKept ==
    ASSUME NetTypeOK, HeartbeatRound, UNCHANGED workerVars, NEW i \in ClientSocket
    PROVE  Kept(i)
<1>1. Heartbeat.cmd = "HEARTBEAT" /\ Heartbeat \in BrokerMessage
  BY DEF Heartbeat, BrokerMessage
<1>2. ASSUME NEW j \in Identity
      PROVE  Cut(toPeer'[j], toPeer[j], DownMark(j, i))
  <2>1. toPeer'[j] = toPeer[j] \/ toPeer'[j] = Append(toPeer[j], Heartbeat)
    BY DEF HeartbeatRound
  <2>2. Heartbeat \notin DownMark(j, i)
    BY <1>1 DEF DownMark, Answer, MmiAnswer
  <2>3. toPeer[j] \in Seq(BrokerMessage)
    BY DEF NetTypeOK
  <2>4. CASE toPeer'[j] = toPeer[j]
    BY <2>4, CutSame
  <2>5. CASE toPeer'[j] = Append(toPeer[j], Heartbeat)
    BY <1>1, <2>2, <2>3, <2>5, CutAppend
  <2> QED BY <2>1, <2>4, <2>5
<1>3. /\ \A s \in ServiceName : requests'[s] = requests[s]
      /\ \A w \in Worker : Hand(w)' = Hand(w)
      /\ \A j \in Identity : Cut(toBroker'[j], toBroker[j], UpMark(j, i))
  BY SameHands, CutSame DEF HeartbeatRound
<1> QED BY <1>2, <1>3, SameElsewhere DEF Kept, Fewer

\* A step that leaves the places alone.
LEMMA StillKept ==
    ASSUME UNCHANGED <<toBroker, toPeer, requests, held>>, NEW i
    PROVE  Kept(i)
<1>1. /\ \A s \in ServiceName : requests'[s] = requests[s]
      /\ \A w \in Worker : Hand(w)' = Hand(w)
      /\ \A j \in Identity : Cut(toBroker'[j], toBroker[j], UpMark(j, i))
      /\ \A j \in Identity : Cut(toPeer'[j], toPeer[j], DownMark(j, i))
  BY CutSame DEF Hand
<1> QED BY <1>1, SameElsewhere DEF Kept, Fewer

LEMMA BrokerKept ==
    ASSUME NetTypeOK, BrokerInv, PlacesInv, BrokerNext, UNCHANGED workerVars,
           NEW i \in ClientSocket
    PROVE  Kept(i)
<1>1. BrokerPollTimeout \/ PurgeHead \/ PurgeDone \/ DispatchDone
      => UNCHANGED <<toBroker, toPeer, requests, held>>
  BY DEF BrokerPollTimeout, PurgeHead, PurgeDone, DispatchDone, netVars, workerVars
<1> QED BY <1>1, StillKept, MessageKept, DispatchKept, HeartbeatKept DEF BrokerNext

LEMMA RestartKept ==
    ASSUME NetTypeOK, BrokerRestart, UNCHANGED workerVars, NEW i
    PROVE  Kept(i)
<1>1. /\ \A j \in Identity : toBroker'[j] = toBroker[j] \/ toBroker'[j] = <<>>
      /\ \A j \in Identity : toPeer'[j] = toPeer[j] \/ toPeer'[j] = <<>>
      /\ \A s \in ServiceName : requests'[s] = <<>>
  BY DEF BrokerRestart, Outage
<1>2. /\ \A j \in Identity : Cut(toBroker'[j], toBroker[j], UpMark(j, i))
      /\ \A j \in Identity : Cut(toPeer'[j], toPeer[j], DownMark(j, i))
      /\ \A s \in ServiceName : Cut(requests'[s], requests[s], Of(i))
      /\ \A w \in Worker : Cut(Hand(w)', Hand(w), Of(i))
  BY <1>1, CutSame, CutEmpty, SameHands
<1> QED BY <1>2, ByKind DEF Kept, Fewer

-----------------------------------------------------------------------------
(* The workers' steps. *)

\* What a worker says of itself is no part of an exchange.
LEMMA QuietSend ==
    ASSUME NetTypeOK, NEW w \in Worker, NEW m \in {Heartbeat, Disconnect}, Send(w, m), NEW i
    PROVE  \A j \in Identity : Cut(toBroker'[j], toBroker[j], UpMark(j, i))
<1>1. SUFFICES ASSUME NEW j \in Identity
               PROVE  Cut(toBroker'[j], toBroker[j], UpMark(j, i))
  OBVIOUS
<1>2. m.cmd \in {"HEARTBEAT", "DISCONNECT"} /\ m \in PeerMessage
  BY DEF Heartbeat, Disconnect, PeerMessage
<1>3. m \notin UpMark(j, i)
  BY <1>2 DEF UpMark, Calls, Call, MmiCall
<1>4. toBroker[j] \in Seq(PeerMessage)
  BY DEF NetTypeOK
<1>5. toBroker'[j] = toBroker[j] \/ toBroker'[j] = Append(toBroker[j], m)
  BY DEF NetTypeOK, Send
<1>6. CASE toBroker'[j] = toBroker[j]
  BY <1>6, CutSame
<1>7. CASE toBroker'[j] = Append(toBroker[j], m)
  BY <1>2, <1>3, <1>4, <1>7, CutAppend
<1> QED BY <1>5, <1>6, <1>7

\* A peer takes one message out of its socket.
LEMMA TakeCut ==
    ASSUME NetTypeOK, NEW p \in Peer, Take(p), Inbox(p) # <<>>
    PROVE  /\ \A M : \A j \in Identity : Cut(toPeer'[j], toPeer[j], M)
           /\ \A j \in Identity : toPeer'[j] = IF j = Conn(p) THEN Tail(toPeer[j])
                                               ELSE toPeer[j]
<1>1. PICK c \in Identity : c = Conn(p)
  BY ConnOf
<1>2. /\ toPeer[c] \in Seq(BrokerMessage) /\ toPeer[c] # <<>>
      /\ \A j \in Identity : toPeer'[j] = IF j = c THEN Tail(toPeer[j]) ELSE toPeer[j]
  BY <1>1 DEF NetTypeOK, Inbox, Take
<1>3. ASSUME NEW j \in Identity, NEW M
      PROVE  Cut(toPeer'[j], toPeer[j], M)
  <2>1. CASE j = c
    BY <1>2, <2>1, CutTail
  <2>2. CASE j # c
    BY <1>2, <2>2, CutSame
  <2> QED BY <2>1, <2>2
<1> QED BY <1>1, <1>2, <1>3

\* A new socket, whose first message is no part of the exchange.
LEMMA ReopenCut ==
    ASSUME NetTypeOK, SocketsInOrder, NEW p \in Peer, NEW m \in PeerMessage, Reopen(p, m),
           NEW i
    PROVE  /\ \A j \in Identity : Cut(toPeer'[j], toPeer[j], DownMark(j, i))
           /\ \A j \in Identity : j # Conn(p)' \/ m \notin UpMark(j, i)
                                  => Cut(toBroker'[j], toBroker[j], UpMark(j, i))
<1>1. PICK c \in Identity : c = Conn(p)
  BY ConnOf
<1>2. PICK f \in Identity : f = Conn(p)'
  BY ReopenPlaces
<1>3. /\ f # c
      /\ toBroker[f] = <<>> /\ toBroker'[f] = <<m>>
      /\ toPeer'[f] = <<>> /\ toPeer'[c] = <<>>
      /\ \A j \in Identity \ {c, f} : toBroker'[j] = toBroker[j] /\ toPeer'[j] = toPeer[j]
  <2>1. f[1] = p /\ f[2] = session[p] + 1 /\ session[p] \in Nat
    BY <1>2, ConnOf DEF Reopen, Conn, NetTypeOK
  <2>2. toBroker[f] = <<>>
    BY <2>1 DEF SocketsInOrder
  <2> QED BY <1>1, <1>2, <2>2, ReopenPlaces
<1>4. PICK k \in 0 .. Len(toBroker[c]) : toBroker'[c] = SubSeq(toBroker[c], 1, k)
  BY <1>1, ReopenPlaces
<1>5. toBroker[c] \in Seq(PeerMessage)
  BY DEF NetTypeOK
<1>6. \A j \in Identity : Cut(toPeer'[j], toPeer[j], DownMark(j, i))
  BY <1>3, CutSame, CutEmpty
<1>7. ASSUME NEW j \in Identity, j # f \/ m \notin UpMark(j, i)
      PROVE  Cut(toBroker'[j], toBroker[j], UpMark(j, i))
  <2>1. CASE j = c
    BY <1>4, <1>5, <2>1, CutPrefix
  <2>2. CASE j = f
    <3>1. toBroker'[j] = Append(toBroker[j], m) /\ toBroker[j] \in Seq(PeerMessage)
      <4>1. Append(<<>>, m) = <<m>> /\ <<>> \in Seq(PeerMessage)
        OBVIOUS
      <4> QED BY <1>3, <2>2, <4>1
    <3> QED BY <1>7, <2>2, <3>1, CutAppend
  <2>3. CASE j \notin {c, f}
    BY <1>3, <2>3, CutSame
  <2> QED BY <2>1, <2>2, <2>3
<1> QED BY <1>2, <1>6, <1>7

\* REQUEST: what the worker was sent is in its application's hands.
LEMMA TakeRequestKept ==
    ASSUME NetTypeOK, WorkerTypeOK, PlacesInv, NEW w \in Worker, WorkerTakeRequest(w),
           UNCHANGED requests, NEW i \in ClientSocket
    PROVE  Kept(i)
<1>1. PICK c \in Identity : c = Conn(w) /\ c[1] = w
  BY ConnOf DEF Peer
<1>2. /\ TakeCommand(w, "REQUEST") /\ Take(w) /\ UNCHANGED toBroker
      /\ toPeer[c] # <<>> /\ Head(toPeer[c]).cmd = "REQUEST"
      /\ w \in Peer /\ Inbox(w) # <<>>
  BY <1>1 DEF WorkerTakeRequest, TakeCommand, Inbox, Peer
<1>3. toPeer[c] \in Seq(BrokerMessage)
  BY DEF NetTypeOK
<1>4. PICK m \in Request : m = Head(toPeer[c])
  <2>1. Head(toPeer[c]) \in BrokerMessage
    BY <1>2, <1>3
  <2> QED BY <1>2, <2>1 DEF BrokerMessage, Request, Heartbeat, Disconnect, Answer, MmiAnswer
<1>5. PICK y \in Queued : y = [client |-> m.client, tag |-> m.tag]
  BY DEF Request, Queued
<1>6. /\ Hand(w) = <<>> /\ Hand(w)' = Append(Hand(w), y) /\ Hand(w) \in Seq(Queued)
      /\ \A v \in Worker \ {w} : Hand(v)' = Hand(v)
  <2>1. held' = [held EXCEPT ![w] = y]
    BY <1>1, <1>4, <1>5 DEF WorkerTakeRequest, Inbox
  <2>2. held[w] = Nothing
    BY <1>2 DEF TakeCommand, PlacesInv, FreeHands
  <2>3. y # Nothing
    BY WorkerAssumption DEF Queued
  <2>4. held'[w] = y /\ \A v \in Worker \ {w} : held'[v] = held[v]
    BY <2>1 DEF WorkerTypeOK
  <2>5. Hand(w) = <<>> /\ Hand(w)' = <<y>>
    BY <2>2, <2>3, <2>4 DEF Hand
  <2>6. Append(<<>>, y) = <<y>> /\ <<>> \in Seq(Queued)
    OBVIOUS
  <2>7. \A v \in Worker \ {w} : Hand(v)' = Hand(v)
    BY <2>4 DEF Hand
  <2> QED BY <2>5, <2>6, <2>7
<1>7. /\ \A s \in ServiceName : requests'[s] = requests[s]
      /\ \A s \in ServiceName : Cut(requests'[s], requests[s], Of(i))
      /\ \A j \in Identity : Cut(toBroker'[j], toBroker[j], UpMark(j, i))
      /\ \A j \in Identity : Cut(toPeer'[j], toPeer[j], DownMark(j, i))
  BY <1>2, TakeCut, CutSame
<1>8. CASE m.client # i
  <2>1. y \notin Of(i)
    BY <1>5, <1>8 DEF Of
  <2>2. ASSUME NEW v \in Worker
        PROVE  Cut(Hand(v)', Hand(v), Of(i))
    <3>1. CASE v = w
      BY <1>6, <2>1, <3>1, CutAppend
    <3>2. CASE v # w
      BY <1>6, <3>2, CutSame
    <3> QED BY <3>1, <3>2
  <2> QED BY <1>7, <2>2, ByKind DEF Kept, Fewer
<1>9. CASE m.client = i
  <2> DEFINE down == <<"down", c>>
             hand == <<"hand", w>>
  <2>1. /\ m \in Msgs(down, i)
        /\ AtMostOne(Here(down, i)) => Msgs(down, i)' = {} /\ AtMostOne(Here(down, i)')
    <3>1. List(down) = toPeer[c] /\ List(down)' = toPeer'[c] /\ Mark(down, i) = DownMark(c, i)
      BY PlaceIs, ListNext, MarkIs
    <3>2. m \in DownMark(c, i)
      BY <1>9 DEF DownMark, Request
    <3>3. toPeer'[c] = Tail(toPeer[c])
      BY <1>1, <1>2, TakeCut
    <3>4. /\ List(down) \in Seq(BrokerMessage) /\ List(down) # <<>>
          /\ List(down)' = Tail(List(down))
          /\ m = Head(List(down)) /\ Head(List(down)) \in Mark(down, i)
      BY <1>2, <1>3, <1>4, <3>1, <3>2, <3>3
    <3> QED BY <3>4, Leaves
  <2>2. /\ Msgs(hand, i)' \subseteq Msgs(hand, i) \cup {y}
        /\ Msgs(hand, i) = {} => AtMostOne(Here(hand, i)')
    <3>1. List(hand)' = Append(List(hand), y) /\ List(hand) \in Seq(Queued)
      BY <1>6, PlaceIs, ListNext
    <3> QED BY <3>1, Arrives
  <2>3. ASSUME NEW q \in Calls, m \in Right(down, q)
        PROVE  y \in Right(hand, q)
    <3>1. m.cmd = "REQUEST"
      BY <1>2, <1>4
    <3>2. q \in Call /\ m.tag = q.tag /\ ServiceOf[c[1]] = q.svc
      BY <2>3, <3>1 DEF Right, RightDown, Answer, MmiAnswer
    <3>3. y.tag = q.tag
      BY <1>5, <3>2
    <3> QED BY <1>1, <3>2, <3>3 DEF Right
  <2>4. CutElsewhere({down, hand}, i)
    <3>1. \A v \in Worker : <<"hand", v>> \notin {down, hand} => Hand(v)' = Hand(v)
      BY <1>6
    <3> QED BY <1>7, <3>1, SameElsewhere
  <2>5. down \in Places /\ hand \in Places /\ down # hand
    BY PlaceIs
  <2>6. Moved(i, down, m, hand, y)
    BY <2>1, <2>2, <2>3, <2>4, <2>5 DEF Moved
  <2> QED BY <2>6 DEF Kept
<1> QED BY <1>8, <1>9

\* The application's reply goes out under the return address it was given.
LEMMA SendReplyKept ==
    ASSUME NetTypeOK, WorkerInv, PlacesInv, NEW w \in Worker, WorkerSendReply(w),
           UNCHANGED requests, NEW i \in ClientSocket
    PROVE  Kept(i)
<1>1. PICK c \in Identity : c = Conn(w) /\ c[1] = w
  BY ConnOf DEF Peer
<1>2. PICK r \in Queued : r = held[w] /\ r # Nothing
  BY DEF WorkerInv, BusyHolds, WorkerTypeOK, WorkerSendReply, Queued
<1>3. PICK y \in Reply : y = [cmd |-> "REPLY", client |-> r.client, tag |-> r.tag]
  BY DEF Queued, Reply
<1>4. y \in PeerMessage /\ y.cmd = "REPLY" /\ y.client = r.client /\ y.tag = r.tag
  BY <1>3 DEF PeerMessage
<1>5. toBroker[c] \in Seq(PeerMessage)
  BY DEF NetTypeOK
<1>6. /\ toBroker'[c] = Append(toBroker[c], y)
      /\ \A j \in Identity \ {c} : toBroker'[j] = toBroker[j]
      /\ UNCHANGED toPeer
  BY <1>1, <1>2, <1>3 DEF WorkerSendReply, Send, NetTypeOK
<1>7. /\ Hand(w) = <<r>> /\ Hand(w)' = <<>>
      /\ \A v \in Worker \ {w} : Hand(v)' = Hand(v)
  BY <1>2 DEF WorkerSendReply, Hand, WorkerInv, WorkerTypeOK
<1>8. /\ \A s \in ServiceName : requests'[s] = requests[s]
      /\ \A s \in ServiceName : Cut(requests'[s], requests[s], Of(i))
      /\ \A j \in Identity : Cut(toPeer'[j], toPeer[j], DownMark(j, i))
  BY <1>6, CutSame
<1>9. CASE r.client # i
  <2>1. ASSUME NEW j \in Identity
        PROVE  Cut(toBroker'[j], toBroker[j], UpMark(j, i))
    <3>1. CASE j = c
      <4>1. y \notin UpMark(c, i)
        BY <1>4, <1>9 DEF UpMark, Calls, Call, MmiCall
      <4> QED BY <1>4, <1>5, <1>6, <3>1, <4>1, CutAppend
    <3>2. CASE j # c
      BY <1>6, <3>2, CutSame
    <3> QED BY <3>1, <3>2
  <2>2. \A v \in Worker : Cut(Hand(v)', Hand(v), Of(i))
    BY <1>7, CutSame, CutEmpty
  <2> QED BY <1>8, <2>1, <2>2, ByKind DEF Kept, Fewer
<1>10. CASE r.client = i
  <2> DEFINE up == <<"up", c>>
             hand == <<"hand", w>>
  <2>1. /\ r \in Msgs(hand, i)
        /\ AtMostOne(Here(hand, i)) => Msgs(hand, i)' = {} /\ AtMostOne(Here(hand, i)')
    <3>1. List(hand) = Hand(w) /\ List(hand)' = Hand(w)' /\ Mark(hand, i) = Of(i)
      BY PlaceIs, ListNext, MarkIs
    <3>2. r \in Of(i)
      BY <1>10 DEF Of, Queued
    <3>3. Head(<<r>>) = r /\ Tail(<<r>>) = <<>> /\ <<r>> \in Seq(Queued) /\ <<r>> # <<>>
      OBVIOUS
    <3>4. /\ List(hand) \in Seq(Queued) /\ List(hand) # <<>>
          /\ List(hand)' = Tail(List(hand))
          /\ r = Head(List(hand)) /\ Head(List(hand)) \in Mark(hand, i)
      BY <1>7, <3>1, <3>2, <3>3
    <3> QED BY <3>4, Leaves
  <2>2. /\ Msgs(up, i)' \subseteq Msgs(up, i) \cup {y}
        /\ Msgs(up, i) = {} => AtMostOne(Here(up, i)')
    <3>1. List(up)' = Append(List(up), y) /\ List(up) \in Seq(PeerMessage)
      BY <1>5, <1>6, PlaceIs, ListNext
    <3> QED BY <1>4, <3>1, Arrives
  <2>3. ASSUME NEW q \in Calls, r \in Right(hand, q)
        PROVE  y \in Right(up, q)
    <3>1. q \in Call /\ r.tag = q.tag /\ q.svc = ServiceOf[w]
      BY <2>3 DEF Right
    <3> QED BY <1>1, <1>4, <3>1 DEF Right, RightUp
  <2>4. CutElsewhere({hand, up}, i)
    <3>1. \A v \in Worker : <<"hand", v>> \notin {hand, up} => Hand(v)' = Hand(v)
      BY <1>7
    <3>2. \A j \in Identity : <<"up", j>> \notin {hand, up}
                              => Cut(toBroker'[j], toBroker[j], UpMark(j, i))
      BY <1>6, CutSame
    <3> QED BY <1>8, <3>1, <3>2, SameElsewhere
  <2>5. up \in Places /\ hand \in Places /\ hand # up
    BY PlaceIs
  <2>6. Moved(i, hand, r, up, y)
    BY <2>1, <2>2, <2>3, <2>4, <2>5 DEF Moved
  <2> QED BY <2>6 DEF Kept
<1> QED BY <1>9, <1>10

\* The other steps of a worker only lose what others sent through it.
LEMMA WorkerKept ==
    ASSUME NetTypeOK, WorkerInv, PlacesInv, NEW w \in Worker, UNCHANGED requests,
           \/ WorkerNext(w)  \/ WorkerStart(w)
           \/ WorkerGiveUp(w) \/ WorkerCrash(w) \/ WorkerLeave(w),
           NEW i \in ClientSocket
    PROVE  Kept(i)
<1> DEFINE UpCut == \A j \in Identity : Cut(toBroker'[j], toBroker[j], UpMark(j, i))
           DownCut == \A j \in Identity : Cut(toPeer'[j], toPeer[j], DownMark(j, i))
<1>1. w \in Peer /\ \A s \in ServiceName : requests'[s] = requests[s]
  BY DEF Peer
<1>2. ASSUME UpCut, DownCut, UNCHANGED held
      PROVE  Kept(i)
  BY <1>1, <1>2, SameElsewhere DEF Hand, Kept, Fewer
<1>3. UNCHANGED toBroker => UpCut
  BY CutSame
<1>4. UNCHANGED toPeer => DownCut
  BY CutSame
<1>5. MaybeHeartbeat(w) => UpCut
  <2>1. CASE UNCHANGED toBroker
    BY <1>3, <2>1
  <2>2. CASE Send(w, Heartbeat)
    BY <2>2, QuietSend
  <2> QED BY <2>1, <2>2 DEF MaybeHeartbeat
<1>6. ASSUME Connect(w), UNCHANGED held
      PROVE  Kept(i)
  <2>1. PICK m \in PeerMessage : m = Greeting(w) /\ m.cmd = "READY"
    BY GreetingType DEF Greeting
  <2>2. \A j \in Identity : m \notin UpMark(j, i)
    BY <2>1 DEF UpMark, Calls, Call, MmiCall
  <2>3. Reopen(w, m)
    BY <1>6, <2>1 DEF Connect
  <2>4. UpCut /\ DownCut
    BY <1>1, <2>2, <2>3, ReopenCut DEF PlacesInv
  <2> QED BY <1>2, <1>6, <2>4
<1>7. CASE WorkerTakeHeartbeat(w)
  <2>1. UpCut
    BY <1>5, <1>7 DEF WorkerTakeHeartbeat
  <2>2. DownCut
    <3>1. Take(w) /\ Inbox(w) # <<>>
      BY <1>7 DEF WorkerTakeHeartbeat, TakeCommand
    <3> QED BY <1>1, <3>1, TakeCut
  <2> QED BY <1>2, <1>7, <2>1, <2>2 DEF WorkerTakeHeartbeat
<1>8. CASE WorkerPollTimeout(w)
  BY <1>2, <1>4, <1>5, <1>8 DEF WorkerPollTimeout
<1>9. CASE WorkerGiveUp(w)
  BY <1>2, <1>3, <1>4, <1>9 DEF WorkerGiveUp, netVars
<1>10. CASE WorkerTakeDisconnect(w) \/ WorkerReconnect(w) \/ WorkerStart(w)
  BY <1>6, <1>10 DEF WorkerTakeDisconnect, WorkerReconnect, WorkerStart
<1>11. CASE WorkerCrash(w)
  <2>1. PICK c \in Identity : c = Conn(w)
    BY <1>1, ConnOf
  <2>2. PICK k \in 0 .. Len(toBroker[c]) :
          toBroker' = [toBroker EXCEPT ![c] = SubSeq(@, 1, k)]
    BY <1>11, <2>1 DEF WorkerCrash, Close
  <2>3. toPeer' = [toPeer EXCEPT ![c] = <<>>]
    BY <1>11, <2>1 DEF WorkerCrash, Close
  <2>4. toBroker[c] \in Seq(PeerMessage)
    BY DEF NetTypeOK
  <2>5. ASSUME NEW j \in Identity
        PROVE  Cut(toBroker'[j], toBroker[j], UpMark(j, i))
    <3>1. CASE j = c
      <4>1. toBroker'[c] = SubSeq(toBroker[c], 1, k)
        BY <2>2 DEF NetTypeOK
      <4> QED BY <2>4, <3>1, <4>1, CutPrefix
    <3>2. CASE j # c
      <4>1. toBroker'[j] = toBroker[j]
        BY <2>2, <3>2 DEF NetTypeOK
      <4> QED BY <4>1, CutSame
    <3> QED BY <3>1, <3>2
  <2>6. DownCut
    <3>1. \A j \in Identity : toPeer'[j] = toPeer[j] \/ toPeer'[j] = <<>>
      BY <2>3 DEF NetTypeOK
    <3> QED BY <3>1, CutSame, CutEmpty
  <2>7. \A v \in Worker : Cut(Hand(v)', Hand(v), Of(i))
    <3>1. \A v \in Worker : Hand(v)' = Hand(v) \/ Hand(v)' = <<>>
      BY <1>11 DEF WorkerCrash, Hand, WorkerInv, WorkerTypeOK
    <3> QED BY <3>1, CutSame, CutEmpty
  <2>8. \A s \in ServiceName : Cut(requests'[s], requests[s], Of(i))
    BY <1>1, CutSame
  <2> QED BY <2>5, <2>6, <2>7, <2>8, ByKind DEF Kept, Fewer
<1>12. CASE WorkerLeave(w)
  <2>1. UpCut
    BY <1>12, QuietSend DEF WorkerLeave
  <2>2. \A j \in Identity : toPeer'[j] = toPeer[j] \/ toPeer'[j] = <<>>
    BY <1>12 DEF WorkerLeave, NetTypeOK
  <2>3. DownCut
    BY <2>2, CutSame, CutEmpty
  <2> QED BY <1>2, <1>12, <2>1, <2>3 DEF WorkerLeave
<1> QED
  BY <1>7, <1>8, <1>9, <1>10, <1>11, <1>12, TakeRequestKept, SendReplyKept
     DEF WorkerNext, WorkerInv

-----------------------------------------------------------------------------
(* The invariant, while the clients stand still. *)

LEMMA KeptExchange ==
    ASSUME NEW i, Kept(i), OnePlace(i)
    PROVE  /\ OnePlace(i)'
           /\ Silent(i) => Silent(i)'
           /\ \A q \in Calls : Fits(i, q) => Fits(i, q)'
BY FewerKeeps, MovedKeeps DEF Kept

LEMMA KeptReplies ==
    ASSUME RepliesInv, UNCHANGED clientVars,
           \A c \in Client : Conn(c)' = Conn(c) /\ session'[c] = session[c],
           \A i \in ClientSocket : Kept(i),
           ClientsHearAnswers'
    PROVE  RepliesInv'
<1>1. \A i \in ClientSocket : /\ OnePlace(i)'
                              /\ Silent(i) => Silent(i)'
                              /\ \A q \in Calls : Fits(i, q) => Fits(i, q)'
  BY KeptExchange DEF RepliesInv, Lockstep
<1>2. \A i \in ClientSocket : i[1] \in Client
  BY DEF ClientSocket
<1>3. Lockstep'
  <2>1. \A i \in ClientSocket : i[2] > session'[i[1]] => Silent(i)'
    BY <1>1, <1>2 DEF RepliesInv, Lockstep
  <2>2. \A c \in Client, i \in ClientSocket :
           ~ outstanding'[c] /\ i = Conn(c)' => Silent(i)'
    BY <1>1 DEF clientVars, RepliesInv, Lockstep
  <2> QED BY <1>1, <2>1, <2>2 DEF Lockstep
<1>4. IdleFree'
  BY DEF RepliesInv, IdleFree, clientVars
<1>5. ~ KeepSession => OwnCall'
  BY <1>1 DEF RepliesInv, OwnCall, clientVars
<1> QED BY <1>3, <1>4, <1>5 DEF RepliesInv

\* What reaches clients: the broker's answers.
LEMMA AnswersRouted ==
    ASSUME NetTypeOK, ClientsHearAnswers, NEW x, NEW m, Routed(x, m),
           x \in ClientSocket => m \in Answer \cup MmiAnswer
    PROVE  ClientsHearAnswers'
<1>1. SUFFICES ASSUME NEW i \in ClientSocket
               PROVE  toPeer'[i] \in Seq(Answer \cup MmiAnswer)
  BY DEF ClientsHearAnswers
<1>2. toPeer[i] \in Seq(Answer \cup MmiAnswer) /\ i \in Identity
  BY Sockets DEF ClientsHearAnswers
<1>3. CASE toPeer'[i] = toPeer[i]
  BY <1>2, <1>3
<1>4. CASE i = x /\ toPeer'[i] = Append(toPeer[i], m)
  BY <1>2, <1>4
<1> QED BY <1>2, <1>3, <1>4, RoutedTo

LEMMA AnswersShrink ==
    ASSUME ClientsHearAnswers,
           \A i \in ClientSocket :
              \/ toPeer'[i] = toPeer[i]
              \/ toPeer'[i] = <<>>
              \/ toPeer[i] # <<>> /\ toPeer'[i] = Tail(toPeer[i])
    PROVE  ClientsHearAnswers'
<1>1. SUFFICES ASSUME NEW i \in ClientSocket
               PROVE  toPeer'[i] \in Seq(Answer \cup MmiAnswer)
  BY DEF ClientsHearAnswers
<1>2. PICK S : S = Answer \cup MmiAnswer
  OBVIOUS
<1>3. toPeer[i] \in Seq(S) /\ <<>> \in Seq(S)
  BY <1>2 DEF ClientsHearAnswers
<1>4. toPeer[i] # <<>> => Tail(toPeer[i]) \in Seq(S)
  BY <1>3
<1>5. toPeer'[i] \in Seq(S)
  BY <1>3, <1>4
<1> QED BY <1>2, <1>5

\* Clients are answered, and never asked to work or told to leave.
LEMMA BrokerAnswers ==
    ASSUME NetTypeOK, BrokerInv, PlacesInv, ClientsHearAnswers, BrokerNext
    PROVE  ClientsHearAnswers'
<1>1. UNCHANGED toPeer => ClientsHearAnswers'
  BY DEF ClientsHearAnswers
<1>2. ASSUME NEW b \in Identity, BrokerMessageIn(b)
      PROVE  ClientsHearAnswers'
  <2> DEFINE m == Head(toBroker[b])
  <2>1. m \in PeerMessage
    BY <1>2, TakenUp
  <2>2. b \in ClientSocket => m.cmd = "CALL"
    <3>1. b \in ClientSocket => m \in Calls
      BY <1>2 DEF PlacesInv, Roles, BrokerMessageIn
    <3> QED BY <3>1 DEF Calls, Call, MmiCall
  <2>3. CASE WorkerReply(b, m)
    <3>1. Routed(m.client, [cmd |-> "ANSWER", svc |-> service[b], tag |-> m.tag])
      BY <2>3 DEF WorkerReply
    <3>2. service[b] \in ServiceName /\ m.tag \in Tag
      BY <2>1, <2>3, PeerMessageFrames DEF WorkerReply, BrokerInv, KnownHaveService
    <3>3. [cmd |-> "ANSWER", svc |-> service[b], tag |-> m.tag] \in Answer
      BY <3>2 DEF Answer
    <3> QED BY <3>1, <3>3, AnswersRouted
  <2>4. CASE WorkerRefuse(b, m)
    <3>1. Routed(b, Disconnect) /\ b \notin ClientSocket
      BY <2>2, <2>4 DEF WorkerRefuse
    <3> QED BY <3>1, AnswersRouted
  <2>5. CASE ClientMmi(b, m)
    <3>1. Routed(b, [cmd |-> "ANSWER", svc |-> m.svc, code |-> MmiCode(m)])
      BY <2>5 DEF ClientMmi
    <3>2. [cmd |-> "ANSWER", svc |-> m.svc, code |-> MmiCode(m)] \in MmiAnswer
      BY <2>5 DEF ClientMmi, MmiCode, MmiAnswer
    <3> QED BY <3>1, <3>2, AnswersRouted
  <2>6. WorkerReady(b, m) \/ WorkerHeartbeat(b, m) \/ WorkerDisconnect(b, m)
        \/ ClientRequest(b, m) => UNCHANGED toPeer
    BY DEF WorkerReady, WorkerHeartbeat, WorkerDisconnect, ClientRequest
  <2> QED BY <1>1, <1>2, <2>3, <2>4, <2>5, <2>6 DEF BrokerMessageIn
<1>3. CASE Dispatch
  <2>1. Head(swaiting[current]) \in WorkerSocket
    BY <1>3, DispatchLists DEF BrokerInv, PlacesInv, ListsAgree, KnownAreWorkers
  <2>2. Head(swaiting[current]) \notin ClientSocket
    BY <2>1, Sockets
  <2>3. PICK m : Routed(Head(swaiting[current]), m)
    BY <1>3 DEF Dispatch
  <2> QED BY <2>2, <2>3, AnswersRouted
<1>4. CASE HeartbeatRound
  <2>1. \A i \in ClientSocket : i \notin Range(waiting) /\ i \in Identity
    BY Sockets DEF PlacesInv, ListsAgree, KnownAreWorkers
  <2>2. \A i \in ClientSocket : toPeer'[i] = toPeer[i]
    BY <1>4, <2>1 DEF HeartbeatRound
  <2> QED BY <2>2, AnswersShrink
<1>5. BrokerPollTimeout \/ PurgeHead \/ PurgeDone \/ DispatchDone => UNCHANGED toPeer
  BY DEF BrokerPollTimeout, PurgeHead, PurgeDone, DispatchDone, netVars
<1> QED BY <1>1, <1>2, <1>3, <1>4, <1>5 DEF BrokerNext

\* The steps that are not a client's.
LEMMA BrokerReplies ==
    ASSUME NetTypeOK, BrokerInv, PlacesInv, RepliesInv, BrokerNext,
           UNCHANGED <<workerVars, clientVars>>
    PROVE  RepliesInv'
<1>1. UNCHANGED session
  BY DEF BrokerNext, BrokerMessageIn, BrokerPollTimeout, PurgeHead, PurgeDone, Dispatch,
         DispatchDone, HeartbeatRound, netVars
<1>2. ClientsHearAnswers'
  BY BrokerAnswers DEF RepliesInv
<1>3. \A i \in ClientSocket : Kept(i)
  BY BrokerKept
<1>4. \A c \in Client : Conn(c)' = Conn(c) /\ session'[c] = session[c]
  BY <1>1 DEF Conn
<1> QED BY <1>2, <1>3, <1>4, KeptReplies

LEMMA RestartReplies ==
    ASSUME NetTypeOK, RepliesInv, BrokerRestart, UNCHANGED <<workerVars, clientVars>>
    PROVE  RepliesInv'
<1>1. \A i \in ClientSocket : toPeer'[i] = toPeer[i] \/ toPeer'[i] = <<>>
  BY Sockets DEF BrokerRestart, Outage
<1>2. ClientsHearAnswers'
  BY <1>1, AnswersShrink DEF RepliesInv
<1>3. \A i \in ClientSocket : Kept(i)
  BY RestartKept
<1>4. \A c \in Client : Conn(c)' = Conn(c) /\ session'[c] = session[c]
  BY DEF Conn, BrokerRestart, Outage
<1> QED BY <1>2, <1>3, <1>4, KeptReplies

\* A worker touches only sockets of its own.
LEMMA WorkerElsewhere ==
    ASSUME NetTypeOK, WorkerInv, PlacesInv, NEW w \in Worker,
           \/ WorkerNext(w)  \/ WorkerStart(w)
           \/ WorkerGiveUp(w) \/ WorkerCrash(w) \/ WorkerLeave(w)
    PROVE  /\ \A i \in ClientSocket : toPeer'[i] = toPeer[i]
           /\ \A c \in Client : Conn(c)' = Conn(c) /\ session'[c] = session[c]
<1>1. PICK s \in WorkerSocket : s = Conn(w)
  BY ConnOf DEF Peer
<1>2. \A i \in ClientSocket : i \in Identity /\ i # s
  BY Sockets
<1>3. w \in Peer /\ w \notin Client /\ Client \subseteq Peer
  BY NetAssumption DEF Peer
<1>4. ASSUME UNCHANGED session
      PROVE  \A c \in Client : Conn(c)' = Conn(c) /\ session'[c] = session[c]
  BY <1>4 DEF Conn
<1>5. ASSUME Take(w)
      PROVE  \A i \in ClientSocket : toPeer'[i] = toPeer[i]
  BY <1>1, <1>2, <1>5 DEF Take, NetTypeOK
<1>6. ASSUME Connect(w)
      PROVE  /\ \A i \in ClientSocket : toPeer'[i] = toPeer[i]
             /\ \A c \in Client : Conn(c)' = Conn(c) /\ session'[c] = session[c]
  <2>1. PICK m : Reopen(w, m)
    BY <1>6 DEF Connect
  <2>2. \A i \in ClientSocket : toPeer'[i] = toPeer[i]
    BY <1>1, <1>2, <2>1 DEF Reopen, NetTypeOK
  <2>3. session' = [session EXCEPT ![w] = @ + 1]
    BY <2>1 DEF Reopen
  <2>4. \A c \in Client : session'[c] = session[c]
    BY <1>3, <2>3 DEF NetTypeOK
  <2> QED BY <2>2, <2>4 DEF Conn
<1>7. ASSUME \/ UNCHANGED toPeer
             \/ toPeer' = [toPeer EXCEPT ![Conn(w)] = <<>>]
      PROVE  \A i \in ClientSocket : toPeer'[i] = toPeer[i]
  BY <1>1, <1>2, <1>7 DEF NetTypeOK
<1>8. CASE WorkerTakeRequest(w) \/ WorkerTakeHeartbeat(w)
  BY <1>4, <1>5, <1>8 DEF WorkerTakeRequest, WorkerTakeHeartbeat
<1>9. CASE WorkerTakeDisconnect(w) \/ WorkerReconnect(w) \/ WorkerStart(w)
  BY <1>6, <1>9 DEF WorkerTakeDisconnect, WorkerReconnect, WorkerStart
<1>10. CASE WorkerPollTimeout(w) \/ WorkerSendReply(w) \/ WorkerGiveUp(w)
  BY <1>4, <1>7, <1>10 DEF WorkerPollTimeout, WorkerSendReply, WorkerGiveUp, netVars
<1>11. CASE WorkerCrash(w) \/ WorkerLeave(w)
  BY <1>4, <1>7, <1>11 DEF WorkerCrash, WorkerLeave, Close
<1> QED BY <1>8, <1>9, <1>10, <1>11 DEF WorkerNext

LEMMA WorkerReplies ==
    ASSUME NetTypeOK, WorkerInv, PlacesInv, RepliesInv, NEW w \in Worker,
           UNCHANGED <<requests, clientVars>>,
           \/ WorkerNext(w)  \/ WorkerStart(w)
           \/ WorkerGiveUp(w) \/ WorkerCrash(w) \/ WorkerLeave(w)
    PROVE  RepliesInv'
<1>1. ClientsHearAnswers'
  BY WorkerElsewhere, AnswersShrink DEF RepliesInv
<1>2. \A i \in ClientSocket : Kept(i)
  BY WorkerKept
<1> QED BY <1>1, <1>2, WorkerElsewhere, KeptReplies

-----------------------------------------------------------------------------
(* The clients' steps. *)

LEMMA FewerExchange ==
    ASSUME RepliesInv, NEW i \in ClientSocket, Fewer(i)
    PROVE  /\ OnePlace(i)'
           /\ Silent(i) => Silent(i)'
           /\ \A q \in Calls : Fits(i, q) => Fits(i, q)'
BY FewerKeeps DEF RepliesInv, Lockstep

\* A call goes out through a socket of which nothing is left anywhere.
LEMMA FreshCall ==
    ASSUME NetTypeOK, NEW i \in ClientSocket, NEW m \in Calls, Silent(i),
           toBroker'[i] = Append(toBroker[i], m),
           CutElsewhere({<<"up", i>>}, i)
    PROVE  OnePlace(i)' /\ Fits(i, m)'
<1> DEFINE up == <<"up", i>>
<1>1. i \in Identity /\ toBroker[i] \in Seq(PeerMessage) /\ m \in PeerMessage
  BY Sockets DEF NetTypeOK, Calls, PeerMessage
<1>2. up \in Places /\ List(up)' = Append(List(up), m) /\ List(up) \in Seq(PeerMessage)
  BY <1>1, PlaceIs, ListNext
<1>3. \A l \in Places : Msgs(l, i) = {} /\ AtMostOne(Here(l, i))
  <2>1. \A l \in Places : Msgs(l, i) = {}
    BY DEF Silent
  <2>2. \A l \in Places : Here(l, i) = {}
    BY <2>1 DEF Msgs, Here, Spots, Range
  <2> QED BY <2>1, <2>2 DEF AtMostOne
<1>4. Msgs(up, i)' \subseteq {m} /\ AtMostOne(Here(up, i)')
  BY <1>1, <1>2, <1>3, Arrives, ZenonT(60)
<1>5. \A l \in Places \ {up} : Msgs(l, i)' = {} /\ AtMostOne(Here(l, i)')
  BY <1>3, CutHere DEF CutElsewhere
<1>6. OnePlace(i)'
  BY <1>4, <1>5 DEF OnePlace
<1>7. Right(up, m) = RightUp(i, m) /\ m \in RightUp(i, m)
  BY DEF Right, RightUp
<1>8. Fits(i, m)'
  <2>1. \A l \in Places : Msgs(l, i)' \subseteq Right(l, m)
    BY <1>4, <1>5, <1>7
  <2> QED BY <2>1 DEF Fits
<1> QED BY <1>6, <1>8

LEMMA CallReplies ==
    ASSUME NetTypeOK, ClientInv, RepliesInv, NEW c \in Client, ClientCall(c),
           UNCHANGED <<requests, held>>
    PROVE  RepliesInv'
<1>1. PICK m \in NextCalls(c) :
        /\ call' = [call EXCEPT ![c] = m]
        /\ IF outstanding[c] THEN UNCHANGED toBroker ELSE Send(c, m)
  BY DEF ClientCall
<1>2. m \in Calls
  BY <1>1, NextCallsType DEF ClientInv, ClientCall
<1>3. PICK s \in ClientSocket : s = Conn(c)
  BY ConnOf DEF Peer
<1>4. /\ UNCHANGED <<session, toPeer>> /\ (\A d : Conn(d)' = Conn(d))
      /\ clientPc[c] = "idle" \/ KeepSession
      /\ clientPc' = [clientPc EXCEPT ![c] = "waiting"]
      /\ outstanding' = [outstanding EXCEPT ![c] = TRUE]
  BY DEF ClientCall, Conn
<1>5. /\ clientPc'[c] = "waiting" /\ outstanding'[c] /\ call'[c] = m
      /\ \A d \in Client \ {c} : /\ clientPc'[d] = clientPc[d]
                                 /\ outstanding'[d] = outstanding[d]
                                 /\ call'[d] = call[d]
  BY <1>1, <1>4 DEF ClientInv, ClientTypeOK
<1>6. \A d \in Client : Conn(d) = s => d = c
  BY <1>3 DEF Conn
<1>7. ASSUME NEW i \in ClientSocket, outstanding[c] \/ i # s
      PROVE  Fewer(i)
  <2>1. ASSUME NEW j \in Identity
        PROVE  Cut(toBroker'[j], toBroker[j], UpMark(j, i))
    <3>1. CASE toBroker'[j] = toBroker[j]
      BY <3>1, CutSame
    <3>2. CASE ~ outstanding[c] /\ j = s /\ toBroker'[j] = Append(toBroker[j], m)
      <4>1. m.cmd = "CALL" /\ m \in PeerMessage /\ toBroker[j] \in Seq(PeerMessage)
        BY <1>2 DEF Calls, Call, MmiCall, PeerMessage, NetTypeOK
      <4>2. m \notin UpMark(j, i)
        BY <1>7, <3>2, <4>1 DEF UpMark
      <4> QED BY <3>2, <4>1, <4>2, CutAppend
    <3>3. \/ toBroker'[j] = toBroker[j]
          \/ ~ outstanding[c] /\ j = s /\ toBroker'[j] = Append(toBroker[j], m)
      BY <1>1, <1>3 DEF Send, NetTypeOK
    <3> QED BY <3>1, <3>2, <3>3
  <2>2. /\ \A j \in Identity : Cut(toPeer'[j], toPeer[j], DownMark(j, i))
        /\ \A t \in ServiceName : requests'[t] = requests[t]
        /\ \A w \in Worker : Hand(w)' = Hand(w)
    BY <1>4, CutSame DEF Hand
  <2> QED BY <2>1, <2>2, SameElsewhere DEF Fewer
<1>8. ASSUME ~ outstanding[c]
      PROVE  OnePlace(s)' /\ Fits(s, m)'
  <2>1. Silent(s)
    BY <1>3, <1>8 DEF RepliesInv, Lockstep
  <2>2. /\ toBroker'[s] = Append(toBroker[s], m)
        /\ \A j \in Identity \ {s} : toBroker'[j] = toBroker[j]
    BY <1>1, <1>3, <1>8, Sockets DEF Send, NetTypeOK
  <2>3. /\ \A j \in Identity : <<"up", j>> \notin {<<"up", s>>}
                               => Cut(toBroker'[j], toBroker[j], UpMark(j, s))
        /\ \A j \in Identity : Cut(toPeer'[j], toPeer[j], DownMark(j, s))
        /\ \A t \in ServiceName : requests'[t] = requests[t]
        /\ \A w \in Worker : Hand(w)' = Hand(w)
    BY <1>4, <2>2, CutSame DEF Hand
  <2>4. CutElsewhere({<<"up", s>>}, s)
    BY <2>3, SameElsewhere
  <2> QED BY <1>2, <2>1, <2>2, <2>4, FreshCall
<1>9. ClientsHearAnswers'
  BY <1>4 DEF RepliesInv, ClientsHearAnswers
<1>10. Lockstep'
  <2>1. \A i \in ClientSocket : OnePlace(i)'
    BY <1>7, <1>8, FewerExchange
  <2>2. ASSUME NEW i \in ClientSocket, i[2] > session'[i[1]]
        PROVE  Silent(i)'
    <3>1. i # s
      BY <1>3, <1>4, <2>2, ConnOf DEF Peer
    <3>2. Silent(i)
      BY <1>4, <2>2 DEF RepliesInv, Lockstep
    <3> QED BY <1>7, <3>1, <3>2, FewerExchange
  <2>3. ASSUME NEW d \in Client, NEW i \in ClientSocket,
               ~ outstanding'[d], i = Conn(d)'
        PROVE  Silent(i)'
    <3>1. i = Conn(d) /\ d # c /\ ~ outstanding[d]
      BY <1>4, <1>5, <2>3
    <3>2. i # s
      BY <1>6, <3>1
    <3>3. Silent(i)
      BY <3>1 DEF RepliesInv, Lockstep
    <3> QED BY <1>7, <3>2, <3>3, FewerExchange
  <2> QED BY <2>1, <2>2, <2>3 DEF Lockstep
<1>11. IdleFree'
  BY <1>5 DEF RepliesInv, IdleFree
<1>12. ASSUME ~ KeepSession
       PROVE  OwnCall'
  <2>1. SUFFICES ASSUME NEW d \in Client, NEW i \in ClientSocket, NEW q \in Calls,
                        clientPc'[d] = "waiting", i = Conn(d)', q = call'[d]
                 PROVE  Fits(i, q)'
    BY DEF OwnCall
  <2>2. CASE d = c
    <3>1. ~ outstanding[c]
      BY <1>4, <1>12 DEF RepliesInv, IdleFree
    <3>2. i = s /\ q = m
      BY <1>3, <1>4, <1>5, <2>1, <2>2
    <3> QED BY <1>8, <3>1, <3>2
  <2>3. CASE d # c
    <3>1. i = Conn(d) /\ i # s
      BY <1>4, <1>6, <2>1, <2>3
    <3>2. Fits(i, q)
      BY <1>5, <1>12, <2>1, <2>3, <3>1 DEF RepliesInv, OwnCall
    <3> QED BY <1>7, <3>1, <3>2, FewerExchange
  <2> QED BY <2>2, <2>3
<1> QED BY <1>9, <1>10, <1>11, <1>12 DEF RepliesInv

\* The answer is taken, and nothing else is left of the exchange.
LEMMA ReplyReplies ==
    ASSUME NetTypeOK, ClientInv, RepliesInv, NEW c \in Client, ClientReply(c),
           UNCHANGED <<requests, held>>
    PROVE  RepliesInv'
<1>1. PICK s \in ClientSocket : s = Conn(c) /\ s \in Identity
  BY ConnOf DEF Peer
<1>2. /\ Take(c) /\ Inbox(c) # <<>> /\ c \in Peer
      /\ UNCHANGED <<session, toBroker, call>> /\ (\A d : Conn(d)' = Conn(d))
      /\ outstanding' = [outstanding EXCEPT ![c] = FALSE]
      /\ clientPc'[c] # "waiting" /\ ~ outstanding'[c]
      /\ \A d \in Client \ {c} : clientPc'[d] = clientPc[d] /\ outstanding'[d] = outstanding[d]
  BY DEF ClientReply, Conn, Peer, ClientInv, ClientTypeOK
<1>3. /\ toPeer[s] # <<>> /\ toPeer'[s] = Tail(toPeer[s])
      /\ \A j \in Identity \ {s} : toPeer'[j] = toPeer[j]
      /\ \A M : \A j \in Identity : Cut(toPeer'[j], toPeer[j], M)
  <2>1. toPeer[s] # <<>>
    BY <1>1, <1>2 DEF Inbox
  <2> QED BY <1>1, <1>2, <2>1, TakeCut
<1>4. ASSUME NEW i \in ClientSocket
      PROVE  Fewer(i)
  <2>1. /\ \A j \in Identity : Cut(toBroker'[j], toBroker[j], UpMark(j, i))
        /\ \A t \in ServiceName : requests'[t] = requests[t]
        /\ \A w \in Worker : Hand(w)' = Hand(w)
    BY <1>2, CutSame DEF Hand
  <2> QED BY <1>3, <2>1, SameElsewhere DEF Fewer
<1>5. ClientsHearAnswers'
  <2>1. \A i \in ClientSocket : i \in Identity
    BY Sockets
  <2> QED BY <1>3, <2>1, AnswersShrink DEF RepliesInv
<1>6. Silent(s)'
  <2> DEFINE down == <<"down", s>>
  <2>1. List(down) = toPeer[s] /\ List(down)' = toPeer'[s] /\ Mark(down, s) = DownMark(s, s)
    BY <1>1, PlaceIs, ListNext, MarkIs
  <2>2. toPeer[s] \in Seq(BrokerMessage) /\ toPeer[s] \in Seq(Answer \cup MmiAnswer)
    BY <1>1 DEF NetTypeOK, RepliesInv, ClientsHearAnswers
  <2>3. Head(toPeer[s]) \in DownMark(s, s)
    BY <1>3, <2>2 DEF DownMark
  <2>4. /\ List(down) \in Seq(BrokerMessage) /\ List(down) # <<>>
        /\ List(down)' = Tail(List(down)) /\ Head(List(down)) \in Mark(down, s)
    BY <1>3, <2>1, <2>2, <2>3
  <2>5. /\ Msgs(down, s) # {}
        /\ AtMostOne(Here(down, s)) => Msgs(down, s)' = {}
    BY <2>4, Leaves
  <2>6. OnePlace(s) /\ down \in Places
    BY <1>1, PlaceIs DEF RepliesInv, Lockstep
  <2>7. Msgs(down, s)' = {} /\ \A l \in Places \ {down} : Msgs(l, s) = {}
    BY <2>5, <2>6 DEF OnePlace
  <2>8. \A l \in Places : Msgs(l, s)' \subseteq Msgs(l, s)
    BY <1>4, CutHere DEF Fewer, CutElsewhere
  <2>9. \A l \in Places : Msgs(l, s)' = {}
    BY <2>7, <2>8
  <2> QED BY <2>9 DEF Silent
<1>7. Lockstep'
  <2>1. \A i \in ClientSocket : OnePlace(i)'
    BY <1>4, FewerExchange
  <2>2. \A i \in ClientSocket : i[2] > session'[i[1]] => Silent(i)'
    BY <1>2, <1>4, FewerExchange DEF RepliesInv, Lockstep
  <2>3. ASSUME NEW d \in Client, NEW i \in ClientSocket,
               ~ outstanding'[d], i = Conn(d)'
        PROVE  Silent(i)'
    <3>1. CASE d = c
      BY <1>1, <1>2, <1>6, <2>3, <3>1
    <3>2. CASE d # c
      <4>1. Silent(i)
        BY <1>2, <2>3, <3>2 DEF RepliesInv, Lockstep
      <4> QED BY <1>4, <4>1, FewerExchange
    <3> QED BY <3>1, <3>2
  <2> QED BY <2>1, <2>2, <2>3 DEF Lockstep
<1>8. IdleFree'
  BY <1>2 DEF RepliesInv, IdleFree
<1>9. ASSUME ~ KeepSession
      PROVE  OwnCall'
  <2>1. SUFFICES ASSUME NEW d \in Client, NEW i \in ClientSocket, NEW q \in Calls,
                        clientPc'[d] = "waiting", i = Conn(d)', q = call'[d]
                 PROVE  Fits(i, q)'
    BY DEF OwnCall
  <2>2. Fits(i, q)
    BY <1>2, <1>9, <2>1 DEF RepliesInv, OwnCall
  <2> QED BY <1>4, <2>2, FewerExchange
<1> QED BY <1>5, <1>7, <1>8, <1>9 DEF RepliesInv

\* The request again, through a new socket.
LEMMA RetryReplies ==
    ASSUME NetTypeOK, ClientInv, SocketsInOrder, RepliesInv, NEW c \in Client,
           ClientRetry(c), UNCHANGED <<requests, held>>
    PROVE  RepliesInv'
<1>1. PICK m \in Calls : m = call[c]
  BY DEF ClientRetry, ClientInv, WaitingCalls
<1>2. /\ clientPc[c] = "waiting" /\ Reopen(c, m)
      /\ outstanding' = [outstanding EXCEPT ![c] = TRUE] /\ outstanding'[c]
      /\ UNCHANGED <<clientPc, call>>
      /\ \A d \in Client \ {c} : outstanding'[d] = outstanding[d]
      /\ c \in Peer /\ m \in PeerMessage
  BY <1>1 DEF ClientRetry, Peer, ClientInv, ClientTypeOK, Calls, PeerMessage
<1>3. PICK s \in ClientSocket : s = Conn(c) /\ s \in Identity
  BY ConnOf DEF Peer
<1>4. PICK f \in ClientSocket : f = Conn(c)' /\ f \in Identity
  BY <1>2, ReopenPlaces, Sockets DEF ClientSocket, WorkerSocket
<1>5. /\ f # s /\ f[1] = c /\ f[2] = session[c] + 1 /\ session[c] \in Nat
      /\ \A d \in Client \ {c} : Conn(d)' = Conn(d) /\ session'[d] = session[d]
      /\ session'[c] = session[c] + 1
  BY <1>2, <1>3, <1>4, ConnOf DEF Reopen, Conn, NetTypeOK, Peer
<1>6. /\ toBroker[f] = <<>> /\ toBroker'[f] = <<m>>
      /\ toPeer'[s] = <<>> /\ toPeer'[f] = <<>>
      /\ \A j \in Identity \ {s, f} : toPeer'[j] = toPeer[j]
  <2>1. toBroker[f] = <<>>
    BY <1>4, <1>5 DEF SocketsInOrder
  <2> QED BY <1>2, <1>3, <1>4, <2>1, ReopenPlaces
<1>7. ASSUME NEW i
      PROVE  /\ \A j \in Identity : Cut(toPeer'[j], toPeer[j], DownMark(j, i))
             /\ \A j \in Identity : j # f \/ m \notin UpMark(j, i)
                                    => Cut(toBroker'[j], toBroker[j], UpMark(j, i))
             /\ \A t \in ServiceName : requests'[t] = requests[t]
             /\ \A w \in Worker : Hand(w)' = Hand(w)
  <2>1. \A w \in Worker : Hand(w)' = Hand(w)
    BY DEF Hand
  <2> QED BY <1>2, <1>4, <2>1, ReopenCut
<1>8. ASSUME NEW i \in ClientSocket, i # f
      PROVE  Fewer(i)
  <2>1. m.cmd = "CALL"
    BY DEF Calls, Call, MmiCall
  <2>2. m \notin UpMark(f, i)
    BY <1>8, <2>1 DEF UpMark
  <2>3. \A j \in Identity : Cut(toBroker'[j], toBroker[j], UpMark(j, i))
    BY <1>7, <2>2
  <2> QED BY <1>7, <2>3, SameElsewhere DEF Fewer
<1>9. OnePlace(f)' /\ Fits(f, m)'
  <2>1. Silent(f)
    BY <1>5 DEF RepliesInv, Lockstep
  <2>2. toBroker'[f] = Append(toBroker[f], m)
    <3>1. Append(<<>>, m) = <<m>>
      OBVIOUS
    <3> QED BY <1>6, <3>1
  <2>3. \A j \in Identity : <<"up", j>> \notin {<<"up", f>>}
                            => Cut(toBroker'[j], toBroker[j], UpMark(j, f))
    BY <1>7
  <2>4. CutElsewhere({<<"up", f>>}, f)
    BY <1>7, <2>3, SameElsewhere
  <2> QED BY <2>1, <2>2, <2>4, FreshCall
<1>10. ClientsHearAnswers'
  <2>1. \A i \in ClientSocket : i \in Identity
    BY Sockets
  <2>2. \A i \in ClientSocket : toPeer'[i] = toPeer[i] \/ toPeer'[i] = <<>>
    BY <1>6, <2>1
  <2> QED BY <2>2, AnswersShrink DEF RepliesInv
<1>11. Lockstep'
  <2>1. \A i \in ClientSocket : OnePlace(i)'
    BY <1>8, <1>9, FewerExchange
  <2>2. ASSUME NEW i \in ClientSocket, i[2] > session'[i[1]]
        PROVE  Silent(i)'
    <3>1. i[1] \in Client /\ i[2] \in Nat
      BY DEF ClientSocket
    <3>2. i # f /\ i[2] > session[i[1]]
      BY <1>5, <2>2, <3>1
    <3>3. Silent(i)
      BY <3>2 DEF RepliesInv, Lockstep
    <3> QED BY <1>8, <3>2, <3>3, FewerExchange
  <2>3. ASSUME NEW d \in Client, NEW i \in ClientSocket,
               ~ outstanding'[d], i = Conn(d)'
        PROVE  Silent(i)'
    <3>1. d # c /\ i = Conn(d) /\ ~ outstanding[d] /\ i # f
      BY <1>2, <1>5, <2>3 DEF Conn
    <3>2. Silent(i)
      BY <3>1 DEF RepliesInv, Lockstep
    <3> QED BY <1>8, <3>1, <3>2, FewerExchange
  <2> QED BY <2>1, <2>2, <2>3 DEF Lockstep
<1>12. IdleFree'
  BY <1>2 DEF RepliesInv, IdleFree
<1>13. ASSUME ~ KeepSession
       PROVE  OwnCall'
  <2>1. SUFFICES ASSUME NEW d \in Client, NEW i \in ClientSocket, NEW q \in Calls,
                        clientPc'[d] = "waiting", i = Conn(d)', q = call'[d]
                 PROVE  Fits(i, q)'
    BY DEF OwnCall
  <2>2. CASE d = c
    BY <1>1, <1>2, <1>4, <1>9, <2>1, <2>2
  <2>3. CASE d # c
    <3>1. i = Conn(d) /\ i # f
      BY <1>5, <2>1, <2>3 DEF Conn
    <3>2. Fits(i, q)
      BY <1>2, <1>13, <2>1, <3>1 DEF RepliesInv, OwnCall
    <3> QED BY <1>8, <3>1, <3>2, FewerExchange
  <2> QED BY <2>2, <2>3
<1> QED BY <1>10, <1>11, <1>12, <1>13 DEF RepliesInv

\* The socket stays as it is, and what is under way too.
LEMMA AbandonReplies ==
    ASSUME ClientInv, RepliesInv, NEW c \in Client, ClientAbandon(c),
           UNCHANGED <<requests, held>>
    PROVE  RepliesInv'
<1>1. /\ UNCHANGED <<session, open, toBroker, toPeer, call, outstanding>>
      /\ clientPc'[c] = "failed"
      /\ \A d \in Client \ {c} : clientPc'[d] = clientPc[d]
      /\ \A d : Conn(d)' = Conn(d)
  BY DEF ClientAbandon, netVars, Conn, ClientInv, ClientTypeOK
<1>2. ASSUME NEW i \in ClientSocket
      PROVE  Fewer(i)
  <2>1. /\ \A s \in ServiceName : requests'[s] = requests[s]
        /\ \A w \in Worker : Hand(w)' = Hand(w)
        /\ \A j \in Identity : Cut(toBroker'[j], toBroker[j], UpMark(j, i))
        /\ \A j \in Identity : Cut(toPeer'[j], toPeer[j], DownMark(j, i))
    BY <1>1, CutSame DEF Hand
  <2> QED BY <2>1, SameElsewhere DEF Fewer
<1>3. ClientsHearAnswers' /\ IdleFree'
  BY <1>1 DEF RepliesInv, ClientsHearAnswers, IdleFree
<1>4. Lockstep'
  <2>1. \A i \in ClientSocket : OnePlace(i)'
    BY <1>2, FewerExchange
  <2>2. \A i \in ClientSocket : i[2] > session'[i[1]] => Silent(i)'
    BY <1>1, <1>2, FewerExchange DEF RepliesInv, Lockstep
  <2>3. \A d \in Client, i \in ClientSocket :
           ~ outstanding'[d] /\ i = Conn(d)' => Silent(i)'
    BY <1>1, <1>2, FewerExchange DEF RepliesInv, Lockstep
  <2> QED BY <2>1, <2>2, <2>3 DEF Lockstep
<1>5. ASSUME ~ KeepSession
      PROVE  OwnCall'
  <2>1. SUFFICES ASSUME NEW d \in Client, NEW i \in ClientSocket, NEW q \in Calls,
                        clientPc'[d] = "waiting", i = Conn(d)', q = call'[d]
                 PROVE  Fits(i, q)'
    BY DEF OwnCall
  <2>2. Fits(i, q)
    BY <1>1, <1>5, <2>1 DEF RepliesInv, OwnCall
  <2> QED BY <1>2, <2>2, FewerExchange
<1> QED BY <1>3, <1>4, <1>5 DEF RepliesInv

-----------------------------------------------------------------------------
(* The invariant and the theorems. *)

LEMMA InitReplies == Init => RepliesInv
<1> SUFFICES ASSUME Init PROVE RepliesInv
  OBVIOUS
<1>1. /\ \A i \in ClientSocket : toBroker[i] = <<>> /\ toPeer[i] = <<>> /\ i \in Identity
      /\ \A i \in Identity : toPeer[i] = <<>>
      /\ \A s \in ServiceName : requests[s] = <<>>
      /\ \A w \in Worker : Hand(w) = <<>>
  BY Sockets, NetAssumption DEF Init, NetInit, BrokerInit, WorkerInit, Hand, ClientSocket
<1>2. ASSUME NEW j \in Identity, NEW i \in ClientSocket
      PROVE  Range(toBroker[j]) \cap UpMark(j, i) = {}
  <2>1. CASE toBroker[j] = <<>>
    BY <2>1 DEF Range
  <2>2. CASE j[1] \in Worker /\ toBroker[j] = <<Greeting(j[1])>>
    <3>1. Range(<<Greeting(j[1])>>) = {Greeting(j[1])}
      BY DEF Range
    <3>2. Greeting(j[1]).cmd = "READY"
      BY DEF Greeting
    <3>3. Greeting(j[1]) \notin UpMark(j, i)
      BY <3>2 DEF UpMark, Calls, Call, MmiCall
    <3> QED BY <2>2, <3>1, <3>3
  <2> QED BY <2>1, <2>2 DEF Init, NetInit
<1>3. ASSUME NEW i \in ClientSocket, NEW l \in Places
      PROVE  Msgs(l, i) = {}
  <2>1. List(l) = <<>> => Msgs(l, i) = {}
    BY DEF Msgs, Range
  <2>2. CASE \E j \in Identity : l = <<"up", j>>
    <3>1. PICK j \in Identity : l = <<"up", j>>
      BY <2>2
    <3>2. List(l) = toBroker[j] /\ Mark(l, i) = UpMark(j, i)
      BY <3>1, PlaceIs, MarkIs
    <3> QED BY <1>2, <3>2 DEF Msgs
  <2>3. CASE \E j \in Identity : l = <<"down", j>>
    BY <1>1, <2>1, <2>3, PlaceIs
  <2>4. CASE \E s \in ServiceName : l = <<"line", s>>
    BY <1>1, <2>1, <2>4, PlaceIs
  <2>5. CASE \E w \in Worker : l = <<"hand", w>>
    BY <1>1, <2>1, <2>5, PlaceIs
  <2> QED BY <2>2, <2>3, <2>4, <2>5 DEF Places
<1>4. \A i \in ClientSocket : Silent(i)
  BY <1>3 DEF Silent
<1>5. \A i \in ClientSocket : OnePlace(i)
  <2>1. \A i \in ClientSocket, l \in Places : Here(l, i) = {}
    BY <1>3 DEF Msgs, Here, Spots, Range
  <2> QED BY <1>3, <2>1 DEF OnePlace, AtMostOne
<1>6. ClientsHearAnswers
  <2>1. <<>> \in Seq(Answer \cup MmiAnswer)
    OBVIOUS
  <2> QED BY <1>1, <2>1 DEF ClientsHearAnswers
<1>7. IdleFree /\ OwnCall
  BY DEF Init, ClientInit, IdleFree, OwnCall
<1> QED BY <1>4, <1>5, <1>6, <1>7 DEF RepliesInv, Lockstep

\* A step that leaves the places and the clients alone.
LEMMA StillReplies ==
    ASSUME RepliesInv, UNCHANGED <<toBroker, toPeer, requests, held, session, clientVars>>
    PROVE  RepliesInv'
<1>1. ClientsHearAnswers'
  BY DEF RepliesInv, ClientsHearAnswers
<1>2. \A i \in ClientSocket : Kept(i)
  BY StillKept
<1>3. \A c \in Client : Conn(c)' = Conn(c) /\ session'[c] = session[c]
  BY DEF Conn
<1> QED BY <1>1, <1>2, <1>3, KeptReplies

LEMMA NextReplies == IInv /\ PlacesInv /\ RepliesInv /\ [Next]_vars => RepliesInv'
<1> SUFFICES ASSUME IInv, PlacesInv, RepliesInv, [Next]_vars PROVE RepliesInv'
  OBVIOUS
<1>1. NetTypeOK /\ BrokerInv /\ WorkerInv /\ ClientInv /\ SocketsInOrder
  BY DEF IInv, PlacesInv
<1>2. CASE BrokerStep
  BY <1>1, <1>2, BrokerReplies DEF BrokerStep
<1>3. CASE \E w \in Worker : WorkerStep(w)
  BY <1>1, <1>3, WorkerReplies DEF WorkerStep, brokerVars
<1>4. CASE \E c \in Client : ClientStep(c)
  BY <1>1, <1>4, CallReplies, ReplyReplies, RetryReplies, AbandonReplies
     DEF ClientStep, ClientNext, brokerVars, workerVars
<1>5. CASE Fault
  <2>1. CASE (\E i \in Identity : Expire(i)) /\ UNCHANGED workerVars
    BY <1>1, <1>5, <2>1, StillReplies DEF Fault, Expire, netVars, workerVars
  <2>2. CASE BrokerRestart /\ UNCHANGED workerVars
    BY <1>1, <1>5, <2>2, RestartReplies DEF Fault
  <2>3. CASE /\ \E w \in Worker : WorkerGiveUp(w) \/ WorkerCrash(w) \/ WorkerLeave(w)
             /\ UNCHANGED brokerVars
    BY <1>1, <1>5, <2>3, WorkerReplies DEF Fault, brokerVars
  <2> QED BY <1>5, <2>1, <2>2, <2>3 DEF Fault
<1>6. CASE UNCHANGED vars
  BY <1>6, StillReplies DEF vars, netVars, brokerVars, workerVars
<1> QED BY <1>2, <1>3, <1>4, <1>5, <1>6 DEF Next

LEMMA SpecReplies == Spec => [](IInv /\ PlacesInv /\ RepliesInv)
<1>1. Init => IInv /\ PlacesInv /\ RepliesInv
  BY InitIInv, InitPlaces, InitReplies
<1>2. IInv /\ PlacesInv /\ RepliesInv /\ [Next]_vars => (IInv /\ PlacesInv /\ RepliesInv)'
  BY NextIInv, NextPlaces, NextReplies
<1> QED BY <1>1, <1>2, PTL DEF Spec

\* The name that Exchanges gives to the k-th message of place l.
Name(l, k, i) ==
    IF l[1] = "up" THEN (IF l[2] = i THEN <<"call", k>> ELSE <<"reply", l[2], k>>)
    ELSE IF l[1] = "down" THEN (IF l[2] = i THEN <<"answer", k>> ELSE <<"request", l[2], k>>)
    ELSE IF l[1] = "line" THEN <<"queued", l[2], k>>
    ELSE <<"held", l[2]>>

LEMMA ExchangeIsHere ==
    ASSUME NetTypeOK, WorkerTypeOK, Roles, ClientsHearAnswers,
           NEW i \in ClientSocket, NEW x \in Exchanges(i)
    PROVE  \E l \in Places : \E k \in Here(l, i) : x = Name(l, k, i)
<1>1. i \in Identity
  BY Sockets
<1>2. /\ \A m \in Calls : m.cmd = "CALL" /\ m \in UpMark(i, i)
      /\ \A m \in Answer \cup MmiAnswer : m.cmd = "ANSWER" /\ m \in DownMark(i, i)
  BY DEF Calls, Call, MmiCall, Answer, MmiAnswer, UpMark, DownMark
<1>3. ASSUME NEW k \in 1 .. Len(toBroker[i])
      PROVE  k \in Here(<<"up", i>>, i) /\ toBroker[i][k].cmd = "CALL"
  <2>1. toBroker[i][k] \in Calls
    BY DEF Roles
  <2> QED BY <1>1, <1>2, <2>1, PlaceIs, MarkIs DEF Here, Spots
<1>4. ASSUME NEW k \in 1 .. Len(toPeer[i])
      PROVE  k \in Here(<<"down", i>>, i) /\ toPeer[i][k].cmd = "ANSWER"
  <2>1. toPeer[i][k] \in Answer \cup MmiAnswer
    BY DEF ClientsHearAnswers
  <2> QED BY <1>1, <1>2, <2>1, PlaceIs, MarkIs DEF Here, Spots
<1>5. CASE \E k \in 1 .. Len(toBroker[i]) : x = <<"call", k>>
  <2>1. PICK k \in 1 .. Len(toBroker[i]) : x = <<"call", k>>
    BY <1>5
  <2>2. <<"up", i>> \in Places /\ x = Name(<<"up", i>>, k, i)
    BY <1>1, <2>1, PlaceIs DEF Name
  <2> QED BY <1>3, <2>2
<1>6. CASE \E k \in 1 .. Len(toPeer[i]) : x = <<"answer", k>>
  <2>1. PICK k \in 1 .. Len(toPeer[i]) : x = <<"answer", k>>
    BY <1>6
  <2>2. <<"down", i>> \in Places /\ x = Name(<<"down", i>>, k, i)
    BY <1>1, <2>1, PlaceIs DEF Name
  <2> QED BY <1>4, <2>2
<1>7. CASE \E s \in ServiceName : \E k \in Spots(requests[s], [client : {i}, tag : Tag]) :
              x = <<"queued", s, k>>
  <2>0. PICK s \in ServiceName :
          \E k \in Spots(requests[s], [client : {i}, tag : Tag]) : x = <<"queued", s, k>>
    BY <1>7
  <2>1. PICK k \in Spots(requests[s], [client : {i}, tag : Tag]) : x = <<"queued", s, k>>
    BY <2>0
  <2>2. <<"line", s>> \in Places /\ x = Name(<<"line", s>>, k, i)
    BY <2>1, PlaceIs DEF Name
  <2>3. k \in Here(<<"line", s>>, i)
    BY PlaceIs, MarkIs DEF Here, Of
  <2> QED BY <2>2, <2>3
<1>8. CASE \E j \in Identity :
              \E k \in Spots(toPeer[j], [cmd : {"REQUEST"}, client : {i}, tag : Tag]) :
                 x = <<"request", j, k>>
  <2>0. PICK j \in Identity :
          \E k \in Spots(toPeer[j], [cmd : {"REQUEST"}, client : {i}, tag : Tag]) :
             x = <<"request", j, k>>
    BY <1>8
  <2>1. PICK k \in Spots(toPeer[j], [cmd : {"REQUEST"}, client : {i}, tag : Tag]) :
          x = <<"request", j, k>>
    BY <2>0
  <2>2. k \in 1 .. Len(toPeer[j]) /\ toPeer[j][k].cmd = "REQUEST"
    BY DEF Spots
  <2>3. j # i
    BY <1>4, <2>2
  <2>4. <<"down", j>> \in Places /\ x = Name(<<"down", j>>, k, i)
    BY <2>1, <2>3, PlaceIs DEF Name
  <2>5. k \in Here(<<"down", j>>, i)
    <3>1. toPeer[j][k] \in DownMark(j, i)
      BY DEF Spots, DownMark
    <3>2. List(<<"down", j>>) = toPeer[j] /\ Mark(<<"down", j>>, i) = DownMark(j, i)
      BY PlaceIs, MarkIs
    <3> QED BY <2>2, <3>1, <3>2 DEF Here, Spots
  <2> QED BY <2>4, <2>5
<1>9. CASE \E j \in Identity :
              \E k \in Spots(toBroker[j], [cmd : {"REPLY"}, client : {i}, tag : Tag]) :
                 x = <<"reply", j, k>>
  <2>0. PICK j \in Identity :
          \E k \in Spots(toBroker[j], [cmd : {"REPLY"}, client : {i}, tag : Tag]) :
             x = <<"reply", j, k>>
    BY <1>9
  <2>1. PICK k \in Spots(toBroker[j], [cmd : {"REPLY"}, client : {i}, tag : Tag]) :
          x = <<"reply", j, k>>
    BY <2>0
  <2>2. k \in 1 .. Len(toBroker[j]) /\ toBroker[j][k].cmd = "REPLY"
    BY DEF Spots
  <2>3. j # i
    BY <1>3, <2>2
  <2>4. <<"up", j>> \in Places /\ x = Name(<<"up", j>>, k, i)
    BY <2>1, <2>3, PlaceIs DEF Name
  <2>5. k \in Here(<<"up", j>>, i)
    <3>1. toBroker[j][k] \in UpMark(j, i)
      BY DEF Spots, UpMark
    <3>2. List(<<"up", j>>) = toBroker[j] /\ Mark(<<"up", j>>, i) = UpMark(j, i)
      BY PlaceIs, MarkIs
    <3> QED BY <2>2, <3>1, <3>2 DEF Here, Spots
  <2> QED BY <2>4, <2>5
<1>10. CASE \E w \in Worker : held[w] \in [client : {i}, tag : Tag] /\ x = <<"held", w>>
  <2>1. PICK w \in Worker : held[w] \in [client : {i}, tag : Tag] /\ x = <<"held", w>>
    BY <1>10
  <2>2. <<"hand", w>> \in Places /\ x = Name(<<"hand", w>>, 1, i)
    BY <2>1, PlaceIs DEF Name
  <2>3. held[w] # Nothing
    BY <1>1, <2>1, WorkerAssumption
  <2>4. List(<<"hand", w>>) = <<held[w]>> /\ Mark(<<"hand", w>>, i) = Of(i)
    BY <2>3, PlaceIs, MarkIs DEF Hand
  <2>5. 1 \in Here(<<"hand", w>>, i)
    <3>1. 1 \in 1 .. Len(<<held[w]>>) /\ <<held[w]>>[1] \in Of(i)
      BY <2>1 DEF Of
    <3> QED BY <2>4, <3>1 DEF Here, Spots
  <2> QED BY <2>2, <2>5
<1>11. /\ x \in {"call"} \X (1 .. Len(toBroker[i]))
            => \E k \in 1 .. Len(toBroker[i]) : x = <<"call", k>>
       /\ x \in {"answer"} \X (1 .. Len(toPeer[i]))
            => \E k \in 1 .. Len(toPeer[i]) : x = <<"answer", k>>
       /\ x \in {"held"} \X {w \in Worker : held[w] \in [client : {i}, tag : Tag]}
            => \E w \in Worker : held[w] \in [client : {i}, tag : Tag] /\ x = <<"held", w>>
  OBVIOUS
<1>12. CASE x \in Queuing(i)
  <2>1. PICK s \in ServiceName :
          x \in {"queued"} \X {s} \X Spots(requests[s], [client : {i}, tag : Tag])
    BY <1>12 DEF Queuing
  <2>2. \E k \in Spots(requests[s], [client : {i}, tag : Tag]) : x = <<"queued", s, k>>
    BY <2>1
  <2> QED BY <1>7, <2>2
<1>13. CASE x \in Asking(i)
  <2>1. PICK j \in Identity :
          x \in {"request"} \X {j}
                \X Spots(toPeer[j], [cmd : {"REQUEST"}, client : {i}, tag : Tag])
    BY <1>13 DEF Asking
  <2>2. \E k \in Spots(toPeer[j], [cmd : {"REQUEST"}, client : {i}, tag : Tag]) :
          x = <<"request", j, k>>
    BY <2>1
  <2> QED BY <1>8, <2>2
<1>14. CASE x \in Replying(i)
  <2>1. PICK j \in Identity :
          x \in {"reply"} \X {j}
                \X Spots(toBroker[j], [cmd : {"REPLY"}, client : {i}, tag : Tag])
    BY <1>14 DEF Replying
  <2>2. \E k \in Spots(toBroker[j], [cmd : {"REPLY"}, client : {i}, tag : Tag]) :
          x = <<"reply", j, k>>
    BY <2>1
  <2> QED BY <1>9, <2>2
<1>15. \/ x \in {"call"} \X (1 .. Len(toBroker[i]))
       \/ x \in {"answer"} \X (1 .. Len(toPeer[i]))
       \/ x \in {"held"} \X {w \in Worker : held[w] \in [client : {i}, tag : Tag]}
       \/ x \in Queuing(i) \/ x \in Asking(i) \/ x \in Replying(i)
  BY DEF Exchanges
<1> QED BY <1>5, <1>6, <1>10, <1>11, <1>12, <1>13, <1>14, <1>15

LEMMA PlaceLists ==
    ASSUME NetTypeOK, BrokerTypeOK, NEW p \in Places
    PROVE  DOMAIN List(p) = 1 .. Len(List(p))
<1>1. /\ \A j \in Identity : /\ DOMAIN toBroker[j] = 1 .. Len(toBroker[j])
                             /\ DOMAIN toPeer[j] = 1 .. Len(toPeer[j])
      /\ \A s \in ServiceName : DOMAIN requests[s] = 1 .. Len(requests[s])
  BY LenProperties DEF NetTypeOK, BrokerTypeOK
<1>2. \A w \in Worker : DOMAIN Hand(w) = 1 .. Len(Hand(w))
  <2>1. ASSUME NEW w \in Worker
        PROVE  DOMAIN Hand(w) = 1 .. Len(Hand(w))
    <3>1. CASE Hand(w) = <<>>
      BY <3>1
    <3>2. CASE Hand(w) = <<held[w]>>
      BY <3>2
    <3> QED BY <3>1, <3>2 DEF Hand
  <2> QED BY <2>1
<1> QED BY <1>1, <1>2, PlaceIs DEF Places

\* The places of an exchange are those that Exchanges lists.
LEMMA ExchangesAreOne ==
    ASSUME IInv, PlacesInv, RepliesInv
    PROVE  NoDuplicate
<1>1. SUFFICES ASSUME NEW i \in ClientSocket, NEW x \in Exchanges(i), NEW y \in Exchanges(i)
               PROVE  x = y
  BY DEF NoDuplicate, AtMostOne, ClientSocket
<1>2. /\ NetTypeOK /\ BrokerTypeOK /\ WorkerTypeOK
      /\ Roles /\ ClientsHearAnswers /\ OnePlace(i)
  BY DEF IInv, BrokerInv, WorkerInv, PlacesInv, RepliesInv, Lockstep
<1>3. PICK l \in Places : \E k \in Here(l, i) : x = Name(l, k, i)
  BY <1>2, ExchangeIsHere
<1>4. PICK h \in Places : \E k \in Here(h, i) : y = Name(h, k, i)
  BY <1>2, ExchangeIsHere
<1>5. \A p \in Places : Here(p, i) # {} => Msgs(p, i) # {}
  <2>1. ASSUME NEW p \in Places, NEW k \in Here(p, i)
        PROVE  Msgs(p, i) # {}
    BY PlaceLists, <1>2 DEF Here, Msgs, Spots, Range
  <2> QED BY <2>1
<1>6. l = h
  BY <1>2, <1>3, <1>4, <1>5 DEF OnePlace
<1> QED BY <1>2, <1>3, <1>4, <1>6 DEF OnePlace, AtMostOne

\* What a client sends through one socket is answered at most once: in every
\* state, and whatever crashes, restarts, disconnects and purges came before,
\* its request is in one channel, one queue or one worker's hands only.  The
\* broker takes a request out of the queue in the turn that sends it on.
THEOREM NothingTwice == Spec => []NoDuplicate
<1>1. IInv /\ PlacesInv /\ RepliesInv => NoDuplicate
  BY ExchangesAreOne
<1> QED BY <1>1, SpecReplies, PTL

\* What is in the inbox of a waiting client belongs to the call it made.
LEMMA RepliesAreRight ==
    ASSUME IInv, RepliesInv, ~ KeepSession
    PROVE  ReplyMatches
<1>1. SUFFICES ASSUME NEW c \in Client, clientPc[c] = "waiting", Inbox(c) # <<>>
               PROVE  /\ Head(Inbox(c)).svc = call[c].svc
                      /\ call[c].svc \in Service => Head(Inbox(c)).tag = call[c].tag
  BY DEF ReplyMatches
<1>2. NetTypeOK
  BY DEF IInv
<1>3. PICK s \in ClientSocket : s = Conn(c) /\ s \in Identity
  BY <1>2, ConnOf DEF Peer
<1>4. PICK q \in Calls : q = call[c]
  BY <1>1 DEF IInv, ClientInv, WaitingCalls
<1> DEFINE h == Head(toPeer[s])
           down == <<"down", s>>
<1>5. h \in Answer \cup MmiAnswer /\ h \in Range(toPeer[s]) /\ h = Head(Inbox(c))
  <2>1. toPeer[s] \in Seq(Answer \cup MmiAnswer) /\ toPeer[s] # <<>>
    BY <1>1, <1>3 DEF RepliesInv, ClientsHearAnswers, Inbox
  <2>2. 1 \in 1 .. Len(toPeer[s]) /\ h = toPeer[s][1] /\ h \in Answer \cup MmiAnswer
    BY <2>1
  <2> QED BY <1>3, <2>1, <2>2, LenProperties DEF Range, Inbox
<1>6. h \in Msgs(down, s)
  BY <1>3, <1>5, PlaceIs, MarkIs DEF Msgs, DownMark
<1>7. Fits(s, q)
  BY <1>1, <1>3, <1>4 DEF RepliesInv, OwnCall
<1>8. h \in RightDown(s, q)
  BY <1>3, <1>6, <1>7, PlaceIs DEF Fits, Right
<1>9. h.cmd = "ANSWER"
  BY <1>5 DEF Answer, MmiAnswer
<1>10. CASE q \in Call /\ h.tag = q.tag /\ h.svc = q.svc
  BY <1>4, <1>5, <1>10
<1>11. CASE q \notin Call /\ h.svc = q.svc
  <2>1. q.svc \notin Service
    BY <1>11, NetAssumption DEF Calls, MmiCall
  <2> QED BY <1>4, <1>5, <1>11, <2>1
<1>12. h \notin Request
  BY <1>9 DEF Request
<1> QED BY <1>8, <1>10, <1>11, <1>12 DEF RightDown

\* mdcli_send returns the reply to the request it sent, of the service it
\* named, as long as an application gives up its session after a NULL: each
\* retry has a socket of its own, so what answers an earlier attempt or an
\* earlier call goes to a socket nobody reads.
THEOREM RepliesMatch == ~ KeepSession => (Spec => []ReplyMatches)
<1> SUFFICES ASSUME ~ KeepSession PROVE Spec => []ReplyMatches
  OBVIOUS
<1>1. IInv /\ RepliesInv => ReplyMatches
  BY RepliesAreRight
<1> QED BY <1>1, SpecReplies, PTL

=============================================================================
