--------------------------- MODULE BrokersProofs ---------------------------
(***************************************************************************)
(* Theorems about two of the larger programs.                              *)
(*                                                                         *)
(* Titanic, for every number of clients, attempts and crashes: the types   *)
(* of all variables, that the dispatcher marks only requests with a whole  *)
(* reply or that are closed, that what a client was told of stays on disk, *)
(* and that neither side meets a fatal error.                              *)
(*                                                                         *)
(* The full cluster, for any number of brokers, clients and workers: a     *)
(* request is in one place, and a worker is idle, heard of or at work.     *)
(* What a step does to the requests is one of four things: it passes one   *)
(* on from the head of one list to the end of another, drops one, puts a   *)
(* new one into a list, or leaves all lists as they are.                   *)
(***************************************************************************)
EXTENDS Titanic, FullCluster, FiniteSetTheorems, SequenceTheorems, TLAPS

TitanicSpec == TitanicInit /\ [][TitanicNext]_titanicVars

\* The uuids that titanic_request has given to requests.
Issued == 1 .. uuids

\* The dispatcher has this request, or will have it, or a crash has lost it.
Located(u) == u \in ToSet(pipe) \cup dropped \cup {queue[i].uuid : i \in DOMAIN queue}

Told(u) == u \in Issued /\ Located(u)

\* A thread at work has a call.
ThreadsOK ==
    /\ thread["request"].at \in {"idle", "saved", "piped"}
    /\ thread["reply"].at \in {"idle", "load", "lookup"}
    /\ thread["close"].at \in {"idle", "delete"}
    /\ \A v \in Service : thread[v].at # "idle" =>
          /\ thread[v].call \in Call
          /\ thread[v].call.uuid \in Issued
          /\ thread[v].at # "saved" => Located(thread[v].call.uuid)

\* Nobody names a request to Titanic but by a uuid that a client was told.
CallsOK ==
    /\ \A i \in DOMAIN calls["request"] : calls["request"][i].uuid = NoUuid
    /\ \A v \in {"reply", "close"} : \A i \in DOMAIN calls[v] : Told(calls[v][i].uuid)
    /\ \A c \in Client :
          /\ client[c].at \in {"start", "request"} => client[c].uuid = NoUuid
          /\ client[c].at \in {"reply", "close"} => Told(client[c].uuid)
    /\ \A u \in acked : Told(u)

\* A request's file goes only when a client has asked for that.
ClosedOK ==
    /\ \A i \in DOMAIN calls["close"] : calls["close"][i].uuid \in closed
    /\ \A c \in Client : client[c].at = "close" => client[c].uuid \in closed
    /\ thread["close"].at = "delete" => thread["close"].call.uuid \in closed
    /\ \A u \in Issued : u \in req \/ u \in closed

\* A uuid comes to the dispatcher once: no two entries of the queue are one request.
OnceOK ==
    /\ \A i \in DOMAIN pipe : pipe[i] \in Issued
    /\ \A i \in DOMAIN queue : queue[i].uuid \in Issued
    /\ \A i, j \in DOMAIN pipe : pipe[i] = pipe[j] => i = j
    /\ \A i, j \in DOMAIN queue : queue[i].uuid = queue[j].uuid => i = j
    /\ \A i \in DOMAIN pipe, j \in DOMAIN queue : pipe[i] # queue[j].uuid
    /\ thread["request"].at = "saved" =>
          /\ \A i \in DOMAIN pipe : pipe[i] # thread["request"].call.uuid
          /\ \A i \in DOMAIN queue : queue[i].uuid # thread["request"].call.uuid

\* The dispatcher works at an entry that is not marked, and has written its reply
\* before it is about to mark it.
DispatchOK ==
    /\ step # "look" => pos \in DOMAIN queue /\ queue[pos].mark = "-"
    /\ step = "close" => rep[queue[pos].uuid] # "none" \/ queue[pos].uuid \in closed
    /\ step = "mark" => rep[queue[pos].uuid] = "whole" \/ queue[pos].uuid \in closed

Steady == ThreadsOK /\ CallsOK /\ ClosedOK /\ OnceOK /\ DispatchOK /\ Processed

IInv == TitanicTypeOK /\ Steady

-----------------------------------------------------------------------------
(* Calls. *)

LEMMA UuidType == Uuid \subseteq Nat \ {0}
<1>1. Cardinality(Client) \in Nat
  BY TitanicAssumption, FS_CardinalityType
<1> QED BY <1>1, TitanicAssumption DEF Uuid

LEMMA OrphanedCall ==
    ASSUME NEW c, NEW call \in Call \cup {NoCall}
    PROVE  /\ Orphaned(c, call) \in Call \cup {NoCall}
           /\ call \in Call => Orphaned(c, call) \in Call /\ Orphaned(c, call).uuid = call.uuid
BY DEF Orphaned, Call, NoCall

\* What the broker holds when a client has closed its socket.
BrokerHolds(c) == [v \in Service |-> [i \in DOMAIN calls[v] |-> Orphaned(c, calls[v][i])]]

LEMMA HeldCalls ==
    ASSUME TitanicTypeOK, NEW c
    PROVE  /\ BrokerHolds(c) \in [Service -> Seq(Call)]
           /\ \A v \in Service : \A i \in DOMAIN BrokerHolds(c)[v] :
                 i \in DOMAIN calls[v] /\ BrokerHolds(c)[v][i].uuid = calls[v][i].uuid
<1> SUFFICES ASSUME NEW v \in Service
             PROVE  /\ BrokerHolds(c)[v] \in Seq(Call)
                    /\ \A i \in DOMAIN BrokerHolds(c)[v] :
                         i \in DOMAIN calls[v] /\ BrokerHolds(c)[v][i].uuid = calls[v][i].uuid
  BY DEF BrokerHolds
<1>1. calls[v] \in Seq(Call)
  BY DEF TitanicTypeOK
<1> DEFINE n == Len(calls[v])
<1>2. n \in Nat /\ DOMAIN calls[v] = 1 .. n /\ \A i \in 1 .. n : calls[v][i] \in Call
  BY <1>1
<1>3. BrokerHolds(c)[v] = [i \in 1 .. n |-> Orphaned(c, calls[v][i])]
  BY <1>2 DEF BrokerHolds
<1>4. \A i \in 1 .. n : /\ Orphaned(c, calls[v][i]) \in Call
                        /\ Orphaned(c, calls[v][i]).uuid = calls[v][i].uuid
  BY <1>2, OrphanedCall
<1> HIDE DEF n
<1>5. BrokerHolds(c)[v] \in [1 .. n -> Call]
  BY <1>3, <1>4
<1>6. BrokerHolds(c)[v] \in Seq(Call)
  BY <1>2, <1>5
<1> QED BY <1>2, <1>3, <1>4, <1>6

LEMMA AddedCalls ==
    ASSUME NEW held \in [Service -> Seq(Call)], NEW c \in Client, NEW v \in Service,
           NEW u \in Uuid \cup {NoUuid}
    PROVE  /\ Added(held, c, v, u) \in [Service -> Seq(Call)]
           /\ \A w \in Service : \A i \in DOMAIN Added(held, c, v, u)[w] :
                 \/ i \in DOMAIN held[w] /\ Added(held, c, v, u)[w][i] = held[w][i]
                 \/ w = v /\ Added(held, c, v, u)[w][i].uuid = u
<1> DEFINE new == [client |-> c, uuid |-> u, live |-> TRUE]
<1>1. new \in Call
  BY DEF Call
<1>2. held[v] \in Seq(Call)
  OBVIOUS
<1> HIDE DEF new
<1>3. /\ Append(held[v], new) \in Seq(Call)
      /\ \A i \in DOMAIN Append(held[v], new) :
           \/ i \in DOMAIN held[v] /\ Append(held[v], new)[i] = held[v][i]
           \/ Append(held[v], new)[i] = new
  BY <1>1, <1>2
<1>4. Added(held, c, v, u) = [held EXCEPT ![v] = Append(held[v], new)]
  BY DEF Added, new
<1>5. new.uuid = u
  BY DEF new
<1> QED BY <1>3, <1>4, <1>5

-----------------------------------------------------------------------------
(* Types. *)

ClientRecord == [at : {"start", "done", "failed", "gone"} \cup Service,
                try : 1 .. Retries, uuid : Uuid \cup {NoUuid}]
ThreadState == [at : {"idle", "saved", "piped", "load", "lookup", "delete"},
                call : Call \cup {NoCall}]

\* The client's process ends.
Ends(c) == \E at \in {"failed", "done", "gone"} : client' = [client EXCEPT ![c].at = at]

LEMMA EndsType ==
    ASSUME NEW c \in Client, client \in [Client -> ClientRecord], Ends(c)
    PROVE  /\ client' \in [Client -> ClientRecord]
           /\ \A d \in Client \ {c} : client'[d] = client[d]
           /\ client'[c].at \in {"failed", "done", "gone"}
<1>1. PICK at \in {"failed", "done", "gone"} :
         client' = [client EXCEPT ![c] = [client[c] EXCEPT !.at = at]]
  BY DEF Ends
<1>2. \A r \in ClientRecord : [r EXCEPT !.at = at] \in ClientRecord /\ [r EXCEPT !.at = at].at = at
  BY DEF ClientRecord
<1>3. client[c] \in ClientRecord
  OBVIOUS
<1> DEFINE r == [client[c] EXCEPT !.at = at]
<1>4. r \in ClientRecord /\ r.at = at
  BY <1>2, <1>3
<1>5. client' = [client EXCEPT ![c] = r]
  BY <1>1
<1> HIDE DEF r
<1> QED BY <1>4, <1>5

LEMMA TitanicInitType == TitanicInit => TitanicTypeOK
<1> SUFFICES ASSUME TitanicInit PROVE TitanicTypeOK
  OBVIOUS
<1>1. Retries \in Nat \ {0} /\ MaxCrashes \in Nat
  BY TitanicAssumption
<1> QED BY <1>1 DEF TitanicInit, TitanicTypeOK, Service, Idle, NoUuid

\* What s_service_call does with a reply: it waits for no reply, or it goes on.
LEMMA RepliedOne ==
    ASSUME NEW v, NEW held, NEW code, NEW u, Replied(v, held, code, u)
    PROVE  LET c == thread[v].call.client IN
           \/ calls' = held /\ UNCHANGED <<client, acked, closed>>
           \/ /\ thread[v].call.live
              /\ Ends(c)
              /\ calls' = held /\ UNCHANGED <<acked, closed>>
           \/ /\ thread[v].call.live
              /\ Calls(c, "close", 1, u) /\ calls' = Added(held, c, "close", u)
              /\ closed' = closed \cup {u} /\ acked' = acked
           \/ /\ thread[v].call.live
              /\ Calls(c, "reply", 1, u) /\ calls' = Added(held, c, "reply", u)
              /\ acked' = acked \cup {u} /\ closed' = closed
<1>1. CASE ~thread[v].call.live
  BY <1>1 DEF Replied
<1>2. CASE thread[v].call.live
  <2>1. CASE code = "400"
    BY <1>2, <2>1 DEF Replied, Ends
  <2>2. CASE code # "400" /\ v = "close"
    BY <1>2, <2>2 DEF Replied, Ends
  <2>3. CASE code # "400" /\ v = "reply" /\ code = "200"
    BY <1>2, <2>3 DEF Replied
  <2>4. CASE code # "400" /\ v # "close" /\ ~(v = "reply" /\ code = "200")
    BY <1>2, <2>4 DEF Replied
  <2> QED BY <2>1, <2>2, <2>3, <2>4
<1> QED BY <1>1, <1>2

\* A client makes another call, or its process ends.
LEMMA ClientTypes ==
    ASSUME TitanicTypeOK, NEW c \in Client, ClientNext(c)
    PROVE  TitanicTypeOK'
<1> USE DEF files, dispatcher, ghosts
<1>1. CASE ClientStart(c)
  <2>1. Added(calls, c, "request", NoUuid) \in [Service -> Seq(Call)]
    BY AddedCalls DEF TitanicTypeOK, Service
  <2>2. client' \in [Client -> ClientRecord]
    BY <1>1, TitanicAssumption DEF ClientStart, Calls, TitanicTypeOK, Service, ClientRecord
  <2> QED BY <1>1, <2>1, <2>2 DEF ClientStart, TitanicTypeOK, ClientRecord
<1>2. CASE ClientTimeout(c)
  <2> DEFINE me == client[c]
  <2>1. /\ me.at \in Service /\ me.try \in 1 .. Retries /\ me.uuid \in Uuid \cup {NoUuid}
        /\ thread' = [v \in Service |-> [thread[v] EXCEPT !.call = Orphaned(c, @)]]
        /\ \/ me.try < Retries /\ Calls(c, me.at, me.try + 1, me.uuid)
              /\ calls' = Added(BrokerHolds(c), c, me.at, me.uuid)
           \/ Ends(c) /\ calls' = BrokerHolds(c)
        /\ UNCHANGED <<files, pipe, dispatcher, uuids, crashes, ghosts>>
    BY <1>2 DEF ClientTimeout, BrokerHolds, TitanicTypeOK, Ends
  <2>2. thread' \in [Service -> ThreadState]
    <3>1. \A v \in Service : thread[v] \in ThreadState
      BY DEF TitanicTypeOK, ThreadState
    <3>2. \A t \in ThreadState : [t EXCEPT !.call = Orphaned(c, @)] \in ThreadState
      BY OrphanedCall DEF ThreadState
    <3> QED BY <2>1, <3>1, <3>2
  <2>3. calls' \in [Service -> Seq(Call)]
    <3>1. BrokerHolds(c) \in [Service -> Seq(Call)]
      BY HeldCalls
    <3>2. Added(BrokerHolds(c), c, me.at, me.uuid) \in [Service -> Seq(Call)]
      BY <2>1, <3>1, AddedCalls
    <3> QED BY <2>1, <3>1, <3>2
  <2>4. client' \in [Client -> ClientRecord]
    <3>1. client \in [Client -> ClientRecord]
      BY DEF TitanicTypeOK, ClientRecord
    <3>2. CASE me.try < Retries /\ Calls(c, me.at, me.try + 1, me.uuid)
      <4>1. me.try + 1 \in 1 .. Retries
        BY <2>1, <3>2, TitanicAssumption
      <4> QED BY <2>1, <3>1, <3>2, <4>1 DEF Calls, ClientRecord
    <3> QED BY <2>1, <3>1, <3>2, EndsType
  <2> HIDE DEF me
  <2> QED BY <2>1, <2>2, <2>3, <2>4 DEF TitanicTypeOK, ClientRecord, ThreadState
<1> QED BY <1>1, <1>2 DEF ClientNext

LEMMA TakesTypes ==
    ASSUME TitanicTypeOK, NEW v \in Service, NEW u \in Uuid \cup {NoUuid},
           NEW at \in {"saved", "load", "lookup", "delete"}, Takes(v, at, u)
    PROVE  /\ calls' \in [Service -> Seq(Call)]
           /\ thread' \in [Service -> ThreadState]
<1>1. calls[v] \in Seq(Call) /\ calls[v] # <<>>
  BY DEF Takes, TitanicTypeOK
<1>2. Head(calls[v]) \in Call /\ Tail(calls[v]) \in Seq(Call)
  BY <1>1
<1> DEFINE call == [Head(calls[v]) EXCEPT !.uuid = IF @ = NoUuid THEN u ELSE @]
<1>3. call \in Call
  BY <1>2 DEF Call
<1>4. calls' = [calls EXCEPT ![v] = Tail(calls[v])] /\ thread' = [thread EXCEPT ![v] = [at |-> at, call |-> call]]
  BY DEF Takes
<1> HIDE DEF call
<1> QED BY <1>2, <1>3, <1>4 DEF TitanicTypeOK, ThreadState

LEMMA AnswersTypes ==
    ASSUME TitanicTypeOK, ThreadsOK, NEW v \in Service, NEW code, thread[v].at # "idle", Answers(v, code)
    PROVE  /\ calls' \in [Service -> Seq(Call)]
           /\ thread' \in [Service -> ThreadState]
           /\ client' \in [Client -> ClientRecord]
           /\ acked' \subseteq Uuid /\ closed' \subseteq Uuid
           /\ UNCHANGED <<pipe, dispatcher, uuids, crashes, dropped>>
<1> DEFINE u == thread[v].call.uuid
           c == thread[v].call.client
<1>1. c \in Client /\ u \in Uuid
  <2>1. thread[v].call \in Call /\ u \in Issued
    BY DEF ThreadsOK
  <2>2. u \in Uuid
    BY <2>1, UuidType DEF Call, Issued, NoUuid
  <2> QED BY <2>1, <2>2 DEF Call
<1>2. /\ thread' = [thread EXCEPT ![v] = Idle] /\ Replied(v, calls, code, u)
      /\ UNCHANGED <<pipe, dispatcher, uuids, crashes, dropped>>
  BY DEF Answers
<1>3. thread' \in [Service -> ThreadState]
  BY <1>2 DEF TitanicTypeOK, Idle, ThreadState
<1>4. /\ calls \in [Service -> Seq(Call)] /\ acked \subseteq Uuid /\ closed \subseteq Uuid
      /\ client \in [Client -> ClientRecord]
  BY DEF TitanicTypeOK, ClientRecord
<1>5. \A w \in {"reply", "close"} : Added(calls, c, w, u) \in [Service -> Seq(Call)]
  BY <1>1, <1>4, AddedCalls DEF Service
<1>6. \A w \in {"reply", "close"} : Calls(c, w, 1, u) =>
         client' \in [Client -> ClientRecord]
  BY <1>1, <1>4, TitanicAssumption DEF Calls, Service, ClientRecord
<1>7. Ends(c) => client' \in [Client -> ClientRecord]
  BY <1>1, <1>4, EndsType
<1>8. \/ calls' = calls /\ UNCHANGED <<client, acked, closed>>
      \/ /\ Ends(c)
         /\ calls' = calls /\ UNCHANGED <<acked, closed>>
      \/ /\ Calls(c, "close", 1, u) /\ calls' = Added(calls, c, "close", u)
         /\ closed' = closed \cup {u} /\ acked' = acked
      \/ /\ Calls(c, "reply", 1, u) /\ calls' = Added(calls, c, "reply", u)
         /\ acked' = acked \cup {u} /\ closed' = closed
  BY <1>2, RepliedOne
<1> HIDE DEF u, c
<1> QED BY <1>1, <1>2, <1>3, <1>4, <1>5, <1>6, <1>7, <1>8

-----------------------------------------------------------------------------
(* Steps: one lemma for each kind. *)

QueueEntry == [uuid : Uuid, mark : {"-", "+"}]

LEMMA QueueEntries ==
    ASSUME TitanicTypeOK
    PROVE  /\ queue \in Seq(QueueEntry) /\ Len(queue) \in Nat /\ DOMAIN queue = 1 .. Len(queue)
           /\ \A i \in DOMAIN queue : queue[i] \in QueueEntry /\ queue[i].uuid \in Uuid
                                      /\ queue[i].mark \in {"-", "+"}
<1>1. queue \in Seq(QueueEntry)
  BY DEF TitanicTypeOK, QueueEntry
<1>2. Len(queue) \in Nat /\ DOMAIN queue = 1 .. Len(queue) /\ \A i \in 1 .. Len(queue) : queue[i] \in QueueEntry
  BY <1>1
<1>3. \A e \in QueueEntry : e.uuid \in Uuid /\ e.mark \in {"-", "+"}
  BY DEF QueueEntry
<1> QED BY <1>1, <1>2, <1>3

\* What a client does with its calls: a new one has the uuid the client is at.
LEMMA ClientCalls ==
    ASSUME TitanicTypeOK, NEW c \in Client, ClientNext(c)
    PROVE  /\ \A v \in Service : \A i \in DOMAIN calls'[v] :
                \/ i \in DOMAIN calls[v] /\ calls'[v][i].uuid = calls[v][i].uuid
                \/ client'[c].at = v /\ calls'[v][i].uuid = client'[c].uuid
           /\ \A d \in Client \ {c} : client'[d] = client[d]
           /\ \/ client'[c].at \in {"failed", "done", "gone"}
              \/ client'[c].at = client[c].at /\ client'[c].uuid = client[c].uuid
              \/ client'[c].at = "request" /\ client'[c].uuid = NoUuid
           /\ \A v \in Service :
                /\ thread'[v].at = thread[v].at
                /\ thread[v].call \in Call =>
                      thread'[v].call \in Call /\ thread'[v].call.uuid = thread[v].call.uuid
           /\ UNCHANGED <<req, rep, pipe, queue, pos, step, uuids, crashes, acked, closed, dropped>>
<1> USE DEF files, dispatcher, ghosts
<1>0. /\ client \in [Client -> ClientRecord] /\ calls \in [Service -> Seq(Call)]
      /\ thread \in [Service -> ThreadState]
  BY DEF TitanicTypeOK, ClientRecord, ThreadState
<1>1. CASE ClientStart(c)
  <2>1. calls' = Added(calls, c, "request", NoUuid)
    BY <1>1 DEF ClientStart
  <2>2. client'[c].at = "request" /\ client'[c].uuid = NoUuid
    BY <1>0, <1>1 DEF ClientStart, Calls
  <2> DEFINE me == client'[c]
  <2>3. \A v \in Service : \A i \in DOMAIN calls'[v] :
           \/ i \in DOMAIN calls[v] /\ calls'[v][i].uuid = calls[v][i].uuid
           \/ me.at = v /\ calls'[v][i].uuid = me.uuid
    <3>1. me.at \in Service /\ me.uuid \in Uuid \cup {NoUuid}
      BY <2>2 DEF Service
    <3>2. calls' = Added(calls, c, me.at, me.uuid)
      BY <2>1, <2>2
    <3> HIDE DEF me
    <3> QED BY <1>0, <3>1, <3>2, AddedCalls
  <2>4. \A d \in Client \ {c} : client'[d] = client[d]
    BY <1>0, <1>1 DEF ClientStart, Calls
  <2>5. UNCHANGED <<thread, req, rep, pipe, queue, pos, step, uuids, crashes, acked, closed, dropped>>
    BY <1>1 DEF ClientStart
  <2> QED BY <2>2, <2>3, <2>4, <2>5
<1>2. CASE ClientTimeout(c)
  <2> DEFINE me == client[c]
  <2>1. me.at \in Service /\ me.uuid \in Uuid \cup {NoUuid}
    BY <1>0, <1>2 DEF ClientTimeout, ClientRecord
  <2>2. /\ thread' = [v \in Service |-> [thread[v] EXCEPT !.call = Orphaned(c, @)]]
        /\ \/ Calls(c, me.at, me.try + 1, me.uuid) /\ calls' = Added(BrokerHolds(c), c, me.at, me.uuid)
           \/ Ends(c) /\ calls' = BrokerHolds(c)
        /\ UNCHANGED <<req, rep, pipe, queue, pos, step, uuids, crashes, acked, closed, dropped>>
    BY <1>2 DEF ClientTimeout, BrokerHolds, Ends
  <2>3. \A v \in Service :
           /\ thread'[v].at = thread[v].at
           /\ thread[v].call \in Call =>
                 thread'[v].call \in Call /\ thread'[v].call.uuid = thread[v].call.uuid
    <3>1. \A t \in ThreadState :
             /\ [t EXCEPT !.call = Orphaned(c, @)].at = t.at
             /\ [t EXCEPT !.call = Orphaned(c, @)].call = Orphaned(c, t.call)
      BY DEF ThreadState
    <3>2. \A v \in Service : thread'[v].at = thread[v].at /\ thread'[v].call = Orphaned(c, thread[v].call)
      BY <1>0, <2>2, <3>1
    <3> QED BY <3>2, OrphanedCall
  <2>4. BrokerHolds(c) \in [Service -> Seq(Call)]
        /\ \A v \in Service : \A i \in DOMAIN BrokerHolds(c)[v] :
              i \in DOMAIN calls[v] /\ BrokerHolds(c)[v][i].uuid = calls[v][i].uuid
    BY HeldCalls
  <2>5. CASE Calls(c, me.at, me.try + 1, me.uuid) /\ calls' = Added(BrokerHolds(c), c, me.at, me.uuid)
    <3>1. client'[c].at = me.at /\ client'[c].uuid = me.uuid /\ \A d \in Client \ {c} : client'[d] = client[d]
      BY <1>0, <2>5 DEF Calls
    <3>2. \A v \in Service : \A i \in DOMAIN calls'[v] :
             \/ i \in DOMAIN BrokerHolds(c)[v] /\ calls'[v][i] = BrokerHolds(c)[v][i]
             \/ v = me.at /\ calls'[v][i].uuid = me.uuid
      BY <2>1, <2>4, <2>5, AddedCalls
    <3> HIDE DEF me
    <3>3. \A v \in Service : \A i \in DOMAIN calls'[v] :
             \/ i \in DOMAIN calls[v] /\ calls'[v][i].uuid = calls[v][i].uuid
             \/ client'[c].at = v /\ calls'[v][i].uuid = client'[c].uuid
      BY <2>4, <3>1, <3>2
    <3> QED BY <2>2, <2>3, <3>1, <3>3 DEF me
  <2>6. CASE Ends(c) /\ calls' = BrokerHolds(c)
    BY <1>0, <2>2, <2>3, <2>4, <2>6, EndsType
  <2> QED BY <2>2, <2>5, <2>6
<1> QED BY <1>1, <1>2 DEF ClientNext

\* A step of a client: it has no other uuid than before.
LEMMA ClientStep ==
    ASSUME IInv, NEW c \in Client, ClientNext(c)
    PROVE  IInv'
<1>0. TitanicTypeOK /\ ThreadsOK /\ CallsOK /\ ClosedOK /\ OnceOK /\ DispatchOK /\ Processed
  BY DEF IInv, Steady
<1>1. TitanicTypeOK'
  BY <1>0, ClientTypes
<1>2. /\ \A v \in Service : \A i \in DOMAIN calls'[v] :
            \/ i \in DOMAIN calls[v] /\ calls'[v][i].uuid = calls[v][i].uuid
            \/ client'[c].at = v /\ calls'[v][i].uuid = client'[c].uuid
      /\ \A d \in Client \ {c} : client'[d] = client[d]
      /\ \/ client'[c].at \in {"failed", "done", "gone"}
         \/ client'[c].at = client[c].at /\ client'[c].uuid = client[c].uuid
         \/ client'[c].at = "request" /\ client'[c].uuid = NoUuid
      /\ \A v \in Service :
            /\ thread'[v].at = thread[v].at
            /\ thread[v].call \in Call =>
                  thread'[v].call \in Call /\ thread'[v].call.uuid = thread[v].call.uuid
  BY <1>0, ClientCalls
<1>3. UNCHANGED <<req, rep, pipe, queue, pos, step, uuids, crashes, acked, closed, dropped>>
  BY <1>0, ClientCalls
<1>4. Issued' = Issued /\ (\A u : Located(u)' <=> Located(u)) /\ (\A u : Told(u)' <=> Told(u))
  BY <1>3 DEF Issued, Located, Told
<1>5. ThreadsOK'
  BY <1>0, <1>2, <1>4 DEF ThreadsOK, Service
<1>6. CallsOK'
  <2>1. \A d \in Client : /\ client'[d].at \in {"start", "request"} => client'[d].uuid = NoUuid
                          /\ client'[d].at \in {"reply", "close"} => Told(client'[d].uuid)
    BY <1>0, <1>2 DEF CallsOK
  <2>2. \A i \in DOMAIN calls'["request"] : calls'["request"][i].uuid = NoUuid
    BY <1>0, <1>2, <2>1 DEF CallsOK, Service
  <2>3. \A v \in {"reply", "close"} : \A i \in DOMAIN calls'[v] : Told(calls'[v][i].uuid)
    BY <1>0, <1>2, <2>1 DEF CallsOK, Service
  <2>4. \A u \in acked' : Told(u)
    BY <1>0, <1>3 DEF CallsOK
  <2> QED BY <1>4, <2>1, <2>2, <2>3, <2>4 DEF CallsOK
<1>7. ClosedOK'
  <2>1. \A d \in Client : client'[d].at = "close" => client'[d].uuid \in closed
    BY <1>0, <1>2 DEF ClosedOK
  <2>2. \A i \in DOMAIN calls'["close"] : calls'["close"][i].uuid \in closed
    BY <1>0, <1>2, <2>1 DEF ClosedOK, Service
  <2>3. thread'["close"].at = "delete" => thread'["close"].call.uuid \in closed
    BY <1>0, <1>2 DEF ClosedOK, ThreadsOK, Service
  <2> QED BY <1>0, <1>3, <1>4, <2>1, <2>2, <2>3 DEF ClosedOK
<1>8. OnceOK'
  <2>1. thread'["request"].at = "saved" =>
          thread["request"].at = "saved" /\ thread'["request"].call.uuid = thread["request"].call.uuid
    BY <1>0, <1>2 DEF ThreadsOK, Service
  <2> QED BY <1>0, <1>3, <1>4, <2>1 DEF OnceOK
<1>9. DispatchOK' /\ Processed'
  BY <1>0, <1>3 DEF DispatchOK, Processed
<1> QED BY <1>1, <1>5, <1>6, <1>7, <1>8, <1>9 DEF IInv, Steady

\* mdwrk_recv takes the first call of its service.
LEMMA TakesCalls ==
    ASSUME TitanicTypeOK, NEW v \in Service, NEW u \in Uuid \cup {NoUuid},
           NEW at \in {"saved", "load", "lookup", "delete"}, Takes(v, at, u)
    PROVE  /\ \A w \in Service : \A i \in DOMAIN calls'[w] :
                 \E j \in DOMAIN calls[w] : calls'[w][i] = calls[w][j]
           /\ \E j \in DOMAIN calls[v] :
                /\ thread'[v].call \in Call
                /\ thread'[v].call.uuid = IF calls[v][j].uuid = NoUuid THEN u ELSE calls[v][j].uuid
                /\ Head(calls[v]) = calls[v][j]
           /\ thread'[v].at = at
           /\ \A w \in Service \ {v} : thread'[w] = thread[w]
<1>1. calls \in [Service -> Seq(Call)] /\ thread \in [Service -> ThreadState]
  BY DEF TitanicTypeOK, ThreadState
<1>2. calls[v] \in Seq(Call) /\ calls[v] # <<>>
  BY <1>1 DEF Takes
<1>3. /\ Head(calls[v]) = calls[v][1] /\ 1 \in DOMAIN calls[v] /\ calls[v][1] \in Call
      /\ \A i \in DOMAIN Tail(calls[v]) : i + 1 \in DOMAIN calls[v] /\ Tail(calls[v])[i] = calls[v][i + 1]
  BY <1>2
<1> DEFINE call == [Head(calls[v]) EXCEPT !.uuid = IF @ = NoUuid THEN u ELSE @]
<1>4. call \in Call /\ call.uuid = IF calls[v][1].uuid = NoUuid THEN u ELSE calls[v][1].uuid
  BY <1>3 DEF Call
<1>5. calls' = [calls EXCEPT ![v] = Tail(calls[v])] /\ thread' = [thread EXCEPT ![v] = [at |-> at, call |-> call]]
  BY DEF Takes
<1> HIDE DEF call
<1>6. \A w \in Service : \A i \in DOMAIN calls'[w] :
         \E j \in DOMAIN calls[w] : calls'[w][i] = calls[w][j]
  BY <1>1, <1>3, <1>5
<1> QED BY <1>1, <1>3, <1>4, <1>5, <1>6

\* titanic_request gives a uuid that no other request has.
LEMMA SaveStep ==
    ASSUME IInv, RequestSave
    PROVE  IInv'
<1> USE DEF files, dispatcher, ghosts
<1>0. TitanicTypeOK /\ ThreadsOK /\ CallsOK /\ ClosedOK /\ OnceOK /\ DispatchOK /\ Processed
  BY DEF IInv, Steady
<1> DEFINE u == uuids + 1
<1>1. /\ u \in Uuid /\ Takes("request", "saved", u)
      /\ uuids' = u /\ req' = req \cup {u}
      /\ UNCHANGED <<rep, pipe, queue, pos, step, client, crashes, acked, closed, dropped>>
  BY DEF RequestSave
<1>2. u \in Nat /\ uuids \in Nat /\ Issued' = Issued \cup {u} /\ u \notin Issued
  BY <1>0, <1>1, UuidType DEF TitanicTypeOK, Issued, NoUuid
<1>3. TitanicTypeOK'
  BY <1>0, <1>1, TakesTypes DEF TitanicTypeOK, Service, ThreadState, ClientRecord
<1>4. /\ \A w \in Service : \A i \in DOMAIN calls'[w] :
            \E j \in DOMAIN calls[w] : calls'[w][i] = calls[w][j]
      /\ thread'["request"].call \in Call /\ thread'["request"].at = "saved"
      /\ \A w \in Service \ {"request"} : thread'[w] = thread[w]
  BY <1>0, <1>1, TakesCalls DEF Service
<1>5. thread'["request"].call.uuid = u
  BY <1>0, <1>1, TakesCalls DEF Service, CallsOK
<1>6. \A x : (Located(x) => Located(x)') /\ (Told(x) => Told(x)')
  BY <1>1, <1>2 DEF Located, Told
<1> HIDE DEF u
<1>7. ThreadsOK'
  BY <1>0, <1>2, <1>4, <1>5, <1>6 DEF ThreadsOK, Service
<1>8. CallsOK'
  BY <1>0, <1>1, <1>4, <1>6 DEF CallsOK, Service
<1>9. ClosedOK'
  BY <1>0, <1>1, <1>2, <1>4 DEF ClosedOK, Service
<1>10. OnceOK'
  BY <1>0, <1>1, <1>2, <1>4, <1>5 DEF OnceOK
<1>11. DispatchOK' /\ Processed'
  BY <1>0, <1>1 DEF DispatchOK, Processed
<1> QED BY <1>3, <1>7, <1>8, <1>9, <1>10, <1>11 DEF IInv, Steady

\* The uuid goes into the pipe, once.
LEMMA PipeStep ==
    ASSUME IInv, RequestPipe
    PROVE  IInv'
<1> USE DEF files, dispatcher, ghosts
<1>0. TitanicTypeOK /\ ThreadsOK /\ CallsOK /\ ClosedOK /\ OnceOK /\ DispatchOK /\ Processed
  BY DEF IInv, Steady
<1> DEFINE u == thread["request"].call.uuid
<1>1. /\ thread["request"].at = "saved"
      /\ thread' = [thread EXCEPT !["request"] = [thread["request"] EXCEPT !.at = "piped"]]
      /\ pipe' = Append(pipe, u)
      /\ UNCHANGED <<calls, req, rep, queue, pos, step, client, uuids, crashes, acked, closed, dropped>>
  BY DEF RequestPipe
<1>2. u \in Issued /\ u \in Uuid /\ thread["request"].call \in Call
  BY <1>0, <1>1, UuidType DEF ThreadsOK, Issued, Call, NoUuid, Service
<1>3. thread \in [Service -> ThreadState] /\ pipe \in Seq(Uuid)
  BY <1>0 DEF TitanicTypeOK, ThreadState
<1>4. /\ thread' \in [Service -> ThreadState]
      /\ thread'["request"].at = "piped" /\ thread'["request"].call = thread["request"].call
      /\ \A w \in Service \ {"request"} : thread'[w] = thread[w]
  <2>1. \A t \in ThreadState : /\ [t EXCEPT !.at = "piped"] \in ThreadState
                               /\ [t EXCEPT !.at = "piped"].at = "piped"
                               /\ [t EXCEPT !.at = "piped"].call = t.call
    BY DEF ThreadState
  <2>2. thread["request"] \in ThreadState /\ "request" \in Service
    BY <1>3 DEF Service
  <2> DEFINE t == [thread["request"] EXCEPT !.at = "piped"]
  <2>3. t \in ThreadState /\ t.at = "piped" /\ t.call = thread["request"].call
    BY <2>1, <2>2
  <2>4. thread' = [thread EXCEPT !["request"] = t]
    BY <1>1
  <2> HIDE DEF t
  <2> QED BY <1>3, <2>2, <2>3, <2>4
<1> HIDE DEF u
<1>5. /\ pipe' \in Seq(Uuid) /\ ToSet(pipe') = ToSet(pipe) \cup {u}
      /\ \A i \in DOMAIN pipe' : (i \in DOMAIN pipe /\ pipe'[i] = pipe[i]) \/ (i = Len(pipe) + 1 /\ pipe'[i] = u)
  BY <1>1, <1>2, <1>3 DEF ToSet
<1>6. TitanicTypeOK'
  BY <1>0, <1>1, <1>4, <1>5 DEF TitanicTypeOK, ThreadState
<1>7. Issued' = Issued /\ \A x : (x = u \/ Located(x) => Located(x)') /\ (Told(x) => Told(x)')
  BY <1>1, <1>5 DEF Located, Told, Issued
<1>8. ThreadsOK'
  BY <1>0, <1>2, <1>4, <1>7 DEF ThreadsOK, Service, u
<1>9. CallsOK'
  BY <1>0, <1>1, <1>7 DEF CallsOK
<1>10. ClosedOK'
  BY <1>0, <1>1, <1>4, <1>7 DEF ClosedOK, Service
<1>11. OnceOK'
  BY <1>0, <1>1, <1>2, <1>4, <1>5, <1>7 DEF OnceOK, u
<1>12. DispatchOK' /\ Processed'
  BY <1>0, <1>1 DEF DispatchOK, Processed
<1> QED BY <1>6, <1>8, <1>9, <1>10, <1>11, <1>12 DEF IInv, Steady

\* A call of reply or close is taken: its uuid is one that a client was told.
LEMMA TakeStep ==
    ASSUME IInv, ReplyTest \/ CloseRequest
    PROVE  IInv'
<1> USE DEF files, dispatcher, ghosts
<1>0. TitanicTypeOK /\ ThreadsOK /\ CallsOK /\ ClosedOK /\ OnceOK /\ DispatchOK /\ Processed
  BY DEF IInv, Steady
<1>1. PICK v \in {"reply", "close"}, at \in {"load", "lookup", "delete"} :
         /\ Takes(v, at, NoUuid) /\ (v = "close") = (at = "delete")
         /\ \/ v = "reply" /\ req' = req
            \/ v = "close" /\ req' = req \ {Head(calls["close"]).uuid}
         /\ UNCHANGED <<rep, pipe, queue, pos, step, client, uuids, crashes, acked, closed, dropped>>
  BY DEF ReplyTest, CloseRequest
<1>2. v \in Service
  BY DEF Service
<1>3. /\ \A w \in Service : \A i \in DOMAIN calls'[w] :
            \E j \in DOMAIN calls[w] : calls'[w][i] = calls[w][j]
      /\ thread'[v].at = at
      /\ \A w \in Service \ {v} : thread'[w] = thread[w]
  BY <1>0, <1>1, <1>2, TakesCalls
<1>4. PICK j \in DOMAIN calls[v] :
         /\ thread'[v].call \in Call
         /\ thread'[v].call.uuid = IF calls[v][j].uuid = NoUuid THEN NoUuid ELSE calls[v][j].uuid
         /\ Head(calls[v]) = calls[v][j]
  BY <1>0, <1>1, <1>2, TakesCalls
<1>5. /\ thread'[v].call.uuid = calls[v][j].uuid /\ Told(calls[v][j].uuid)
      /\ v = "close" => calls[v][j].uuid \in closed /\ req' = req \ {calls[v][j].uuid}
  BY <1>0, <1>1, <1>4 DEF CallsOK, ClosedOK
<1>6. TitanicTypeOK'
  <2>1. calls' \in [Service -> Seq(Call)] /\ thread' \in [Service -> ThreadState]
    BY <1>0, <1>1, <1>2, TakesTypes
  <2> QED BY <1>0, <1>1, <2>1 DEF TitanicTypeOK, ThreadState
<1>7. Issued' = Issued /\ \A x : (Located(x)' <=> Located(x)) /\ (Told(x)' <=> Told(x))
  BY <1>1 DEF Issued, Located, Told
<1>8. ThreadsOK'
  BY <1>0, <1>1, <1>3, <1>4, <1>5, <1>7 DEF ThreadsOK, Service, Told
<1>9. CallsOK'
  <2>1. \A i \in DOMAIN calls'["request"] : calls'["request"][i].uuid = NoUuid
    BY <1>0, <1>3 DEF CallsOK, Service
  <2>2. \A w \in {"reply", "close"} : \A i \in DOMAIN calls'[w] : Told(calls'[w][i].uuid)
    BY <1>0, <1>3 DEF CallsOK, Service
  <2> QED BY <1>0, <1>1, <1>7, <2>1, <2>2 DEF CallsOK
<1>10. ClosedOK'
  <2>1. \A i \in DOMAIN calls'["close"] : calls'["close"][i].uuid \in closed
    BY <1>0, <1>3 DEF ClosedOK, Service
  <2>2. thread'["close"].at = "delete" => thread'["close"].call.uuid \in closed
    BY <1>0, <1>1, <1>3, <1>5 DEF ClosedOK, Service
  <2>3. \A u \in Issued : u \in req' \/ u \in closed
    BY <1>0, <1>1, <1>5 DEF ClosedOK
  <2> QED BY <1>0, <1>1, <1>7, <2>1, <2>2, <2>3 DEF ClosedOK
<1>11. OnceOK'
  BY <1>0, <1>1, <1>3, <1>7 DEF OnceOK, Service
<1>12. DispatchOK' /\ Processed'
  BY <1>0, <1>1 DEF DispatchOK, Processed
<1> QED BY <1>6, <1>8, <1>9, <1>10, <1>11, <1>12 DEF IInv, Steady

\* A thread answers: the client is told the uuid of its own call, and goes on with it;
\* a reply file is deleted for a client that has asked for that.
LEMMA AnswerStep ==
    ASSUME IInv, NEW v \in Service, NEW code, thread[v].at \notin {"idle", "saved"},
           Answers(v, code), req' = req,
           rep' = rep \/ (v = "close" /\ rep' = [rep EXCEPT ![thread[v].call.uuid] = "none"])
    PROVE  IInv'
<1> USE DEF dispatcher
<1>0. TitanicTypeOK /\ ThreadsOK /\ CallsOK /\ ClosedOK /\ OnceOK /\ DispatchOK /\ Processed
  BY DEF IInv, Steady
<1> DEFINE u == thread[v].call.uuid
           c == thread[v].call.client
<1>1. /\ c \in Client /\ Told(u) /\ u \in Uuid
      /\ thread' = [thread EXCEPT ![v] = Idle] /\ Replied(v, calls, code, u)
      /\ UNCHANGED <<pipe, queue, pos, step, uuids, crashes, dropped>>
  <2>1. thread[v].call \in Call /\ Told(u)
    BY <1>0 DEF ThreadsOK, Told
  <2>2. u \in Uuid
    BY <2>1, UuidType DEF Call, Told, Issued, NoUuid
  <2> QED BY <2>1, <2>2 DEF Answers, Call
<1>2. /\ client \in [Client -> ClientRecord] /\ calls \in [Service -> Seq(Call)]
      /\ thread \in [Service -> ThreadState] /\ rep \in [Uuid -> {"none", "half", "whole"}]
  BY <1>0 DEF TitanicTypeOK, ClientRecord, ThreadState
<1>3. thread'[v].at = "idle" /\ \A w \in Service \ {v} : thread'[w] = thread[w]
  BY <1>1, <1>2 DEF Idle
<1>4. \/ calls' = calls /\ UNCHANGED <<client, acked, closed>>
      \/ Ends(c) /\ calls' = calls /\ UNCHANGED <<acked, closed>>
      \/ \E w \in {"reply", "close"} :
           /\ Calls(c, w, 1, u) /\ calls' = Added(calls, c, w, u)
           /\ closed' = IF w = "close" THEN closed \cup {u} ELSE closed
           /\ acked' = IF w = "reply" THEN acked \cup {u} ELSE acked
  BY <1>1, RepliedOne
<1>5. closed \subseteq closed' /\ acked' \subseteq acked \cup {u}
  BY <1>4
<1>6. /\ \A d \in Client : \/ client'[d].at = client[d].at /\ client'[d].uuid = client[d].uuid
                           \/ client'[d].at \in {"failed", "done", "gone"}
                           \/ client'[d].at = "reply" /\ client'[d].uuid = u
                           \/ client'[d].at = "close" /\ client'[d].uuid = u /\ u \in closed'
      /\ \A w \in Service : \A i \in DOMAIN calls'[w] :
            \/ i \in DOMAIN calls[w] /\ calls'[w][i].uuid = calls[w][i].uuid
            \/ w = "reply" /\ calls'[w][i].uuid = u
            \/ w = "close" /\ calls'[w][i].uuid = u /\ u \in closed'
  <2> HIDE DEF u, c
  <2>1. CASE calls' = calls /\ client' = client
    BY <2>1
  <2>2. CASE Ends(c) /\ calls' = calls
    BY <1>1, <1>2, <2>2, EndsType
  <2>3. ASSUME NEW w \in {"reply", "close"}, Calls(c, w, 1, u), calls' = Added(calls, c, w, u),
               closed' = IF w = "close" THEN closed \cup {u} ELSE closed
        PROVE  <1>6!1 /\ <1>6!2
    <3>1. w \in Service
      BY DEF Service
    <3>2. client'[c].at = w /\ client'[c].uuid = u /\ \A d \in Client \ {c} : client'[d] = client[d]
      BY <1>1, <1>2, <2>3 DEF Calls
    <3>3. \A x \in Service : \A i \in DOMAIN calls'[x] :
             (i \in DOMAIN calls[x] /\ calls'[x][i] = calls[x][i]) \/ (x = w /\ calls'[x][i].uuid = u)
      <4>1. calls \in [Service -> Seq(Call)] /\ c \in Client /\ u \in Uuid \cup {NoUuid}
        BY <1>1, <1>2
      <4>2. \A x \in Service : \A i \in DOMAIN Added(calls, c, w, u)[x] :
               \/ i \in DOMAIN calls[x] /\ Added(calls, c, w, u)[x][i] = calls[x][i]
               \/ x = w /\ Added(calls, c, w, u)[x][i].uuid = u
        BY <3>1, <4>1, AddedCalls
      <4> QED BY <2>3, <4>2
    <3> QED BY <2>3, <3>2, <3>3
  <2> QED BY <1>4, <2>1, <2>2, <2>3
<1>7. TitanicTypeOK'
  <2>1. /\ calls' \in [Service -> Seq(Call)] /\ thread' \in [Service -> ThreadState]
        /\ client' \in [Client -> ClientRecord] /\ acked' \subseteq Uuid /\ closed' \subseteq Uuid
    BY <1>0, AnswersTypes
  <2>2. rep' \in [Uuid -> {"none", "half", "whole"}]
    BY <1>2
  <2> QED BY <1>0, <1>1, <2>1, <2>2 DEF TitanicTypeOK, ThreadState, ClientRecord
<1>8. /\ \A x \in Uuid : rep'[x] = rep[x] \/ (x \in closed /\ rep'[x] = "none")
      /\ v = "close" => u \in closed
  <2>1. v = "close" => u \in closed
    BY <1>0 DEF ClosedOK, ThreadsOK
  <2> QED BY <1>2, <2>1
<1>9. Issued' = Issued /\ \A x : (Located(x)' <=> Located(x)) /\ (Told(x)' <=> Told(x))
  BY <1>1 DEF Issued, Located, Told
<1> HIDE DEF u, c
<1>10. ThreadsOK'
  BY <1>0, <1>3, <1>9 DEF ThreadsOK, Service
<1>11. CallsOK'
  <2>1. \A d \in Client : /\ client'[d].at \in {"start", "request"} => client'[d].uuid = NoUuid
                          /\ client'[d].at \in {"reply", "close"} => Told(client'[d].uuid)
    BY <1>0, <1>1, <1>6 DEF CallsOK
  <2>2. \A i \in DOMAIN calls'["request"] : calls'["request"][i].uuid = NoUuid
    BY <1>0, <1>6 DEF CallsOK, Service
  <2>3. \A w \in {"reply", "close"} : \A i \in DOMAIN calls'[w] : Told(calls'[w][i].uuid)
    BY <1>0, <1>1, <1>6 DEF CallsOK, Service
  <2>4. \A x \in acked' : Told(x)
    BY <1>0, <1>1, <1>5 DEF CallsOK
  <2> QED BY <1>9, <2>1, <2>2, <2>3, <2>4 DEF CallsOK
<1>12. ClosedOK'
  <2>1. \A d \in Client : client'[d].at = "close" => client'[d].uuid \in closed'
    BY <1>0, <1>5, <1>6 DEF ClosedOK
  <2>2. \A i \in DOMAIN calls'["close"] : calls'["close"][i].uuid \in closed'
    BY <1>0, <1>5, <1>6 DEF ClosedOK, Service
  <2>3. thread'["close"].at = "delete" => thread'["close"].call.uuid \in closed'
    BY <1>0, <1>3, <1>5 DEF ClosedOK, Service
  <2> QED BY <1>0, <1>5, <1>9, <2>1, <2>2, <2>3 DEF ClosedOK
<1>13. OnceOK'
  BY <1>0, <1>1, <1>3, <1>9 DEF OnceOK, Service
<1>14. DispatchOK' /\ Processed'
  <2>2. \A i \in DOMAIN queue : queue[i].uuid \in Uuid
    BY <1>0, QueueEntries
  <2> QED BY <1>0, <1>1, <1>5, <1>8, <2>2 DEF DispatchOK, Processed
<1> QED BY <1>7, <1>10, <1>11, <1>12, <1>13, <1>14 DEF IInv, Steady

\* What the dispatcher leaves alone.
LEMMA UnmovedKeeps ==
    ASSUME IInv, Unmoved, req' = req, (\A u : Located(u) => Located(u)')
    PROVE  CallsOK' /\ ClosedOK' /\ ThreadsOK'
<1>0. ThreadsOK /\ CallsOK /\ ClosedOK
  BY DEF IInv, Steady
<1>1. UNCHANGED <<calls, thread, client, uuids, acked, closed, dropped>>
  BY DEF Unmoved, ghosts
<1>2. Issued' = Issued /\ \A u : Told(u) => Told(u)'
  BY <1>1 DEF Issued, Told
<1>3. CallsOK'
  BY <1>0, <1>1, <1>2 DEF CallsOK
<1>4. ClosedOK'
  BY <1>0, <1>1, <1>2 DEF ClosedOK
<1>5. ThreadsOK'
  BY <1>0, <1>1, <1>2 DEF ThreadsOK
<1> QED BY <1>3, <1>4, <1>5

\* The queue grows by a uuid that it does not have.
LEMMA PollStep ==
    ASSUME IInv, Poll
    PROVE  IInv'
<1> USE DEF files, dispatcher, ghosts
<1>0. TitanicTypeOK /\ OnceOK /\ DispatchOK /\ Processed
  BY DEF IInv, Steady
<1>1. Unmoved /\ UNCHANGED <<req, rep, step, calls, thread, client, uuids, crashes, acked, closed, dropped>>
  BY DEF Poll, Unmoved
<1>2. pipe \in Seq(Uuid) /\ queue \in Seq(QueueEntry)
  BY <1>0, QueueEntries DEF TitanicTypeOK
<1>3. step = "look" /\ pos' = IF queue' = <<>> THEN 0 ELSE 1
  <2>1. pos = 0 /\ pos' = IF queue' = <<>> THEN 0 ELSE 1
    BY DEF Poll
  <2>2. step \in {"look", "call", "save", "close", "mark"} /\ 0 \notin DOMAIN queue
    BY <1>0, QueueEntries DEF TitanicTypeOK
  <2> QED BY <1>0, <2>1, <2>2 DEF DispatchOK
<1>4. CASE pipe = <<>> /\ UNCHANGED <<queue, pipe>>
  <2>1. \A u : Located(u) => Located(u)'
    BY <1>1, <1>4 DEF Located
  <2>2. pos' \in 0 .. Len(queue')
    BY <1>2, <1>3, <1>4
  <2>3. TitanicTypeOK'
    BY <1>0, <1>1, <1>4, <2>2 DEF TitanicTypeOK
  <2>4. OnceOK' /\ DispatchOK' /\ Processed'
    BY <1>0, <1>1, <1>3, <1>4 DEF OnceOK, DispatchOK, Processed, Issued
  <2> QED BY <1>1, <2>1, <2>3, <2>4, UnmovedKeeps DEF IInv, Steady
<1>5. CASE pipe # <<>> /\ queue' = Append(queue, [uuid |-> Head(pipe), mark |-> "-"]) /\ pipe' = Tail(pipe)
  <2> DEFINE n == Len(queue)
             e == [uuid |-> pipe[1], mark |-> "-"]
  <2>1. /\ 1 \in DOMAIN pipe /\ pipe[1] \in Uuid /\ Head(pipe) = pipe[1]
        /\ pipe' \in Seq(Uuid) /\ \A i \in DOMAIN pipe' : i + 1 \in DOMAIN pipe /\ pipe'[i] = pipe[i + 1] /\ i + 1 # 1
        /\ \A i \in DOMAIN pipe : i = 1 \/ (i - 1 \in DOMAIN pipe' /\ pipe'[i - 1] = pipe[i])
        /\ \A i, j \in DOMAIN pipe' : i + 1 = j + 1 => i = j
    BY <1>2, <1>5
  <2>2. e \in QueueEntry /\ e.uuid = pipe[1] /\ e.mark = "-"
    BY <2>1 DEF QueueEntry
  <2>3. queue' = Append(queue, e)
    BY <1>5, <2>1
  <2> HIDE DEF e
  <2>4. /\ queue' \in Seq(QueueEntry) /\ Len(queue') = n + 1 /\ n \in Nat
        /\ DOMAIN queue' = DOMAIN queue \cup {n + 1} /\ n + 1 \notin DOMAIN queue
        /\ queue'[n + 1] = e /\ \A i \in DOMAIN queue : queue'[i] = queue[i]
    BY <1>2, <2>2, <2>3
  <2> HIDE DEF n
  <2>5. \A u : Located(u) => Located(u)'
    <3>1. \A u : u \in ToSet(pipe) => u \in ToSet(pipe') \/ u = pipe[1]
      BY <2>1 DEF ToSet
    <3>2. \A i \in DOMAIN queue : i \in DOMAIN queue' /\ queue'[i] = queue[i]
      BY <2>4
    <3>3. n + 1 \in DOMAIN queue' /\ queue'[n + 1].uuid = pipe[1]
      BY <2>2, <2>4
    <3> QED BY <1>1, <3>1, <3>2, <3>3 DEF Located
  <2>6. TitanicTypeOK'
    <3>1. pos' \in 0 .. Len(queue')
      BY <1>3, <2>4
    <3> QED BY <1>0, <1>1, <2>1, <2>4, <3>1 DEF TitanicTypeOK, QueueEntry
  <2>7. OnceOK'
    BY <1>0, <1>1, <2>1, <2>2, <2>4 DEF OnceOK, Issued
  <2>8. DispatchOK' /\ Processed'
    BY <1>0, <1>1, <1>3, <2>2, <2>4 DEF DispatchOK, Processed
  <2> QED BY <1>1, <2>5, <2>6, <2>7, <2>8, UnmovedKeeps DEF IInv, Steady
<1> QED BY <1>4, <1>5 DEF Poll

\* The dispatcher looks at an entry, and calls the service or does not: what it leaves
\* to be marked without a reply is closed.
LEMMA LookStep ==
    ASSUME IInv, Look \/ NoAnswer \/ AnswerCame
    PROVE  IInv'
<1> USE DEF files, dispatcher, ghosts
<1>0. TitanicTypeOK /\ ClosedOK /\ OnceOK /\ DispatchOK /\ Processed
  BY DEF IInv, Steady
<1>1. /\ pos \in DOMAIN queue /\ Unmoved
      /\ UNCHANGED <<req, rep, pipe, queue, calls, thread, client, uuids, crashes, acked, closed, dropped>>
  BY DEF Look, NoAnswer, AnswerCame, AtEntry, Unmoved
<1>2. \/ Advance
      \/ pos' = pos /\ step' \in {"call", "save"} /\ queue[pos].mark = "-"
      \/ pos' = pos /\ step' = "mark" /\ queue[pos].mark = "-" /\ queue[pos].uuid \notin req
  <2>1. CASE Look
    <3>1. queue[pos].mark \in {"-", "+"}
      BY <1>0, <1>1, QueueEntries
    <3>2. CASE queue[pos].mark = "+"
      BY <2>1, <3>2 DEF Look, Entry
    <3>3. CASE queue[pos].mark = "-" /\ queue[pos].uuid \notin req
      BY <2>1, <3>3 DEF Look, Entry
    <3>4. CASE queue[pos].mark = "-" /\ queue[pos].uuid \in req
      BY <2>1, <3>4 DEF Look, Entry
    <3> QED BY <3>1, <3>2, <3>3, <3>4
  <2>2. CASE NoAnswer
    BY <2>2 DEF NoAnswer
  <2>3. CASE AnswerCame
    BY <1>0, <2>3 DEF AnswerCame, AtEntry, DispatchOK
  <2> QED BY <2>1, <2>2, <2>3
<1>3. pos' \in 0 .. Len(queue') /\ step' \in {"look", "call", "save", "close", "mark"}
  BY <1>0, <1>1, <1>2, QueueEntries DEF Advance
<1>4. TitanicTypeOK'
  BY <1>0, <1>1, <1>3 DEF TitanicTypeOK
<1>5. OnceOK' /\ Processed'
  BY <1>0, <1>1 DEF OnceOK, Processed, Issued
<1>6. DispatchOK'
  <2>1. queue[pos].uuid \in Issued
    BY <1>0, <1>1 DEF OnceOK
  <2>2. queue[pos].uuid \notin req => queue[pos].uuid \in closed
    BY <1>0, <2>1 DEF ClosedOK
  <2> QED BY <1>1, <1>2, <2>2 DEF DispatchOK, Advance
<1>7. \A u : Located(u) => Located(u)'
  BY <1>1 DEF Located
<1> QED BY <1>1, <1>4, <1>5, <1>6, <1>7, UnmovedKeeps DEF IInv, Steady

\* The reply file of the entry is made, or filled: no entry that is marked has it.
LEMMA ReplyStep ==
    ASSUME IInv, OpenReply \/ SaveReply
    PROVE  IInv'
<1> USE DEF files, dispatcher, ghosts
<1>0. TitanicTypeOK /\ OnceOK /\ DispatchOK /\ Processed
  BY DEF IInv, Steady
<1> DEFINE u == queue[pos].uuid
<1>1. /\ pos \in DOMAIN queue /\ Unmoved
      /\ UNCHANGED <<req, pipe, queue, pos, calls, thread, client, uuids, crashes, acked, closed, dropped>>
  BY DEF OpenReply, SaveReply, AtEntry, Unmoved
<1>2. /\ u \in Uuid /\ queue[pos].mark = "-" /\ rep \in [Uuid -> {"none", "half", "whole"}]
      /\ \A i \in DOMAIN queue : queue[i].uuid \in Uuid
      /\ \A i \in DOMAIN queue : queue[i].mark = "+" => queue[i].uuid # u
  <2>1. queue[pos].mark = "-"
    BY <1>0 DEF OpenReply, SaveReply, AtEntry, DispatchOK
  <2> QED BY <1>0, <1>1, <2>1, QueueEntries DEF TitanicTypeOK, OnceOK
<1>3. /\ rep' \in [Uuid -> {"none", "half", "whole"}]
      /\ \A x \in Uuid \ {u} : rep'[x] = rep[x]
      /\ \/ step' = "close" /\ rep'[u] = "half"
         \/ step' = "mark" /\ (rep'[u] = "whole" \/ u \in closed)
  <2>1. CASE OpenReply
    BY <1>2, <2>1 DEF OpenReply, Entry
  <2>2. CASE SaveReply
    <3>1. step = "close" /\ step' = "mark" /\ rep' = [rep EXCEPT ![u] = IF @ = "none" THEN "none" ELSE "whole"]
      BY <2>2 DEF SaveReply, AtEntry, Entry
    <3>2. rep[u] # "none" \/ u \in closed
      BY <1>0, <3>1 DEF DispatchOK
    <3> QED BY <1>2, <3>1, <3>2
  <2> QED BY <2>1, <2>2
<1>4. TitanicTypeOK'
  BY <1>0, <1>1, <1>3 DEF TitanicTypeOK
<1>5. OnceOK'
  BY <1>0, <1>1 DEF OnceOK, Issued
<1>6. DispatchOK'
  BY <1>1, <1>2, <1>3 DEF DispatchOK
<1>7. Processed'
  BY <1>0, <1>1, <1>2, <1>3 DEF Processed
<1>8. \A x : Located(x) => Located(x)'
  BY <1>1 DEF Located
<1> QED BY <1>1, <1>4, <1>5, <1>6, <1>7, <1>8, UnmovedKeeps DEF IInv, Steady

\* The entry is marked: its reply is whole, or nobody wants it any more.
LEMMA MarkStep ==
    ASSUME IInv, Mark
    PROVE  IInv'
<1> USE DEF files, dispatcher, ghosts
<1>0. TitanicTypeOK /\ OnceOK /\ DispatchOK /\ Processed
  BY DEF IInv, Steady
<1>1. /\ pos \in DOMAIN queue /\ step = "mark" /\ Unmoved /\ Advance
      /\ UNCHANGED <<req, rep, pipe, calls, thread, client, uuids, crashes, acked, closed, dropped>>
  BY DEF Mark, AtEntry, Unmoved
<1>2. queue \in Seq(QueueEntry) /\ Len(queue) \in Nat /\ DOMAIN queue = 1 .. Len(queue)
  BY <1>0, QueueEntries
<1> DEFINE e == [queue[pos] EXCEPT !.mark = "+"]
<1>3. e \in QueueEntry /\ e.uuid = queue[pos].uuid /\ e.mark = "+"
  <2>1. \A x \in QueueEntry : LET y == [x EXCEPT !.mark = "+"] IN y \in QueueEntry /\ y.uuid = x.uuid /\ y.mark = "+"
    BY DEF QueueEntry
  <2> QED BY <1>0, <1>1, <2>1, QueueEntries
<1>4. queue' = [queue EXCEPT ![pos] = e]
  BY DEF Mark
<1> HIDE DEF e
<1>5. /\ queue' \in Seq(QueueEntry) /\ Len(queue') = Len(queue) /\ DOMAIN queue' = DOMAIN queue
      /\ \A i \in DOMAIN queue : queue'[i].uuid = queue[i].uuid /\ (i # pos => queue'[i] = queue[i])
  BY <1>1, <1>2, <1>3, <1>4
<1>6. pos' \in 0 .. Len(queue') /\ step' = "look"
  BY <1>1, <1>2, <1>5 DEF Advance
<1>7. TitanicTypeOK'
  BY <1>0, <1>1, <1>5, <1>6 DEF TitanicTypeOK, QueueEntry
<1>8. OnceOK'
  BY <1>0, <1>1, <1>5 DEF OnceOK, Issued
<1>9. DispatchOK'
  BY <1>6 DEF DispatchOK
<1>10. Processed'
  BY <1>0, <1>1, <1>5 DEF Processed, DispatchOK
<1>11. \A x : Located(x) => Located(x)'
  BY <1>1, <1>5 DEF Located
<1> QED BY <1>1, <1>7, <1>8, <1>9, <1>10, <1>11, UnmovedKeeps DEF IInv, Steady

\* After a crash the files are what they were.
LEMMA CrashStep ==
    ASSUME IInv, Crash
    PROVE  IInv'
<1> USE DEF files
<1>0. TitanicTypeOK /\ ThreadsOK /\ CallsOK /\ ClosedOK /\ OnceOK /\ Processed
  BY DEF IInv, Steady
<1>1. /\ thread' = [v \in Service |-> Idle] /\ pipe' = <<>> /\ pos' = 0 /\ step' = "look"
      /\ crashes < MaxCrashes /\ crashes' = crashes + 1
      /\ dropped' = dropped \cup ToSet(pipe)
           \cup IF thread["request"].at = "saved" THEN {thread["request"].call.uuid} ELSE {}
      /\ UNCHANGED <<calls, req, rep, queue, client, uuids, acked, closed>>
  BY DEF Crash, Restarts
<1>2. \A v \in Service : thread'[v].at = "idle" /\ thread'[v] \in ThreadState
  BY <1>1 DEF Idle, ThreadState
<1>3. dropped' \subseteq Uuid
  <2>1. ToSet(pipe) \subseteq Uuid
    BY <1>0 DEF TitanicTypeOK, ToSet
  <2>2. thread["request"].at = "saved" => thread["request"].call.uuid \in Uuid
    BY <1>0, UuidType DEF ThreadsOK, Service, Issued, Call, NoUuid
  <2> QED BY <1>0, <1>1, <2>1, <2>2 DEF TitanicTypeOK
<1>4. TitanicTypeOK'
  <2>1. crashes' \in 0 .. MaxCrashes
    BY <1>0, <1>1, TitanicAssumption DEF TitanicTypeOK
  <2>2. pos' \in 0 .. Len(queue') /\ pipe' \in Seq(Uuid)
    BY <1>0, <1>1, QueueEntries
  <2>3. thread' \in [Service -> ThreadState]
    BY <1>1, <1>2
  <2> QED BY <1>0, <1>1, <1>3, <2>1, <2>2, <2>3 DEF TitanicTypeOK, ThreadState
<1>5. Issued' = Issued /\ \A u : (Located(u) => Located(u)') /\ (Told(u) => Told(u)')
  BY <1>1 DEF Issued, Located, Told
<1>6. ThreadsOK'
  BY <1>2 DEF ThreadsOK, Service
<1>7. CallsOK'
  BY <1>0, <1>1, <1>5 DEF CallsOK
<1>8. ClosedOK'
  BY <1>0, <1>1, <1>2, <1>5 DEF ClosedOK, Service
<1>9. OnceOK'
  BY <1>0, <1>1, <1>2, <1>5 DEF OnceOK, Service
<1>10. DispatchOK' /\ Processed'
  BY <1>0, <1>1 DEF DispatchOK, Processed
<1> QED BY <1>4, <1>6, <1>7, <1>8, <1>9, <1>10 DEF IInv, Steady

-----------------------------------------------------------------------------
(* Theorems. *)

LEMMA InitIInv == TitanicInit => IInv
<1> SUFFICES ASSUME TitanicInit PROVE IInv
  OBVIOUS
<1>1. TitanicTypeOK
  BY TitanicInitType
<1>2. DOMAIN queue = {} /\ DOMAIN pipe = {} /\ Issued = {}
  BY DEF TitanicInit, Issued
<1>3. \A v \in Service : thread[v].at = "idle" /\ DOMAIN calls[v] = {}
  BY DEF TitanicInit, Idle
<1>4. ThreadsOK
  BY <1>3 DEF ThreadsOK, Service
<1>5. CallsOK /\ ClosedOK
  BY <1>2, <1>3 DEF CallsOK, ClosedOK, Service, TitanicInit
<1>6. OnceOK /\ DispatchOK /\ Processed
  BY <1>2, <1>3 DEF OnceOK, DispatchOK, Processed, Service, TitanicInit
<1> QED BY <1>1, <1>4, <1>5, <1>6 DEF IInv, Steady

LEMMA NextIInv == IInv /\ [TitanicNext]_titanicVars => IInv'
<1> SUFFICES ASSUME IInv, [TitanicNext]_titanicVars PROVE IInv'
  OBVIOUS
<1>1. ASSUME NEW c \in Client, ClientNext(c) PROVE IInv'
  BY <1>1, ClientStep
<1>2. CASE RequestNext
  <2>1. CASE RequestAnswer
    BY <2>1, AnswerStep DEF RequestAnswer, files, Service
  <2> QED BY <1>2, <2>1, SaveStep, PipeStep DEF RequestNext
<1>3. CASE ReplyNext
  <2>1. CASE ReplyLoad
    BY <2>1, AnswerStep DEF ReplyLoad, files, Service
  <2>2. CASE ReplyLookup
    BY <2>2, AnswerStep DEF ReplyLookup, files, Service
  <2> QED BY <1>3, <2>1, <2>2, TakeStep DEF ReplyNext
<1>4. CASE CloseNext
  <2>1. CASE CloseReply
    BY <2>1, AnswerStep DEF CloseReply, Service
  <2> QED BY <1>4, <2>1, TakeStep DEF CloseNext
<1>5. CASE DispatcherNext
  BY <1>5, PollStep, LookStep, ReplyStep, MarkStep DEF DispatcherNext
<1>6. CASE Crash
  BY <1>6, CrashStep
<1>7. CASE UNCHANGED titanicVars
  BY <1>7 DEF titanicVars, files, dispatcher, ghosts, IInv, Steady, TitanicTypeOK, ThreadsOK, CallsOK,
              ClosedOK, OnceOK, DispatchOK, Processed, Told, Located, Issued
<1> QED BY <1>1, <1>2, <1>3, <1>4, <1>5, <1>6, <1>7 DEF TitanicNext

LEMMA SpecIInv == TitanicSpec => []IInv
BY InitIInv, NextIInv, PTL DEF TitanicSpec

\* The types of all variables: no thread, file or queue entry is anything else
\* (titanic.c, ticlient.c).
THEOREM TitanicTypes == TitanicSpec => []TitanicTypeOK
<1>1. IInv => TitanicTypeOK
  BY DEF IInv
<1> QED BY <1>1, SpecIInv, PTL

\* The dispatcher marks a request only when its reply is whole or the client has closed
\* it, for any number of clients, retries and crashes (titanic.c:225-256).
THEOREM MarkedIsAnswered == TitanicSpec => []Processed
<1>1. IInv => Processed
  BY DEF IInv, Steady
<1> QED BY <1>1, SpecIInv, PTL

\* What a client was told of is on disk until it closes it, and is answered, or queued,
\* or was caught in the pipe by a crash (titanic.c:61-92, 203-256).
THEOREM ToldIsKept == TitanicSpec => []Kept
<1>1. IInv => Kept
  <2> SUFFICES ASSUME IInv, NEW u \in acked \ closed
               PROVE  /\ u \in req
                      /\ \/ rep[u] = "whole"
                         \/ u \in ToSet(pipe) \cup dropped
                         \/ [uuid |-> u, mark |-> "-"] \in ToSet(queue)
    BY DEF Kept
  <2>0. TitanicTypeOK /\ CallsOK /\ ClosedOK /\ Processed
    BY DEF IInv, Steady
  <2>1. u \in Issued /\ Located(u)
    BY <2>0 DEF CallsOK, Told
  <2>2. u \in req
    BY <2>0, <2>1 DEF ClosedOK
  <2>3. CASE u \in {queue[i].uuid : i \in DOMAIN queue}
    <3>1. PICK i \in DOMAIN queue : queue[i].uuid = u
      BY <2>3
    <3>2. queue[i] \in QueueEntry
      BY <2>0, QueueEntries
    <3>3. CASE queue[i].mark = "-"
      <4>1. queue[i] = [uuid |-> u, mark |-> "-"]
        BY <3>1, <3>2, <3>3 DEF QueueEntry
      <4> QED BY <2>2, <4>1 DEF ToSet
    <3>4. CASE queue[i].mark = "+"
      BY <2>0, <2>2, <3>1, <3>4 DEF Processed
    <3> QED BY <2>0, <3>3, <3>4, QueueEntries
  <2> QED BY <2>1, <2>2, <2>3 DEF Located
<1> QED BY <1>1, SpecIInv, PTL

-----------------------------------------------------------------------------
(* No fatal error.  A client waits for one call at a time, and the service of *)
(* that call gets no other of its calls after it; so a request is closed when *)
(* nobody asks for its reply any more.                                        *)

LastLive(list)  == \A i, j \in DOMAIN list : list[i].live /\ i < j => list[j].client # list[i].client
NoneOf(list, c) == \A i \in DOMAIN list : list[i].client # c
NoLive(list, c) == \A i \in DOMAIN list : list[i].live => list[i].client # c

\* The call that a client waits for is the last of its calls in the line of a service,
\* the call in the hands of the service's thread included.
OneCall ==
    \A v \in Service :
       /\ LastLive(calls[v])
       /\ \A i \in DOMAIN calls[v] : calls[v][i].live => client[calls[v][i].client].at = v
       /\ thread[v].at # "idle" /\ thread[v].call.live =>
             /\ client[thread[v].call.client].at = v
             /\ NoneOf(calls[v], thread[v].call.client)

\* A uuid is known to the client it was given to, and to no other.
OwnersOK ==
    /\ \A c \in Client : client[c].uuid \in Issued \cup {NoUuid}
    /\ \A c, d \in Client : client[c].uuid = client[d].uuid => client[c].uuid = NoUuid \/ c = d
    /\ \A v \in {"reply", "close"} :
          /\ \A i \in DOMAIN calls[v] : client[calls[v][i].client].uuid = calls[v][i].uuid
          /\ thread[v].at # "idle" => client[thread[v].call.client].uuid = thread[v].call.uuid
    /\ thread["request"].at # "idle" =>
          \A c \in Client : client[c].uuid # thread["request"].call.uuid

\* The reply of a request that is closed is not asked for.
OpenOK ==
    /\ closed \subseteq {client[c].uuid : c \in Client}
    /\ \A c \in Client : client[c].at = "reply" => client[c].uuid \notin closed
    /\ \A i \in DOMAIN calls["reply"] : calls["reply"][i].uuid \notin closed
    /\ thread["reply"].at # "idle" => thread["reply"].call.uuid \notin closed

Callers == OneCall /\ OwnersOK /\ OpenOK /\ NoFatalError

LEMMA PushLine ==
    ASSUME NEW list \in Seq(Call), NEW new \in Call, LastLive(list), NoLive(list, new.client)
    PROVE  LastLive(Append(list, new))
<1>1. /\ Len(list) \in Nat /\ DOMAIN list = 1 .. Len(list)
      /\ DOMAIN Append(list, new) = 1 .. (Len(list) + 1)
      /\ \A i \in 1 .. Len(list) : Append(list, new)[i] = list[i]
      /\ Append(list, new)[Len(list) + 1] = new
  OBVIOUS
<1> QED BY <1>1 DEF LastLive, NoLive

LEMMA PopLine ==
    ASSUME NEW list \in Seq(Call), list # <<>>, LastLive(list)
    PROVE  /\ LastLive(Tail(list))
           /\ Head(list).live => NoneOf(Tail(list), Head(list).client)
<1>1. /\ Len(list) \in Nat \ {0} /\ DOMAIN list = 1 .. Len(list)
      /\ DOMAIN Tail(list) = 1 .. (Len(list) - 1)
      /\ \A i \in 1 .. (Len(list) - 1) : Tail(list)[i] = list[i + 1]
      /\ Head(list) = list[1]
  OBVIOUS
<1> QED BY <1>1 DEF LastLive, NoneOf

\* A line from which client c waits for nothing that was in it before, and to which
\* c may have added a call under one of these uuids.
Grown(list, old, c, us) ==
    /\ LastLive(list)
    /\ \A d : d # c /\ NoneOf(old, d) => NoneOf(list, d)
    /\ \A i \in DOMAIN list :
          \/ /\ i \in DOMAIN old
             /\ list[i].client = old[i].client /\ list[i].uuid = old[i].uuid
             /\ list[i].live => old[i].live /\ old[i].client # c
          \/ list[i].client = c /\ list[i].uuid \in us

AreLines(held) == held \in [Service -> Seq(Call)]
IsAdded(cs, held, c, v, u) == cs = Added(held, c, v, u)

LEMMA SameLine ==
    ASSUME NEW list, NEW c, NEW us, LastLive(list), NoLive(list, c)
    PROVE  Grown(list, list, c, us)
BY DEF Grown, NoLive

LEMMA GrownTwice ==
    ASSUME NEW list, NEW held, NEW old, NEW c, NEW us, Grown(list, held, c, us), Grown(held, old, c, {})
    PROVE  Grown(list, old, c, us)
BY DEF Grown

LEMMA HeldLine ==
    ASSUME TitanicTypeOK, NEW c \in Client, NEW v \in Service, LastLive(calls[v])
    PROVE  Grown(BrokerHolds(c)[v], calls[v], c, {}) /\ NoLive(BrokerHolds(c)[v], c)
<1>1. calls[v] \in Seq(Call)
  BY DEF TitanicTypeOK
<1>2. \A x \in Call : /\ Orphaned(c, x).client = x.client /\ Orphaned(c, x).uuid = x.uuid
                      /\ Orphaned(c, x).live <=> x.live /\ x.client # c
  BY DEF Orphaned, Call
<1>3. BrokerHolds(c)[v] = [i \in DOMAIN calls[v] |-> Orphaned(c, calls[v][i])]
  BY DEF BrokerHolds
<1>4. \A i \in DOMAIN calls[v] : calls[v][i] \in Call
  BY <1>1
<1>5. DOMAIN BrokerHolds(c)[v] = DOMAIN calls[v]
      /\ \A i \in DOMAIN calls[v] : BrokerHolds(c)[v][i] = Orphaned(c, calls[v][i])
  BY <1>3
<1>6. \A i \in DOMAIN calls[v] :
         /\ BrokerHolds(c)[v][i].client = calls[v][i].client
         /\ BrokerHolds(c)[v][i].uuid = calls[v][i].uuid
         /\ BrokerHolds(c)[v][i].live <=> calls[v][i].live /\ calls[v][i].client # c
  BY <1>2, <1>4, <1>5
<1>7. LastLive(BrokerHolds(c)[v])
  BY <1>5, <1>6 DEF LastLive
<1>8. NoLive(BrokerHolds(c)[v], c) /\ \A d : NoneOf(calls[v], d) => NoneOf(BrokerHolds(c)[v], d)
  BY <1>5, <1>6 DEF NoLive, NoneOf
<1> QED BY <1>5, <1>6, <1>7, <1>8 DEF Grown

\* A line with a new call of client c, who waits for none in it.
LEMMA AddedLine ==
    ASSUME NEW held, AreLines(held), NEW c \in Client, NEW v \in Service,
           NEW u \in Uuid \cup {NoUuid}, NEW cs, IsAdded(cs, held, c, v, u),
           LastLive(held[v]), NoLive(held[v], c)
    PROVE  Grown(cs[v], held[v], c, {u})
<1> DEFINE new == [client |-> c, uuid |-> u, live |-> TRUE]
<1>0. held \in [Service -> Seq(Call)]
  BY DEF AreLines
<1>1. new \in Call /\ new.client = c /\ new.uuid = u /\ held[v] \in Seq(Call)
  BY <1>0 DEF Call
<1>2. cs = [held EXCEPT ![v] = Append(held[v], new)]
  BY DEF Added, IsAdded
<1> HIDE DEF new
<1>3. cs[v] = Append(held[v], new)
  BY <1>0, <1>2
<1>4. \A i \in DOMAIN Append(held[v], new) :
         \/ i \in DOMAIN held[v] /\ Append(held[v], new)[i] = held[v][i]
         \/ Append(held[v], new)[i] = new
  BY <1>1
<1>5. \A d : d # c /\ NoneOf(held[v], d) => NoneOf(Append(held[v], new), d)
  BY <1>1, <1>4 DEF NoneOf
<1>6. LastLive(Append(held[v], new))
  BY <1>1, PushLine
<1>7. \A i \in DOMAIN held[v] : held[v][i].live => held[v][i].client # c
  BY DEF NoLive
<1>8. Grown(Append(held[v], new), held[v], c, {u})
  BY <1>1, <1>4, <1>5, <1>6, <1>7 DEF Grown
<1> QED BY <1>3, <1>8

\* Client c goes on to w under uuid u, and waits for none of its calls before.
Follows(c, w, u) ==
    /\ \A d \in Client \ {c} : client'[d] = client[d]
    /\ client'[c].at = w /\ client'[c].uuid = u
    /\ \A v \in Service : Grown(calls'[v], calls[v], c, IF v = w THEN {u} ELSE {})
    /\ \A v \in Service : thread'[v].at # "idle" =>
          /\ thread'[v].at = thread[v].at
          /\ thread'[v].call.client = thread[v].call.client
          /\ thread'[v].call.uuid = thread[v].call.uuid
          /\ thread'[v].call.live => thread[v].call.live /\ thread[v].call.client # c

LEMMA CallersExist ==
    ASSUME IInv
    PROVE  \A v \in Service :
              /\ \A i \in DOMAIN calls[v] : calls[v][i] \in Call /\ calls[v][i].client \in Client
              /\ thread[v].at # "idle" => thread[v].call.client \in Client
<1>1. \A x \in Call : x.client \in Client
  BY DEF Call
<1>2. calls \in [Service -> Seq(Call)]
  BY DEF IInv, TitanicTypeOK
<1>3. \A v \in Service : calls[v] \in Seq(Call)
  BY <1>2
<1>4. \A v \in Service : \A i \in DOMAIN calls[v] : calls[v][i] \in Call
  BY <1>3
<1> QED BY <1>1, <1>4 DEF IInv, Steady, ThreadsOK

LEMMA FollowsOne ==
    ASSUME IInv, OneCall, NEW c \in Client, NEW w, NEW u, Follows(c, w, u)
    PROVE  OneCall'
<1> SUFFICES ASSUME NEW v \in Service
             PROVE  /\ LastLive(calls'[v])
                    /\ \A i \in DOMAIN calls'[v] :
                          calls'[v][i].live => client'[calls'[v][i].client].at = v
                    /\ thread'[v].at # "idle" /\ thread'[v].call.live =>
                          /\ client'[thread'[v].call.client].at = v
                          /\ NoneOf(calls'[v], thread'[v].call.client)
  BY DEF OneCall
<1>1. /\ \A i \in DOMAIN calls[v] : calls[v][i].live => client[calls[v][i].client].at = v
      /\ thread[v].at # "idle" /\ thread[v].call.live =>
            /\ client[thread[v].call.client].at = v
            /\ NoneOf(calls[v], thread[v].call.client)
  BY DEF OneCall
<1>2. Grown(calls'[v], calls[v], c, IF v = w THEN {u} ELSE {})
  BY DEF Follows
<1>3. LastLive(calls'[v])
  BY <1>2 DEF Grown
<1>4. \A i \in DOMAIN calls[v] : calls[v][i].client \in Client
  BY CallersExist
<1>5. \A d \in Client \ {c} : client'[d] = client[d]
  BY DEF Follows
<1>6. \A i \in DOMAIN calls'[v] : calls'[v][i].live => client'[calls'[v][i].client].at = v
  <2> SUFFICES ASSUME NEW i \in DOMAIN calls'[v], calls'[v][i].live
               PROVE  client'[calls'[v][i].client].at = v
    OBVIOUS
  <2>1. CASE /\ i \in DOMAIN calls[v]
             /\ calls'[v][i].client = calls[v][i].client
             /\ calls'[v][i].live => calls[v][i].live /\ calls[v][i].client # c
    BY <1>1, <1>4, <1>5, <2>1
  <2>2. CASE calls'[v][i].client = c /\ calls'[v][i].uuid \in IF v = w THEN {u} ELSE {}
    BY <2>2 DEF Follows
  <2> QED BY <1>2, <2>1, <2>2 DEF Grown
<1>7. ASSUME thread'[v].at # "idle", thread'[v].call.live
      PROVE  /\ client'[thread'[v].call.client].at = v
             /\ NoneOf(calls'[v], thread'[v].call.client)
  <2>1. /\ thread[v].at # "idle" /\ thread[v].call.live /\ thread[v].call.client # c
        /\ thread'[v].call.client = thread[v].call.client
    BY <1>7 DEF Follows
  <2>2. thread[v].call.client \in Client
    BY <2>1, CallersExist
  <2>3. client'[thread[v].call.client].at = v
    BY <1>1, <1>5, <2>1, <2>2
  <2>4. NoneOf(calls'[v], thread[v].call.client)
    BY <1>1, <1>2, <2>1 DEF Grown
  <2> QED BY <2>1, <2>3, <2>4
<1> QED BY <1>3, <1>6, <1>7

\* Client c keeps its uuid, or had none and gets one that no client has.
LEMMA FollowsOwners ==
    ASSUME IInv, OwnersOK, NEW c \in Client, NEW w, NEW u \in Issued \cup {NoUuid}, Follows(c, w, u),
           uuids' = uuids,
           \/ u = client[c].uuid
           \/ /\ client[c].uuid = NoUuid /\ \A d \in Client : client[d].uuid # u
              /\ thread'["request"].at = "idle"
    PROVE  OwnersOK'
<1>1. /\ \A d \in Client \ {c} : client'[d] = client[d]
      /\ client'[c].uuid = u
  BY DEF Follows
<1>2. Issued' = Issued /\ NoUuid \notin Issued
  BY DEF Issued, NoUuid
<1>3. \A d \in Client : client'[d].uuid = client[d].uuid \/ d = c
  BY <1>1
<1>4. \A d \in Client : client'[d].uuid \in Issued' \cup {NoUuid}
  BY <1>1, <1>2, <1>3 DEF OwnersOK
<1>5. \A d, e \in Client : client'[d].uuid = client'[e].uuid => client'[d].uuid = NoUuid \/ d = e
  BY <1>1, <1>3 DEF OwnersOK
<1>6. \A d \in Client : client[d].uuid \in Issued => client'[d].uuid = client[d].uuid
  BY <1>1, <1>2
<1>7. ASSUME NEW v \in {"reply", "close"}
      PROVE  /\ \A i \in DOMAIN calls'[v] : client'[calls'[v][i].client].uuid = calls'[v][i].uuid
             /\ thread'[v].at # "idle" => client'[thread'[v].call.client].uuid = thread'[v].call.uuid
  <2>0. v \in Service
    BY DEF Service
  <2>1. Grown(calls'[v], calls[v], c, IF v = w THEN {u} ELSE {})
    BY <2>0 DEF Follows
  <2>2. \A i \in DOMAIN calls[v] :
           /\ calls[v][i].client \in Client
           /\ client[calls[v][i].client].uuid = calls[v][i].uuid
           /\ calls[v][i].uuid \in Issued
    BY <2>0, CallersExist DEF OwnersOK, IInv, Steady, CallsOK, Told
  <2>3. \A i \in DOMAIN calls'[v] : client'[calls'[v][i].client].uuid = calls'[v][i].uuid
    BY <1>1, <1>6, <2>1, <2>2 DEF Grown
  <2>4. thread[v].at # "idle" =>
           /\ thread[v].call.client \in Client /\ thread[v].call.uuid \in Issued
           /\ client[thread[v].call.client].uuid = thread[v].call.uuid
    BY <2>0, CallersExist DEF OwnersOK, IInv, Steady, ThreadsOK
  <2>5. thread'[v].at # "idle" =>
          /\ thread[v].at # "idle"
          /\ thread'[v].call.client = thread[v].call.client
          /\ thread'[v].call.uuid = thread[v].call.uuid
    BY <2>0 DEF Follows
  <2>6. thread'[v].at # "idle" => client'[thread'[v].call.client].uuid = thread'[v].call.uuid
    BY <1>6, <2>4, <2>5
  <2> QED BY <2>3, <2>6
<1>8. thread'["request"].at # "idle" =>
         \A d \in Client : client'[d].uuid # thread'["request"].call.uuid
  <2> SUFFICES ASSUME thread'["request"].at # "idle"
               PROVE  \A d \in Client : client'[d].uuid # thread'["request"].call.uuid
    OBVIOUS
  <2>1. /\ thread["request"].at # "idle"
        /\ thread'["request"].call.uuid = thread["request"].call.uuid
    BY DEF Follows, Service
  <2>2. u = client[c].uuid
    OBVIOUS
  <2>3. \A d \in Client : client'[d].uuid = client[d].uuid
    BY <1>1, <2>2
  <2> QED BY <2>1, <2>3 DEF OwnersOK
<1> QED BY <1>4, <1>5, <1>7, <1>8 DEF OwnersOK

\* Client c does not ask for the reply of a request that is closed.
LEMMA FollowsOpen ==
    ASSUME IInv, OwnersOK, OpenOK, NEW c \in Client, NEW w, NEW u, Follows(c, w, u), closed' = closed,
           client[c].uuid \in {u, NoUuid}, w = "reply" => u \notin closed
    PROVE  OpenOK'
<1>1. /\ \A d \in Client \ {c} : client'[d] = client[d]
      /\ client'[c].uuid = u /\ client'[c].at = w
  BY DEF Follows
<1>2. NoUuid \notin closed
  BY UuidType DEF IInv, TitanicTypeOK, NoUuid
<1>3. closed' \subseteq {client'[d].uuid : d \in Client}
  <2> SUFFICES ASSUME NEW x \in closed
               PROVE  \E d \in Client : client'[d].uuid = x
    OBVIOUS
  <2>1. PICK d \in Client : client[d].uuid = x
    BY DEF OpenOK
  <2>2. CASE d = c
    BY <1>1, <1>2, <2>1, <2>2
  <2>3. CASE d # c
    BY <1>1, <2>1, <2>3
  <2> QED BY <2>2, <2>3
<1>4. \A d \in Client : client'[d].at = "reply" => client'[d].uuid \notin closed
  BY <1>1 DEF OpenOK
<1>5. \A i \in DOMAIN calls'["reply"] : calls'["reply"][i].uuid \notin closed
  <2>1. Grown(calls'["reply"], calls["reply"], c, IF "reply" = w THEN {u} ELSE {})
    BY DEF Follows, Service
  <2> QED BY <2>1 DEF Grown, OpenOK
<1>6. thread'["reply"].at # "idle" => thread'["reply"].call.uuid \notin closed
  BY DEF Follows, OpenOK, Service
<1> QED BY <1>3, <1>4, <1>5, <1>6 DEF OpenOK

\* A client's first call: it waited for none.
LEMMA StartCallers ==
    ASSUME IInv, Callers, NEW c \in Client, ClientStart(c)
    PROVE  Callers'
<1> USE DEF files, dispatcher, ghosts
<1>0. TitanicTypeOK /\ CallsOK /\ OneCall /\ OwnersOK /\ OpenOK /\ NoFatalError
  BY DEF IInv, Steady, Callers
<1>1. /\ client \in [Client -> ClientRecord] /\ calls \in [Service -> Seq(Call)]
      /\ "request" \in Service /\ NoUuid \in Uuid \cup {NoUuid}
  BY <1>0 DEF TitanicTypeOK, ClientRecord, Service
<1>2. /\ client[c].at = "start" /\ IsAdded(calls', calls, c, "request", NoUuid)
      /\ Calls(c, "request", 1, NoUuid)
      /\ UNCHANGED <<thread, req, rep, pipe, queue, pos, step, uuids, crashes, acked, closed, dropped>>
  BY DEF ClientStart, IsAdded
<1>3. /\ client'[c].at = "request" /\ client'[c].uuid = NoUuid /\ client[c].uuid = NoUuid
      /\ \A d \in Client \ {c} : client'[d] = client[d]
  BY <1>0, <1>1, <1>2 DEF Calls, CallsOK
<1>4. \A v \in Service : LastLive(calls[v]) /\ NoLive(calls[v], c)
  BY <1>0, <1>2 DEF OneCall, NoLive, Service
<1>5. \A v \in Service : Grown(calls'[v], calls[v], c, IF v = "request" THEN {NoUuid} ELSE {})
  <2>1. /\ Grown(calls'["request"], calls["request"], c, {NoUuid})
        /\ \A v \in Service \ {"request"} : calls'[v] = calls[v]
    <3>1. AreLines(calls)
      BY <1>1 DEF AreLines
    <3>2. LastLive(calls["request"]) /\ NoLive(calls["request"], c)
      BY <1>1, <1>4
    <3>3. Grown(calls'["request"], calls["request"], c, {NoUuid})
      BY <1>1, <1>2, <3>1, <3>2, AddedLine
    <3>4. \A v \in Service \ {"request"} : calls'[v] = calls[v]
      BY <1>1, <1>2 DEF IsAdded, Added
    <3> QED BY <3>3, <3>4
  <2>2. \A v \in Service \ {"request"} : Grown(calls'[v], calls[v], c, {})
    BY <1>4, <2>1, SameLine
  <2> QED BY <2>1, <2>2
<1>6. \A v \in Service : thread[v].at # "idle" /\ thread[v].call.live => thread[v].call.client # c
  BY <1>0, <1>2 DEF OneCall, Service
<1>7. Follows(c, "request", NoUuid)
  BY <1>2, <1>3, <1>5, <1>6 DEF Follows
<1>8. OneCall' /\ OwnersOK' /\ OpenOK'
  <2>1. OneCall'
    BY <1>0, <1>7, FollowsOne
  <2>2. OwnersOK'
    BY <1>0, <1>2, <1>3, <1>7, FollowsOwners
  <2>3. OpenOK'
    BY <1>0, <1>2, <1>3, <1>7, FollowsOpen
  <2> QED BY <2>1, <2>2, <2>3
<1>9. NoFatalError'
  BY <1>0, <1>2, <1>3 DEF NoFatalError
<1> QED BY <1>8, <1>9 DEF Callers

\* No reply in time: the call is not waited for any more, and the next one, if there is
\* one, names the same request.
LEMMA TimeoutCallers ==
    ASSUME IInv, Callers, NEW c \in Client, ClientTimeout(c)
    PROVE  Callers'
<1> USE DEF files, dispatcher, ghosts
<1>0. TitanicTypeOK /\ ThreadsOK /\ CallsOK /\ OneCall /\ OwnersOK /\ OpenOK /\ NoFatalError
  BY DEF IInv, Steady, Callers
<1>1. /\ client \in [Client -> ClientRecord] /\ calls \in [Service -> Seq(Call)]
      /\ thread \in [Service -> ThreadState] /\ BrokerHolds(c) \in [Service -> Seq(Call)]
  BY <1>0, HeldCalls DEF TitanicTypeOK, ClientRecord, ThreadState
<1>2. PICK at \in Service, u \in Uuid \cup {NoUuid} :
         /\ client[c].at = at /\ client[c].uuid = u
         /\ thread' = [v \in Service |-> [thread[v] EXCEPT !.call = Orphaned(c, @)]]
         /\ \/ Calls(c, at, client[c].try + 1, u) /\ IsAdded(calls', BrokerHolds(c), c, at, u)
            \/ client' = [client EXCEPT ![c] = [client[c] EXCEPT !.at = "gone"]] /\ calls' = BrokerHolds(c)
         /\ UNCHANGED <<req, rep, pipe, queue, pos, step, uuids, crashes, acked, closed, dropped>>
  <2>1. client[c].at \in Service /\ client[c].uuid \in Uuid \cup {NoUuid}
    BY <1>1 DEF ClientTimeout, ClientRecord
  <2> QED BY <2>1 DEF ClientTimeout, BrokerHolds, IsAdded
<1>3. \A v \in Service : thread'[v].at = thread[v].at /\ thread'[v].call = Orphaned(c, thread[v].call)
  <2>1. \A t \in ThreadState :
           /\ [t EXCEPT !.call = Orphaned(c, @)].at = t.at
           /\ [t EXCEPT !.call = Orphaned(c, @)].call = Orphaned(c, t.call)
    BY DEF ThreadState
  <2> QED BY <1>1, <1>2, <2>1
<1>4. \A v \in Service : thread'[v].at # "idle" =>
         /\ thread'[v].call.client = thread[v].call.client
         /\ thread'[v].call.uuid = thread[v].call.uuid
         /\ thread'[v].call.live => thread[v].call.live /\ thread[v].call.client # c
  <2>1. \A x \in Call : /\ Orphaned(c, x).client = x.client /\ Orphaned(c, x).uuid = x.uuid
                        /\ Orphaned(c, x).live => x.live /\ x.client # c
    BY DEF Orphaned, Call
  <2>2. \A v \in Service : thread[v].at # "idle" => thread[v].call \in Call
    BY <1>0 DEF ThreadsOK
  <2> QED BY <1>3, <2>1, <2>2
<1>5. \A v \in Service : Grown(BrokerHolds(c)[v], calls[v], c, {}) /\ NoLive(BrokerHolds(c)[v], c) /\ LastLive(BrokerHolds(c)[v])
  <2> SUFFICES ASSUME NEW v \in Service
               PROVE  Grown(BrokerHolds(c)[v], calls[v], c, {}) /\ NoLive(BrokerHolds(c)[v], c) /\ LastLive(BrokerHolds(c)[v])
    OBVIOUS
  <2>1. LastLive(calls[v])
    BY <1>0 DEF OneCall
  <2>2. Grown(BrokerHolds(c)[v], calls[v], c, {}) /\ NoLive(BrokerHolds(c)[v], c)
    BY <1>0, <2>1, HeldLine
  <2> QED BY <2>2 DEF Grown
<1>6. \E w \in {at, "gone"} : Follows(c, w, u)
  <2>1. CASE Calls(c, at, client[c].try + 1, u) /\ IsAdded(calls', BrokerHolds(c), c, at, u)
    <3>1. /\ client'[c].at = at /\ client'[c].uuid = u
          /\ \A d \in Client \ {c} : client'[d] = client[d]
      BY <1>1, <2>1 DEF Calls
    <3>2. LastLive(BrokerHolds(c)[at]) /\ NoLive(BrokerHolds(c)[at], c)
      BY <1>5
    <3>3. /\ Grown(calls'[at], BrokerHolds(c)[at], c, {u})
          /\ \A v \in Service \ {at} : calls'[v] = BrokerHolds(c)[v]
      <4>1. AreLines(BrokerHolds(c))
        BY <1>1 DEF AreLines
      <4>2. Grown(calls'[at], BrokerHolds(c)[at], c, {u})
        BY <2>1, <3>2, <4>1, AddedLine
      <4>3. \A v \in Service \ {at} : calls'[v] = BrokerHolds(c)[v]
        BY <1>1, <2>1 DEF IsAdded, Added
      <4> QED BY <4>2, <4>3
    <3>4. Grown(calls'[at], calls[at], c, {u})
      BY <1>5, <3>3, GrownTwice
    <3>5. \A v \in Service \ {at} : Grown(calls'[v], calls[v], c, {})
      BY <1>5, <3>3
    <3>6. Follows(c, at, u)
      BY <1>3, <1>4, <3>1, <3>4, <3>5 DEF Follows
    <3> QED BY <3>6
  <2>2. CASE client' = [client EXCEPT ![c] = [client[c] EXCEPT !.at = "gone"]] /\ calls' = BrokerHolds(c)
    <3>1. \A r \in ClientRecord : [r EXCEPT !.at = "gone"].at = "gone" /\ [r EXCEPT !.at = "gone"].uuid = r.uuid
      BY DEF ClientRecord
    <3>2. /\ client'[c].at = "gone" /\ client'[c].uuid = u
          /\ \A d \in Client \ {c} : client'[d] = client[d]
      BY <1>1, <1>2, <2>2, <3>1
    <3>3. \A v \in Service : v # "gone"
      BY DEF Service
    <3>4. Follows(c, "gone", u)
      BY <1>3, <1>4, <1>5, <2>2, <3>2, <3>3 DEF Follows
    <3> QED BY <3>4
  <2> QED BY <1>2, <2>1, <2>2
<1>7. PICK w \in {at, "gone"} : Follows(c, w, u)
  BY <1>6
<1>8. OneCall' /\ OwnersOK' /\ OpenOK'
  <2>1. OneCall'
    BY <1>0, <1>7, FollowsOne
  <2>2. u \in Issued \cup {NoUuid} /\ u = client[c].uuid
    BY <1>0, <1>2 DEF OwnersOK
  <2>3. OwnersOK'
    BY <1>0, <1>2, <1>7, <2>2, FollowsOwners
  <2>4. w = "reply" => u \notin closed
    BY <1>0, <1>2 DEF OpenOK
  <2>5. OpenOK'
    BY <1>0, <1>2, <1>7, <2>4, FollowsOpen
  <2> QED BY <2>1, <2>3, <2>5
<1>9. NoFatalError'
  <2>1. client'[c].at = w /\ \A d \in Client \ {c} : client'[d] = client[d]
    BY <1>7 DEF Follows
  <2>2. w # "failed"
    BY DEF Service
  <2>3. thread'["reply"].at = "load" => rep'[thread'["reply"].call.uuid] # "none"
    BY <1>0, <1>2, <1>3, <1>4 DEF NoFatalError, Service
  <2> QED BY <1>0, <2>1, <2>2, <2>3 DEF NoFatalError
<1> QED BY <1>8, <1>9 DEF Callers

\* Nobody calls, and no reply goes that is not closed.
LEMMA RestCallers ==
    ASSUME IInv, Callers, calls' = calls, client' = client, uuids' = uuids, closed' = closed,
           \A v \in Service : thread'[v].at # "idle" =>
                                 thread[v].at # "idle" /\ thread'[v].call = thread[v].call,
           thread'["reply"].at \in {"idle", thread["reply"].at},
           \A u \in Uuid \ closed : rep[u] # "none" => rep'[u] # "none"
    PROVE  Callers'
<1>0. TitanicTypeOK /\ ThreadsOK /\ OneCall /\ OwnersOK /\ OpenOK /\ NoFatalError
  BY DEF IInv, Steady, Callers
<1>1. OneCall'
  BY <1>0 DEF OneCall
<1>2. OwnersOK'
  BY <1>0 DEF OwnersOK, Issued, Service
<1>3. OpenOK'
  BY <1>0 DEF OpenOK, Service
<1>4. NoFatalError'
  <2>1. ASSUME thread'["reply"].at = "load" PROVE rep'[thread'["reply"].call.uuid] # "none"
    <3>1. thread["reply"].at = "load" /\ thread'["reply"].call = thread["reply"].call
      BY <2>1 DEF Service
    <3>2. thread["reply"].call.uuid \in Issued /\ thread["reply"].call \in Call
      BY <1>0, <3>1 DEF ThreadsOK, Service
    <3>3. thread["reply"].call.uuid \in Uuid
      BY <3>2, UuidType DEF Call, Issued, NoUuid
    <3>4. thread["reply"].call.uuid \notin closed
      BY <1>0, <3>1 DEF OpenOK
    <3> QED BY <1>0, <3>1, <3>3, <3>4 DEF NoFatalError
  <2> QED BY <1>0, <2>1 DEF NoFatalError
<1> QED BY <1>1, <1>2, <1>3, <1>4 DEF Callers

\* The call that a thread takes is the first of its line.
LEMMA TakesOne ==
    ASSUME IInv, OneCall, NEW v \in Service, NEW at \in {"saved", "load", "lookup", "delete"},
           NEW u \in Uuid \cup {NoUuid}, Takes(v, at, u), client' = client
    PROVE  /\ OneCall'
           /\ \A w \in Service : \A i \in DOMAIN calls'[w] : \E j \in DOMAIN calls[w] : calls'[w][i] = calls[w][j]
           /\ \A w \in Service \ {v} : thread'[w] = thread[w]
           /\ thread'[v].at = at
           /\ \E j \in DOMAIN calls[v] :
                 /\ Head(calls[v]) = calls[v][j]
                 /\ thread'[v].call.client = calls[v][j].client
                 /\ thread'[v].call.uuid = IF calls[v][j].uuid = NoUuid THEN u ELSE calls[v][j].uuid
<1>1. /\ calls \in [Service -> Seq(Call)] /\ thread \in [Service -> ThreadState] /\ TitanicTypeOK
  BY DEF IInv, TitanicTypeOK, ThreadState
<1>2. calls[v] \in Seq(Call) /\ calls[v] # <<>>
  BY <1>1 DEF Takes
<1> DEFINE head == Head(calls[v])
           call == [head EXCEPT !.uuid = IF @ = NoUuid THEN u ELSE @]
<1>3. head \in Call /\ head = calls[v][1] /\ 1 \in DOMAIN calls[v]
  BY <1>2
<1>4. /\ call.client = head.client /\ call.live = head.live
      /\ call.uuid = IF head.uuid = NoUuid THEN u ELSE head.uuid
  BY <1>3 DEF Call
<1>5. calls' = [calls EXCEPT ![v] = Tail(calls[v])] /\ thread' = [thread EXCEPT ![v] = [at |-> at, call |-> call]]
  BY DEF Takes
<1> HIDE DEF call
<1>6. /\ calls'[v] = Tail(calls[v]) /\ thread'[v].at = at /\ thread'[v].call = call
      /\ \A w \in Service \ {v} : calls'[w] = calls[w] /\ thread'[w] = thread[w]
  BY <1>1, <1>5
<1>7. \A w \in Service : \A i \in DOMAIN calls'[w] : \E j \in DOMAIN calls[w] : calls'[w][i] = calls[w][j]
  BY <1>1, TakesCalls
<1>8. LastLive(Tail(calls[v])) /\ (head.live => NoneOf(Tail(calls[v]), head.client))
  <2>1. LastLive(calls[v])
    BY DEF OneCall
  <2> QED BY <1>2, <2>1, PopLine
<1>9. OneCall'
  <2> SUFFICES ASSUME NEW w \in Service
               PROVE  /\ LastLive(calls'[w])
                      /\ \A i \in DOMAIN calls'[w] :
                            calls'[w][i].live => client[calls'[w][i].client].at = w
                      /\ thread'[w].at # "idle" /\ thread'[w].call.live =>
                            /\ client[thread'[w].call.client].at = w
                            /\ NoneOf(calls'[w], thread'[w].call.client)
    BY DEF OneCall
  <2>1. \A i \in DOMAIN calls'[w] : calls'[w][i].live => client[calls'[w][i].client].at = w
    BY <1>7 DEF OneCall
  <2>2. CASE w = v
    <3>1. thread'[w].call.live =>
             /\ client[thread'[w].call.client].at = w
             /\ NoneOf(calls'[w], thread'[w].call.client)
      BY <1>3, <1>4, <1>6, <1>8, <2>2 DEF OneCall
    <3> QED BY <1>6, <1>8, <2>1, <2>2, <3>1
  <2>3. CASE w # v
    BY <1>6, <2>1, <2>3 DEF OneCall
  <2> QED BY <2>2, <2>3
<1> QED BY <1>3, <1>4, <1>6, <1>7, <1>9

\* A new request gets a uuid that no client knows.
LEMMA SaveCallers ==
    ASSUME IInv, Callers, RequestSave
    PROVE  Callers'
<1> USE DEF files, dispatcher, ghosts
<1>0. TitanicTypeOK /\ ThreadsOK /\ CallsOK /\ OneCall /\ OwnersOK /\ OpenOK /\ NoFatalError
  BY DEF IInv, Steady, Callers
<1> DEFINE u == uuids + 1
<1>1. /\ u \in Uuid /\ Takes("request", "saved", u) /\ uuids' = u /\ rep' = rep
      /\ client' = client /\ closed' = closed
  BY DEF RequestSave
<1>2. uuids \in Nat /\ u \notin Issued /\ Issued \subseteq Issued' /\ u # NoUuid
  BY <1>0, <1>1, UuidType DEF TitanicTypeOK, Issued, NoUuid
<1> HIDE DEF u
<1>3. "request" \in Service /\ "reply" \in Service \ {"request"} /\ "close" \in Service \ {"request"}
  BY DEF Service
<1>4. /\ OneCall'
      /\ \A w \in Service : \A i \in DOMAIN calls'[w] : \E j \in DOMAIN calls[w] : calls'[w][i] = calls[w][j]
      /\ \A w \in Service \ {"request"} : thread'[w] = thread[w]
      /\ \E j \in DOMAIN calls["request"] :
            thread'["request"].call.uuid = IF calls["request"][j].uuid = NoUuid THEN u ELSE calls["request"][j].uuid
  BY <1>0, <1>1, <1>3, TakesOne
<1>5. thread'["request"].call.uuid = u
  BY <1>0, <1>4 DEF CallsOK
<1>6. OwnersOK'
  <2>1. \A c \in Client : client[c].uuid \in Issued' \cup {NoUuid} /\ client[c].uuid # u
    BY <1>0, <1>2 DEF OwnersOK
  <2>2. \A v \in {"reply", "close"} :
           /\ \A i \in DOMAIN calls'[v] : client[calls'[v][i].client].uuid = calls'[v][i].uuid
           /\ thread'[v].at # "idle" => client[thread'[v].call.client].uuid = thread'[v].call.uuid
    BY <1>0, <1>3, <1>4 DEF OwnersOK
  <2> QED BY <1>0, <1>1, <1>5, <2>1, <2>2 DEF OwnersOK
<1>7. OpenOK' /\ NoFatalError'
  BY <1>0, <1>1, <1>3, <1>4 DEF OpenOK, NoFatalError
<1> QED BY <1>4, <1>6, <1>7 DEF Callers

\* The reply is loaded only if it is there.
LEMMA TakeCallers ==
    ASSUME IInv, Callers, ReplyTest \/ CloseRequest
    PROVE  Callers'
<1> USE DEF files, dispatcher, ghosts
<1>0. TitanicTypeOK /\ ThreadsOK /\ CallsOK /\ OneCall /\ OwnersOK /\ OpenOK /\ NoFatalError
  BY DEF IInv, Steady, Callers
<1>1. PICK v \in {"reply", "close"}, at \in {"load", "lookup", "delete"} :
         /\ Takes(v, at, NoUuid) /\ (v = "close" <=> at = "delete")
         /\ v = "reply" /\ at = "load" => rep[Head(calls["reply"]).uuid] # "none"
         /\ rep' = rep /\ uuids' = uuids /\ client' = client /\ closed' = closed
  BY DEF ReplyTest, CloseRequest
<1>2. v \in Service /\ NoUuid \in Uuid \cup {NoUuid} /\ "request" \in Service \ {v}
  BY DEF Service
<1>3. /\ OneCall'
      /\ \A w \in Service : \A i \in DOMAIN calls'[w] : \E j \in DOMAIN calls[w] : calls'[w][i] = calls[w][j]
      /\ \A w \in Service \ {v} : thread'[w] = thread[w]
      /\ thread'[v].at = at
      /\ \E j \in DOMAIN calls[v] :
            /\ Head(calls[v]) = calls[v][j]
            /\ thread'[v].call.client = calls[v][j].client
            /\ thread'[v].call.uuid = IF calls[v][j].uuid = NoUuid THEN NoUuid ELSE calls[v][j].uuid
  BY <1>0, <1>1, <1>2, TakesOne
<1>4. PICK j \in DOMAIN calls[v] :
         /\ Head(calls[v]) = calls[v][j]
         /\ thread'[v].call.client = calls[v][j].client
         /\ thread'[v].call.uuid = calls[v][j].uuid
  BY <1>3
<1>5. OwnersOK'
  <2>1. \A w \in {"reply", "close"} :
           \A i \in DOMAIN calls'[w] : client[calls'[w][i].client].uuid = calls'[w][i].uuid
    BY <1>0, <1>3 DEF OwnersOK, Service
  <2>2. \A w \in {"reply", "close"} :
           thread'[w].at # "idle" => client[thread'[w].call.client].uuid = thread'[w].call.uuid
    BY <1>0, <1>3, <1>4 DEF OwnersOK, Service
  <2>3. thread'["request"] = thread["request"] /\ Issued' = Issued
    BY <1>1, <1>2, <1>3 DEF Issued
  <2> QED BY <1>0, <1>1, <2>1, <2>2, <2>3 DEF OwnersOK
<1>6. OpenOK'
  <2>1. \A i \in DOMAIN calls'["reply"] : calls'["reply"][i].uuid \notin closed
    BY <1>0, <1>3 DEF OpenOK, Service
  <2>2. thread'["reply"].at # "idle" => thread'["reply"].call.uuid \notin closed
    BY <1>0, <1>1, <1>3, <1>4 DEF OpenOK, Service
  <2> QED BY <1>0, <1>1, <2>1, <2>2 DEF OpenOK
<1>7. NoFatalError'
  <2>1. CASE v = "reply"
    BY <1>0, <1>1, <1>3, <1>4, <2>1 DEF NoFatalError
  <2>2. CASE v = "close"
    <3>1. thread'["reply"] = thread["reply"]
      BY <1>3, <2>2 DEF Service
    <3> QED BY <1>0, <1>1, <3>1 DEF NoFatalError
  <2> QED BY <2>1, <2>2
<1> QED BY <1>3, <1>5, <1>6, <1>7 DEF Callers

\* A client that gets an answer to its call makes the next one, or is done.
LEMMA AnswerCallers ==
    ASSUME IInv, Callers, NEW v \in Service, NEW code \in {"200", "300"}, Answers(v, code),
           thread[v].at \notin {"idle", "saved"},
           \A x \in Uuid \ closed : rep[x] # "none" => rep'[x] # "none"
    PROVE  Callers'
<1> USE DEF dispatcher
<1>0. TitanicTypeOK /\ ThreadsOK /\ CallsOK /\ ClosedOK /\ OneCall /\ OwnersOK /\ OpenOK /\ NoFatalError
  BY DEF IInv, Steady, Callers
<1>1. /\ client \in [Client -> ClientRecord] /\ calls \in [Service -> Seq(Call)]
      /\ thread \in [Service -> ThreadState]
  BY <1>0 DEF TitanicTypeOK, ClientRecord, ThreadState
<1>2. PICK c \in Client, u \in Issued :
         /\ u \in Uuid /\ u # NoUuid /\ thread[v].call.client = c /\ thread[v].call.uuid = u
         /\ thread' = [thread EXCEPT ![v] = Idle] /\ Replied(v, calls, code, u) /\ uuids' = uuids
  <2>1. thread[v].call \in Call /\ thread[v].call.uuid \in Issued
    BY <1>0 DEF ThreadsOK
  <2>2. thread[v].call.uuid \in Uuid /\ thread[v].call.uuid # NoUuid
    BY <2>1, UuidType DEF Call, Issued, NoUuid
  <2> QED BY <2>1, <2>2 DEF Answers, Call
<1>3. thread'[v].at = "idle" /\ \A w \in Service \ {v} : thread'[w] = thread[w]
  BY <1>1, <1>2 DEF Idle
<1>4. CASE ~thread[v].call.live
  <2>1. calls' = calls /\ client' = client /\ closed' = closed
    BY <1>2, <1>4 DEF Replied
  <2>2. \A w \in Service : thread'[w].at # "idle" =>
           thread[w].at # "idle" /\ thread'[w].call = thread[w].call
    BY <1>3
  <2>3. thread'["reply"].at \in {"idle", thread["reply"].at}
    BY <1>3 DEF Service
  <2> QED BY <1>2, <2>1, <2>2, <2>3, RestCallers
<1>5. CASE thread[v].call.live
  <2>1. /\ client[c].at = v /\ NoneOf(calls[v], c)
        /\ \A w \in Service : LastLive(calls[w]) /\ NoLive(calls[w], c)
        /\ \A w \in Service \ {v} : thread[w].at # "idle" /\ thread[w].call.live => thread[w].call.client # c
    <3>1. client[c].at = v /\ NoneOf(calls[v], c)
      BY <1>0, <1>2, <1>5 DEF OneCall
    <3>2. \A w \in Service : LastLive(calls[w]) /\ NoLive(calls[w], c)
      BY <1>0, <3>1 DEF OneCall, NoLive, NoneOf
    <3>3. \A w \in Service \ {v} : thread[w].at # "idle" /\ thread[w].call.live => thread[w].call.client # c
      BY <1>0, <3>1 DEF OneCall
    <3> QED BY <3>1, <3>2, <3>3
  <2>2. \A w \in Service : thread'[w].at # "idle" =>
           /\ thread'[w].at = thread[w].at
           /\ thread'[w].call.client = thread[w].call.client
           /\ thread'[w].call.uuid = thread[w].call.uuid
           /\ thread'[w].call.live => thread[w].call.live /\ thread[w].call.client # c
    BY <1>3, <2>1
  <2>3. client[c].uuid \in {u, NoUuid} /\ (v \in {"reply", "close"} => client[c].uuid = u)
        /\ (v = "request" => client[c].uuid = NoUuid /\ \A d \in Client : client[d].uuid # u)
    <3>1. v = "request" => client[c].uuid = NoUuid /\ \A d \in Client : client[d].uuid # u
      BY <1>0, <1>2, <2>1 DEF OwnersOK, CallsOK
    <3>2. v \in {"reply", "close"} => client[c].uuid = u
      BY <1>0, <1>2 DEF OwnersOK
    <3> QED BY <3>1, <3>2 DEF Service
  <2>4. v # "close" => u \notin closed
    BY <1>0, <1>2, <2>3 DEF OpenOK, Service
  <2>5. PICK w \in {"done", "reply", "close"} :
           /\ Follows(c, w, u)
           /\ w = "reply" => v # "close"
           /\ IF w = "close" THEN v = "reply" /\ closed' = closed \cup {u} ELSE closed' = closed
    <3>1. CASE v = "close"
      <4>1. client' = [client EXCEPT ![c] = [client[c] EXCEPT !.at = "done"]] /\ calls' = calls /\ closed' = closed
        BY <1>2, <1>5, <3>1 DEF Replied
      <4>2. \A r \in ClientRecord : [r EXCEPT !.at = "done"].at = "done" /\ [r EXCEPT !.at = "done"].uuid = r.uuid
        BY DEF ClientRecord
      <4>3. /\ client'[c].at = "done" /\ client'[c].uuid = u
            /\ \A d \in Client \ {c} : client'[d] = client[d]
        BY <1>1, <2>3, <3>1, <4>1, <4>2
      <4>4. \A x \in Service : Grown(calls'[x], calls[x], c, IF x = "done" THEN {u} ELSE {})
        BY <2>1, <4>1, SameLine
      <4>5. Follows(c, "done", u)
        BY <2>2, <4>3, <4>4 DEF Follows
      <4> QED BY <4>1, <4>5
    <3>2. CASE v # "close"
      <4>1. PICK w \in {"reply", "close"} :
               /\ Calls(c, w, 1, u) /\ IsAdded(calls', calls, c, w, u)
               /\ IF w = "close" THEN v = "reply" /\ closed' = closed \cup {u} ELSE closed' = closed
        <5>1. CASE v = "reply" /\ code = "200"
          BY <1>2, <1>5, <5>1 DEF Replied, IsAdded
        <5>2. CASE ~(v = "reply" /\ code = "200")
          BY <1>2, <1>5, <3>2, <5>2 DEF Replied, IsAdded
        <5> QED BY <5>1, <5>2
      <4>2. w \in Service
        BY DEF Service
      <4>3. /\ client'[c].at = w /\ client'[c].uuid = u
            /\ \A d \in Client \ {c} : client'[d] = client[d]
        BY <1>1, <4>1 DEF Calls
      <4>4. AreLines(calls)
        BY <1>1 DEF AreLines
      <4>5. Grown(calls'[w], calls[w], c, {u})
        <5>1. LastLive(calls[w]) /\ NoLive(calls[w], c) /\ u \in Uuid \cup {NoUuid}
          BY <1>2, <2>1, <4>2
        <5> QED BY <4>1, <4>2, <4>4, <5>1, AddedLine
      <4>6. \A x \in Service \ {w} : calls'[x] = calls[x]
        BY <1>1, <4>1 DEF IsAdded, Added
      <4>7. \A x \in Service \ {w} : Grown(calls'[x], calls[x], c, {})
        BY <2>1, <4>6, SameLine
      <4>8. Follows(c, w, u)
        BY <2>2, <4>3, <4>5, <4>7 DEF Follows
      <4> QED BY <3>2, <4>1, <4>8
    <3> QED BY <3>1, <3>2
  <2>6. OneCall'
    BY <1>0, <2>5, FollowsOne
  <2>7. OwnersOK'
    <3>1. \/ u = client[c].uuid
          \/ /\ client[c].uuid = NoUuid /\ \A d \in Client : client[d].uuid # u
             /\ thread'["request"].at = "idle"
      BY <1>3, <2>3 DEF Service
    <3>2. u \in Issued \cup {NoUuid}
      OBVIOUS
    <3> QED BY <1>0, <1>2, <2>5, <3>1, <3>2, FollowsOwners
  <2>8. OpenOK'
    <3>1. CASE w # "close"
      BY <1>0, <2>3, <2>4, <2>5, <3>1, FollowsOpen
    <3>2. CASE w = "close"
      <4>1. /\ v = "reply" /\ closed' = closed \cup {u} /\ client[c].uuid = u
            /\ client'[c].uuid = u /\ client'[c].at = "close"
            /\ \A d \in Client \ {c} : client'[d] = client[d]
        BY <2>3, <2>5, <3>2 DEF Follows
      <4>2. \A d \in Client : client'[d].uuid = client[d].uuid
        BY <4>1
      <4>3. closed' \subseteq {client'[d].uuid : d \in Client}
        BY <1>0, <4>1, <4>2 DEF OpenOK
      <4>4. \A d \in Client : client'[d].at = "reply" => client'[d].uuid \notin closed'
        <5>1. \A d \in Client \ {c} : client[d].uuid # u
          BY <1>0, <1>2, <4>1 DEF OwnersOK
        <5> QED BY <1>0, <4>1, <5>1 DEF OpenOK
      <4>5. \A i \in DOMAIN calls'["reply"] : calls'["reply"][i].uuid \notin closed'
        <5>1. Grown(calls'["reply"], calls["reply"], c, {})
          BY <2>5, <3>2 DEF Follows, Service
        <5>2. \A i \in DOMAIN calls["reply"] : calls["reply"][i].uuid \notin closed'
          <6> SUFFICES ASSUME NEW i \in DOMAIN calls["reply"], calls["reply"][i].uuid = u
                       PROVE  FALSE
            BY <1>0, <4>1 DEF OpenOK
          <6>1. calls["reply"][i].client \in Client /\ client[calls["reply"][i].client].uuid = u
            BY <1>0, CallersExist DEF OwnersOK, Service
          <6>2. calls["reply"][i].client = c
            BY <1>0, <1>2, <4>1, <6>1 DEF OwnersOK
          <6> QED BY <2>1, <4>1, <6>2 DEF NoneOf
        <5> QED BY <5>1, <5>2 DEF Grown
      <4>6. thread'["reply"].at = "idle"
        BY <1>3, <4>1
      <4> QED BY <4>3, <4>4, <4>5, <4>6 DEF OpenOK
    <3> QED BY <3>1, <3>2
  <2>9. NoFatalError'
    <3>1. \A d \in Client : client'[d].at # "failed"
      BY <1>0, <2>5 DEF NoFatalError, Follows
    <3>2. ASSUME thread'["reply"].at = "load" PROVE rep'[thread'["reply"].call.uuid] # "none"
      <4>1. thread'["reply"] = thread["reply"]
        BY <1>3, <3>2 DEF Service
      <4>2. thread["reply"].call.uuid \in Issued /\ thread["reply"].call \in Call
        BY <1>0, <3>2, <4>1 DEF ThreadsOK, Service
      <4>3. thread["reply"].call.uuid \in Uuid \ closed
        BY <1>0, <3>2, <4>1, <4>2, UuidType DEF Call, Issued, NoUuid, OpenOK
      <4> QED BY <1>0, <3>2, <4>1, <4>3 DEF NoFatalError
    <3> QED BY <3>1, <3>2 DEF NoFatalError
  <2> QED BY <2>6, <2>7, <2>8, <2>9 DEF Callers
<1> QED BY <1>4, <1>5

LEMMA InitCallers == TitanicInit => Callers
<1> SUFFICES ASSUME TitanicInit PROVE Callers
  OBVIOUS
<1>1. /\ \A v \in Service : DOMAIN calls[v] = {} /\ thread[v].at = "idle"
      /\ \A c \in Client : client[c].at = "start" /\ client[c].uuid = NoUuid
      /\ closed = {}
  BY DEF TitanicInit, Idle
<1>2. OneCall
  BY <1>1 DEF OneCall, LastLive
<1>3. OwnersOK /\ OpenOK /\ NoFatalError
  BY <1>1 DEF OwnersOK, OpenOK, NoFatalError, Service
<1> QED BY <1>2, <1>3 DEF Callers

\* Steps of a thread or of the dispatcher between two calls, and crashes.
LEMMA OtherCallers ==
    ASSUME IInv, Callers, RequestPipe \/ DispatcherNext \/ Crash
    PROVE  Callers'
<1> USE DEF files, dispatcher, ghosts
<1>0. TitanicTypeOK /\ rep \in [Uuid -> {"none", "half", "whole"}]
  BY DEF IInv, TitanicTypeOK
<1>1. CASE RequestPipe
  <2>1. /\ calls' = calls /\ client' = client /\ uuids' = uuids /\ closed' = closed /\ rep' = rep
        /\ thread["request"].at = "saved"
        /\ thread' = [thread EXCEPT !["request"] = [thread["request"] EXCEPT !.at = "piped"]]
    BY <1>1 DEF RequestPipe
  <2>2. thread \in [Service -> ThreadState] /\ "request" \in Service
    BY <1>0 DEF TitanicTypeOK, ThreadState, Service
  <2>3. \A t \in ThreadState : [t EXCEPT !.at = "piped"].call = t.call
    BY DEF ThreadState
  <2>4. /\ thread'["request"].call = thread["request"].call
        /\ \A v \in Service \ {"request"} : thread'[v] = thread[v]
    BY <2>1, <2>2, <2>3
  <2>5. \A v \in Service : thread'[v].at # "idle" =>
           thread[v].at # "idle" /\ thread'[v].call = thread[v].call
    BY <2>1, <2>4
  <2>6. thread'["reply"].at \in {"idle", thread["reply"].at}
    BY <2>4 DEF Service
  <2> QED BY <2>1, <2>5, <2>6, RestCallers
<1>2. CASE DispatcherNext
  <2>1. calls' = calls /\ client' = client /\ uuids' = uuids /\ closed' = closed /\ thread' = thread
    BY <1>2 DEF DispatcherNext, Poll, Look, NoAnswer, AnswerCame, OpenReply, SaveReply, Mark, Unmoved
  <2>2. \A x \in Uuid : rep[x] # "none" => rep'[x] # "none"
    <3>1. CASE OpenReply
      BY <1>0, <3>1 DEF OpenReply
    <3>2. CASE SaveReply
      BY <1>0, <3>2 DEF SaveReply
    <3>3. CASE Poll \/ Look \/ NoAnswer \/ AnswerCame \/ Mark
      BY <3>3 DEF Poll, Look, NoAnswer, AnswerCame, Mark
    <3> QED BY <1>2, <3>1, <3>2, <3>3 DEF DispatcherNext
  <2> QED BY <2>1, <2>2, RestCallers
<1>3. CASE Crash
  <2>1. /\ calls' = calls /\ client' = client /\ uuids' = uuids /\ closed' = closed /\ rep' = rep
        /\ \A v \in Service : thread'[v].at = "idle"
    BY <1>3 DEF Crash, Restarts, Idle
  <2> QED BY <2>1, RestCallers DEF Service
<1> QED BY <1>1, <1>2, <1>3

LEMMA NextCallers == IInv /\ Callers /\ [TitanicNext]_titanicVars => Callers'
<1> SUFFICES ASSUME IInv, Callers, [TitanicNext]_titanicVars PROVE Callers'
  OBVIOUS
<1>0. /\ TitanicTypeOK /\ ThreadsOK /\ ClosedOK /\ OpenOK
      /\ rep \in [Uuid -> {"none", "half", "whole"}]
  BY DEF IInv, Steady, Callers, TitanicTypeOK
<1>1. ASSUME NEW c \in Client, ClientNext(c) PROVE Callers'
  BY <1>1, StartCallers, TimeoutCallers DEF ClientNext
<1>2. CASE RequestNext
  <2>1. CASE RequestAnswer
    <3>1. Answers("request", "200") /\ rep' = rep /\ thread["request"].at = "piped"
      BY <2>1 DEF RequestAnswer, files
    <3>2. "request" \in Service /\ "200" \in {"200", "300"}
      BY DEF Service
    <3> QED BY <3>1, <3>2, AnswerCallers
  <2> QED BY <1>2, <2>1, SaveCallers, OtherCallers DEF RequestNext
<1>3. CASE ReplyNext
  <2>0. "reply" \in Service
    BY DEF Service
  <2>1. CASE ReplyLoad
    <3>1. Answers("reply", "200") /\ rep' = rep /\ thread["reply"].at = "load"
      BY <2>1 DEF ReplyLoad, files
    <3> QED BY <2>0, <3>1, AnswerCallers
  <2>2. CASE ReplyLookup
    <3>1. thread["reply"].call.uuid \in Issued /\ thread["reply"].call.uuid \notin closed
      BY <1>0, <2>0, <2>2 DEF ReplyLookup, ThreadsOK, OpenOK
    <3>2. thread["reply"].call.uuid \in req
      BY <1>0, <3>1 DEF ClosedOK
    <3>3. Answers("reply", "300") /\ rep' = rep /\ thread["reply"].at = "lookup"
      BY <2>2, <3>2 DEF ReplyLookup, files
    <3> QED BY <2>0, <3>3, AnswerCallers
  <2> QED BY <1>3, <2>1, <2>2, TakeCallers DEF ReplyNext
<1>4. CASE CloseNext
  <2>1. CASE CloseReply
    <3>1. /\ Answers("close", "200") /\ thread["close"].at = "delete"
          /\ rep' = [rep EXCEPT ![thread["close"].call.uuid] = "none"]
      BY <2>1 DEF CloseReply
    <3>2. thread["close"].call.uuid \in closed /\ "close" \in Service
      BY <1>0, <3>1 DEF ClosedOK, Service
    <3>3. \A x \in Uuid \ closed : rep'[x] = rep[x]
      BY <1>0, <3>1, <3>2
    <3> QED BY <3>1, <3>2, <3>3, AnswerCallers
  <2> QED BY <1>4, <2>1, TakeCallers DEF CloseNext
<1>5. CASE DispatcherNext \/ Crash
  BY <1>5, OtherCallers
<1>6. CASE UNCHANGED titanicVars
  <2>1. calls' = calls /\ client' = client /\ uuids' = uuids /\ closed' = closed /\ thread' = thread /\ rep' = rep
    BY <1>6 DEF titanicVars, files, ghosts
  <2> QED BY <2>1, RestCallers
<1> QED BY <1>1, <1>2, <1>3, <1>4, <1>5, <1>6 DEF TitanicNext

\* No client is told that its request is unknown, and titanic_reply finds the reply file
\* that it has tested for, for any number of clients, retries and crashes
\* (titanic.c:101-136, ticlient.c:10-37).
THEOREM NoFatal == TitanicSpec => []NoFatalError
<1>1. Callers => NoFatalError
  BY DEF Callers
<1> QED BY <1>1, SpecIInv, InitCallers, NextCallers, PTL DEF TitanicSpec

-----------------------------------------------------------------------------
ClusterSpec == ClusterInit /\ [][ClusterNext]_clusterVars

-----------------------------------------------------------------------------
(* The inductive invariant. *)

\* A request at its own broker has its client's name for a route, and at another
\* broker that of the client's broker before it.
Direct(m, c)  == m.route = <<c>>
Foreign(m, c) == m.route = <<Home[c], c>>

OwnRequest(b)  == {m \in Request : \E c \in ClusterClient : Home[c] = b /\ Direct(m, c)}
PeerRequest(b) == {m \in Request : \E c \in ClusterClient : Home[c] \in Peers(b) /\ Foreign(m, c)}
BackRequest(b) == OwnRequest(b) \cup PeerRequest(b) \cup {READY}

\* The messages that a place can hold.
Suits(p) ==
    CASE p[1] \in {"localfe", "cloudbe"} -> OwnRequest(p[2])
      [] p[1] = "cloudfe"                -> PeerRequest(p[2])
      [] p[1] = "localbe"                -> BackRequest(p[2])
      [] p[1] = "work"                   -> BackRequest(Home[p[2]])
      [] p[1] = "replies"                -> {m \in Request : Direct(m, p[2])}

\* Of a client only the task it is at is under way.
AtTask(m) == m = READY \/ m.task = cclient[Last(m.route)].task

Good(p) == {m \in Suits(p) : AtTask(m)}

Placed == \A p \in Place : Held[p] \in Seq(Good(p))

\* The requests of a client, and where they are in a list and at a place.
Of(c) == {m \in Request : Last(m.route) = c}

Spots(list, M) == {i \in DOMAIN list : list[i] \in M}

Here(p, c) == Spots(Held[p], Of(c))

Single(A) == \E i : A = {i}

None(c) == \A p \in Place : Here(p, c) = {}
One(c)  == \E p \in Place : Single(Here(p, c)) /\ \A q \in Place \ {p} : Here(q, c) = {}

\* A client that has sent a request has one in the cluster, unless it is lost.
Clients ==
    \A c \in ClusterClient :
        /\ cclient[c].at = "idle" => c \notin lost /\ None(c)
        /\ cclient[c].at # "idle" => IF c \in lost THEN None(c) ELSE One(c)

ClusterInv ==
    /\ ClusterTypeOK
    /\ WorkersListed
    /\ Placed
    /\ Clients

-----------------------------------------------------------------------------
(* What Append and Tail do to the spots of a list. *)

LEMMA SpotsPushed ==
    ASSUME NEW S, NEW list \in Seq(S), NEW m \in S, NEW M
    PROVE  /\ m \notin M => Spots(Append(list, m), M) = Spots(list, M)
           /\ m \in M /\ Spots(list, M) = {} => Single(Spots(Append(list, m), M))
<1>1. /\ Len(list) \in Nat
      /\ DOMAIN list = 1 .. Len(list)
      /\ DOMAIN Append(list, m) = 1 .. (Len(list) + 1)
      /\ \A i \in 1 .. Len(list) : Append(list, m)[i] = list[i]
      /\ Append(list, m)[Len(list) + 1] = m
  BY AppendProperties
<1>2. m \notin M => Spots(Append(list, m), M) = Spots(list, M)
  BY <1>1 DEF Spots
<1>3. m \in M /\ Spots(list, M) = {} => Spots(Append(list, m), M) = {Len(list) + 1}
  BY <1>1 DEF Spots
<1> QED BY <1>2, <1>3 DEF Single

LEMMA SpotsPopped ==
    ASSUME NEW S, NEW list \in Seq(S), list # <<>>, NEW M
    PROVE  /\ Head(list) \in M => Spots(list, M) # {}
           /\ Spots(list, M) = {} => Spots(Tail(list), M) = {}
           /\ Single(Spots(list, M)) /\ Head(list) \in M => Spots(Tail(list), M) = {}
           /\ Single(Spots(list, M)) /\ Head(list) \notin M => Single(Spots(Tail(list), M))
<1>1. /\ Len(list) \in Nat \ {0}
      /\ DOMAIN list = 1 .. Len(list)
      /\ DOMAIN Tail(list) = 1 .. (Len(list) - 1)
      /\ \A i \in 1 .. (Len(list) - 1) : Tail(list)[i] = list[i + 1]
      /\ Head(list) = list[1]
  BY HeadTailProperties, EmptySeq
<1>2. Head(list) \in M => 1 \in Spots(list, M)
  BY <1>1 DEF Spots
<1>3. \A i \in Int : i \in Spots(Tail(list), M) <=> i + 1 \in Spots(list, M) /\ i # 0
  BY <1>1 DEF Spots
<1>4. Spots(list, M) \subseteq Nat /\ Spots(Tail(list), M) \subseteq Nat
  BY <1>1 DEF Spots
<1>5. ASSUME NEW i, Spots(list, M) = {i}
      PROVE  /\ Head(list) \in M => Spots(Tail(list), M) = {}
             /\ Head(list) \notin M => Spots(Tail(list), M) = {i - 1}
  <2>1. i \in Nat \ {0}
    BY <1>1, <1>5 DEF Spots
  <2>2. Head(list) \in M => i = 1
    BY <1>2, <1>5
  <2>3. Head(list) \notin M => i # 1
    BY <1>1, <1>5 DEF Spots
  <2> QED BY <1>3, <1>4, <1>5, <2>1, <2>2, <2>3
<1>6. Spots(list, M) = {} => Spots(Tail(list), M) = {}
  BY <1>3, <1>4
<1> QED BY <1>2, <1>5, <1>6 DEF Single

-----------------------------------------------------------------------------
(* What a step may do to the places. *)

Same(X) == \A p \in Place \ X : Held'[p] = Held[p]

PopsOne(p) == Held[p] # <<>> /\ Held'[p] = Tail(Held[p])
Pushed(p, m) == Held'[p] = Append(Held[p], m)

\* All requests stay where they are,
Still == Same({})

\* the first message of p goes to the end of q, or nowhere,
Pass(p, q, m) == p # q /\ PopsOne(p) /\ Pushed(q, m) /\ Same({p, q})
Drop(p) == PopsOne(p) /\ Same({p})

\* or one comes to q that was nowhere.
Put(q, m) == Pushed(q, m) /\ Same({q})

LEMMA PoppedHere ==
    ASSUME NEW c, NEW S, NEW p, Held[p] \in Seq(S), PopsOne(p)
    PROVE  /\ Head(Held[p]) \in Of(c) => Here(p, c) # {}
           /\ Here(p, c) = {} => Here(p, c)' = {}
           /\ Single(Here(p, c)) /\ Head(Held[p]) \in Of(c) => Here(p, c)' = {}
           /\ Single(Here(p, c)) /\ Head(Held[p]) \notin Of(c) => Single(Here(p, c)')
BY SpotsPopped DEF Here, PopsOne

LEMMA PushedHere ==
    ASSUME NEW c, NEW S, NEW q, NEW m \in S, Held[q] \in Seq(S), Pushed(q, m)
    PROVE  /\ m \notin Of(c) => Here(q, c)' = Here(q, c)
           /\ m \in Of(c) /\ Here(q, c) = {} => Single(Here(q, c)')
BY SpotsPushed DEF Here, Pushed

LEMMA SameHere ==
    ASSUME NEW c, NEW X, Same(X)
    PROVE  \A p \in Place \ X : Here(p, c)' = Here(p, c)
BY DEF Same, Here

\* Passed on, a request is still in one place; and one that is nowhere stays so.
LEMMA PassKeeps ==
    ASSUME NEW c, NEW S, NEW T, NEW p \in Place, NEW q \in Place, NEW m \in T,
           Held[p] \in Seq(S), Held[q] \in Seq(T), Pass(p, q, m),
           m \in Of(c) <=> Head(Held[p]) \in Of(c)
    PROVE  (One(c) => One(c)') /\ (None(c) => None(c)')
<1>1. /\ Head(Held[p]) \in Of(c) => Here(p, c) # {}
      /\ Here(p, c) = {} => Here(p, c)' = {}
      /\ Single(Here(p, c)) /\ Head(Held[p]) \in Of(c) => Here(p, c)' = {}
      /\ Single(Here(p, c)) /\ Head(Held[p]) \notin Of(c) => Single(Here(p, c)')
  BY PoppedHere DEF Pass
<1>2. /\ m \notin Of(c) => Here(q, c)' = Here(q, c)
      /\ m \in Of(c) /\ Here(q, c) = {} => Single(Here(q, c)')
  BY PushedHere DEF Pass
<1>3. \A r \in Place \ {p, q} : Here(r, c)' = Here(r, c)
  BY SameHere DEF Pass
<1>4. p # q
  BY DEF Pass
<1>5. None(c) => None(c)'
  BY <1>1, <1>2, <1>3 DEF None
<1>6. ASSUME One(c) PROVE One(c)'
  <2>1. PICK r \in Place : Single(Here(r, c)) /\ \A s \in Place \ {r} : Here(s, c) = {}
    BY <1>6 DEF One
  <2>2. CASE Head(Held[p]) \in Of(c)
    <3>1. r = p
      BY <1>1, <2>1, <2>2
    <3>2. Single(Here(q, c)') /\ Here(p, c)' = {}
      BY <1>1, <1>2, <1>4, <2>1, <2>2, <3>1
    <3> QED BY <1>3, <2>1, <3>1, <3>2 DEF One
  <2>3. CASE Head(Held[p]) \notin Of(c)
    <3>1. Single(Here(r, c)') /\ \A s \in Place \ {r} : Here(s, c)' = {}
      BY <1>1, <1>2, <1>3, <2>1, <2>3
    <3> QED BY <3>1 DEF One
  <2> QED BY <2>2, <2>3
<1> QED BY <1>5, <1>6

LEMMA DropKeeps ==
    ASSUME NEW c, NEW S, NEW p \in Place, Held[p] \in Seq(S), Drop(p)
    PROVE  /\ None(c) => None(c)'
           /\ Head(Held[p]) \in Of(c) /\ One(c) => None(c)'
           /\ Head(Held[p]) \notin Of(c) /\ One(c) => One(c)'
<1>1. /\ Head(Held[p]) \in Of(c) => Here(p, c) # {}
      /\ Here(p, c) = {} => Here(p, c)' = {}
      /\ Single(Here(p, c)) /\ Head(Held[p]) \in Of(c) => Here(p, c)' = {}
      /\ Single(Here(p, c)) /\ Head(Held[p]) \notin Of(c) => Single(Here(p, c)')
  BY PoppedHere DEF Drop
<1>2. \A r \in Place \ {p} : Here(r, c)' = Here(r, c)
  BY SameHere DEF Drop
<1>3. None(c) => None(c)'
  BY <1>1, <1>2 DEF None
<1>4. ASSUME One(c)
      PROVE  /\ Head(Held[p]) \in Of(c) => None(c)'
             /\ Head(Held[p]) \notin Of(c) => One(c)'
  <2>1. PICK r \in Place : Single(Here(r, c)) /\ \A s \in Place \ {r} : Here(s, c) = {}
    BY <1>4 DEF One
  <2>2. CASE Head(Held[p]) \in Of(c)
    BY <1>1, <1>2, <2>1, <2>2 DEF None
  <2>3. CASE Head(Held[p]) \notin Of(c)
    <3>1. Single(Here(r, c)') /\ \A s \in Place \ {r} : Here(s, c)' = {}
      BY <1>1, <1>2, <2>1, <2>3
    <3> QED BY <2>3, <3>1 DEF One
  <2> QED BY <2>2, <2>3
<1> QED BY <1>3, <1>4

LEMMA PutKeeps ==
    ASSUME NEW c, NEW T, NEW q \in Place, NEW m \in T, Held[q] \in Seq(T), Put(q, m)
    PROVE  /\ m \in Of(c) /\ None(c) => One(c)'
           /\ m \notin Of(c) => (One(c) => One(c)') /\ (None(c) => None(c)')
<1>1. /\ m \notin Of(c) => Here(q, c)' = Here(q, c)
      /\ m \in Of(c) /\ Here(q, c) = {} => Single(Here(q, c)')
  BY PushedHere DEF Put
<1>2. \A r \in Place \ {q} : Here(r, c)' = Here(r, c)
  BY SameHere DEF Put
<1>3. m \in Of(c) /\ None(c) => One(c)'
  BY <1>1, <1>2 DEF None, One
<1>4. ASSUME m \notin Of(c)
      PROVE  (One(c) => One(c)') /\ (None(c) => None(c)')
  <2>1. \A r \in Place : Here(r, c)' = Here(r, c)
    BY <1>1, <1>2, <1>4
  <2> QED BY <2>1 DEF None, One
<1> QED BY <1>3, <1>4

LEMMA StillKeeps ==
    ASSUME NEW c, Still
    PROVE  (One(c) => One(c)') /\ (None(c) => None(c)')
<1>1. \A r \in Place : Here(r, c)' = Here(r, c)
  BY SameHere DEF Still
<1> QED BY <1>1 DEF None, One

-----------------------------------------------------------------------------
(* The places by kind. *)

Maps(F, S, T)   == F \in [S -> T]
Mapped(F, list) == [i \in DOMAIN list |-> F[list[i]]]

LEMMA AsFunction ==
    ASSUME NEW T, NEW s \in Seq(T), NEW n \in Nat, DOMAIN s = 1 .. n
    PROVE  s = [i \in 1 .. n |-> s[i]]
OBVIOUS

LEMMA MappedSeq ==
    ASSUME NEW S, NEW T, NEW F, Maps(F, S, T), NEW list \in Seq(S)
    PROVE  Mapped(F, list) \in Seq(T) /\ Len(Mapped(F, list)) = Len(list)
<1>1. Len(list) \in Nat /\ DOMAIN list = 1 .. Len(list)
  OBVIOUS
<1>2. \A i \in 1 .. Len(list) : F[list[i]] \in T
  BY <1>1 DEF Maps
<1>3. Mapped(F, list) = [i \in 1 .. Len(list) |-> F[list[i]]]
  BY <1>1 DEF Mapped
<1> QED BY <1>1, <1>2, <1>3, IsASeq, LenProperties

LEMMA MappedPopped ==
    ASSUME NEW S, NEW T, NEW F, Maps(F, S, T), NEW list \in Seq(S), list # <<>>
    PROVE  /\ Mapped(F, list) # <<>>
           /\ Head(Mapped(F, list)) = F[Head(list)]
           /\ Mapped(F, Tail(list)) = Tail(Mapped(F, list))
<1>1. /\ Len(list) \in Nat \ {0}
      /\ DOMAIN list = 1 .. Len(list)
      /\ DOMAIN Tail(list) = 1 .. (Len(list) - 1)
      /\ \A i \in 1 .. (Len(list) - 1) : Tail(list)[i] = list[i + 1]
      /\ Head(list) = list[1]
  BY HeadTailProperties, EmptySeq
<1>2. Mapped(F, list) \in Seq(T) /\ Len(Mapped(F, list)) = Len(list)
  BY MappedSeq
<1>3. /\ Tail(Mapped(F, list)) \in Seq(T)
      /\ DOMAIN Tail(Mapped(F, list)) = 1 .. (Len(list) - 1)
      /\ \A i \in 1 .. (Len(list) - 1) : Tail(Mapped(F, list))[i] = Mapped(F, list)[i + 1]
      /\ Head(Mapped(F, list)) = Mapped(F, list)[1]
      /\ Mapped(F, list) # <<>>
  BY <1>1, <1>2, HeadTailProperties, EmptySeq
<1>4. \A i \in 1 .. (Len(list) - 1) : Tail(Mapped(F, list))[i] = F[Tail(list)[i]]
  BY <1>1, <1>3 DEF Mapped
<1>5. Len(list) - 1 \in Nat
  BY <1>1
<1>6. Tail(Mapped(F, list)) = [i \in 1 .. (Len(list) - 1) |-> Tail(Mapped(F, list))[i]]
  BY <1>3, <1>5, AsFunction
<1>7. Tail(Mapped(F, list)) = [i \in 1 .. (Len(list) - 1) |-> F[Tail(list)[i]]]
  BY <1>4, <1>6
<1> QED BY <1>1, <1>3, <1>7 DEF Mapped

LEMMA MappedPushed ==
    ASSUME NEW S, NEW T, NEW F, Maps(F, S, T), NEW list \in Seq(S), NEW x \in S
    PROVE  Mapped(F, Append(list, x)) = Append(Mapped(F, list), F[x])
<1>1. /\ Len(list) \in Nat
      /\ DOMAIN list = 1 .. Len(list)
      /\ DOMAIN Append(list, x) = 1 .. (Len(list) + 1)
      /\ \A i \in 1 .. Len(list) : Append(list, x)[i] = list[i]
      /\ Append(list, x)[Len(list) + 1] = x
  BY AppendProperties
<1>2. Mapped(F, list) \in Seq(T) /\ Len(Mapped(F, list)) = Len(list)
  BY MappedSeq
<1>3. F[x] \in T
  BY DEF Maps
<1>4. /\ Append(Mapped(F, list), F[x]) \in Seq(T)
      /\ DOMAIN Append(Mapped(F, list), F[x]) = 1 .. (Len(list) + 1)
      /\ \A i \in 1 .. Len(list) : Append(Mapped(F, list), F[x])[i] = Mapped(F, list)[i]
      /\ Append(Mapped(F, list), F[x])[Len(list) + 1] = F[x]
  BY <1>2, <1>3, AppendProperties
<1>5. \A i \in 1 .. (Len(list) + 1) : Append(Mapped(F, list), F[x])[i] = F[Append(list, x)[i]]
  BY <1>1, <1>4 DEF Mapped
<1>6. Append(Mapped(F, list), F[x])
        = [i \in 1 .. (Len(list) + 1) |-> Append(Mapped(F, list), F[x])[i]]
  BY <1>1, <1>4, AsFunction
<1>7. Append(Mapped(F, list), F[x]) = [i \in 1 .. (Len(list) + 1) |-> F[Append(list, x)[i]]]
  BY <1>5, <1>6
<1> QED BY <1>1, <1>7 DEF Mapped

\* The messages of localbe, and the workers they are from.
Msgs(list)    == [i \in DOMAIN list |-> list[i].msg]
Senders(list) == [i \in DOMAIN list |-> list[i].from]

LEMMA BackMapped ==
    ASSUME NEW list \in Seq(FromWorker)
    PROVE  /\ Msgs(list) = Mapped([x \in FromWorker |-> x.msg], list)
           /\ Senders(list) = Mapped([x \in FromWorker |-> x.from], list)
<1>1. \A i \in DOMAIN list : list[i] \in FromWorker
  OBVIOUS
<1> QED BY <1>1 DEF Msgs, Senders, Mapped

LEMMA BackPopped ==
    ASSUME NEW list \in Seq(FromWorker), list # <<>>
    PROVE  /\ Msgs(list) # <<>> /\ Senders(list) # <<>>
           /\ Head(Msgs(list)) = Head(list).msg
           /\ Head(Senders(list)) = Head(list).from
           /\ Msgs(Tail(list)) = Tail(Msgs(list))
           /\ Senders(Tail(list)) = Tail(Senders(list))
<1> DEFINE M == [x \in FromWorker |-> x.msg]
           F == [x \in FromWorker |-> x.from]
<1>1. Head(list) \in FromWorker /\ Tail(list) \in Seq(FromWorker)
  BY HeadTailProperties, EmptySeq
<1>2. Maps(M, FromWorker, Message) /\ Maps(F, FromWorker, ClusterWorker)
  BY DEF FromWorker, Maps
<1>3. M[Head(list)] = Head(list).msg /\ F[Head(list)] = Head(list).from
  BY <1>1
<1> HIDE DEF M, F
<1>4. Mapped(M, list) # <<>> /\ Head(Mapped(M, list)) = M[Head(list)]
      /\ Mapped(M, Tail(list)) = Tail(Mapped(M, list))
  BY <1>2, MappedPopped
<1>5. Mapped(F, list) # <<>> /\ Head(Mapped(F, list)) = F[Head(list)]
      /\ Mapped(F, Tail(list)) = Tail(Mapped(F, list))
  BY <1>2, MappedPopped
<1>6. /\ Msgs(list) = Mapped(M, list) /\ Msgs(Tail(list)) = Mapped(M, Tail(list))
      /\ Senders(list) = Mapped(F, list) /\ Senders(Tail(list)) = Mapped(F, Tail(list))
  BY <1>1, BackMapped DEF M, F
<1> QED BY <1>3, <1>4, <1>5, <1>6

LEMMA BackPushed ==
    ASSUME NEW list \in Seq(FromWorker), NEW x \in FromWorker
    PROVE  /\ Msgs(Append(list, x)) = Append(Msgs(list), x.msg)
           /\ Senders(Append(list, x)) = Append(Senders(list), x.from)
<1> DEFINE M == [y \in FromWorker |-> y.msg]
           F == [y \in FromWorker |-> y.from]
<1>1. Append(list, x) \in Seq(FromWorker)
  BY AppendProperties
<1>2. Maps(M, FromWorker, Message) /\ Maps(F, FromWorker, ClusterWorker)
  BY DEF FromWorker, Maps
<1>3. M[x] = x.msg /\ F[x] = x.from
  OBVIOUS
<1> HIDE DEF M, F
<1>4. Mapped(M, Append(list, x)) = Append(Mapped(M, list), M[x])
  BY <1>2, MappedPushed
<1>5. Mapped(F, Append(list, x)) = Append(Mapped(F, list), F[x])
  BY <1>2, MappedPushed
<1>6. /\ Msgs(list) = Mapped(M, list) /\ Msgs(Append(list, x)) = Mapped(M, Append(list, x))
      /\ Senders(list) = Mapped(F, list)
      /\ Senders(Append(list, x)) = Mapped(F, Append(list, x))
  BY <1>1, BackMapped DEF M, F
<1> QED BY <1>3, <1>4, <1>5, <1>6

LEMMA SendersSeq ==
    ASSUME NEW list \in Seq(FromWorker)
    PROVE  Senders(list) \in Seq(ClusterWorker)
<1> DEFINE F == [y \in FromWorker |-> y.from]
<1>1. Maps(F, FromWorker, ClusterWorker)
  BY DEF FromWorker, Maps
<1>2. Senders(list) = Mapped(F, list)
  BY BackMapped
<1> HIDE DEF F
<1> QED BY <1>1, <1>2, MappedSeq

InWork(w) == IF cworker[w].busy THEN <<cworker[w].work>> ELSE <<>>

LEMMA PlaceIs ==
    /\ \A b \in Broker : \A k \in {"localfe", "cloudfe", "cloudbe", "localbe"} :
           <<k, b>> \in Place
    /\ \A w \in ClusterWorker : <<"work", w>> \in Place
    /\ \A c \in ClusterClient : <<"replies", c>> \in Place
BY DEF Place

LEMMA HeldIs ==
    /\ \A b \in Broker : /\ Held[<<"localfe", b>>] = sock[b].localfe
                         /\ Held[<<"cloudfe", b>>] = sock[b].cloudfe
                         /\ Held[<<"cloudbe", b>>] = sock[b].cloudbe
                         /\ Held[<<"localbe", b>>] = Msgs(sock[b].localbe)
    /\ \A w \in ClusterWorker : Held[<<"work", w>>] = InWork(w)
    /\ \A c \in ClusterClient : Held[<<"replies", c>>] = cclient[c].replies
BY PlaceIs DEF Held, Msgs, InWork

LEMMA HeldNext ==
    /\ \A b \in Broker : /\ Held'[<<"localfe", b>>] = sock'[b].localfe
                         /\ Held'[<<"cloudfe", b>>] = sock'[b].cloudfe
                         /\ Held'[<<"cloudbe", b>>] = sock'[b].cloudbe
                         /\ Held'[<<"localbe", b>>] = Msgs(sock'[b].localbe)
    /\ \A w \in ClusterWorker : Held'[<<"work", w>>] = InWork(w)'
    /\ \A c \in ClusterClient : Held'[<<"replies", c>>] = cclient'[c].replies
BY PlaceIs DEF Held, Msgs, InWork

\* All places but those of X are the same if the variables say so.
LEMMA SameByKind ==
    ASSUME NEW X,
           \A b \in Broker :
               /\ <<"localfe", b>> \notin X => sock'[b].localfe = sock[b].localfe
               /\ <<"cloudfe", b>> \notin X => sock'[b].cloudfe = sock[b].cloudfe
               /\ <<"cloudbe", b>> \notin X => sock'[b].cloudbe = sock[b].cloudbe
               /\ <<"localbe", b>> \notin X => sock'[b].localbe = sock[b].localbe,
           \A w \in ClusterWorker : <<"work", w>> \notin X => cworker'[w] = cworker[w],
           \A c \in ClusterClient :
               <<"replies", c>> \notin X => cclient'[c].replies = cclient[c].replies
    PROVE  Same(X)
<1> SUFFICES ASSUME NEW p \in Place \ X
             PROVE  Held'[p] = Held[p]
  BY DEF Same
<1>1. ASSUME NEW b \in Broker,
             p \in {<<"localfe", b>>, <<"cloudfe", b>>, <<"cloudbe", b>>, <<"localbe", b>>}
      PROVE  Held'[p] = Held[p]
  <2>1. CASE p = <<"localfe", b>>
    BY <1>1, <2>1, HeldIs, HeldNext
  <2>2. CASE p = <<"cloudfe", b>>
    BY <1>1, <2>2, HeldIs, HeldNext
  <2>3. CASE p = <<"cloudbe", b>>
    BY <1>1, <2>3, HeldIs, HeldNext
  <2>4. CASE p = <<"localbe", b>>
    <3>1. sock'[b].localbe = sock[b].localbe
      BY <1>1, <2>4
    <3>2. Msgs(sock'[b].localbe) = Msgs(sock[b].localbe)
      BY <3>1, Zenon
    <3>3. Held[<<"localbe", b>>] = Msgs(sock[b].localbe)
      BY HeldIs, Zenon
    <3>4. Held'[<<"localbe", b>>] = Msgs(sock'[b].localbe)
      BY HeldNext, Zenon
    <3> QED BY <2>4, <3>2, <3>3, <3>4, Zenon
  <2> QED BY <1>1, <2>1, <2>2, <2>3, <2>4
<1>2. ASSUME NEW w \in ClusterWorker, p = <<"work", w>>
      PROVE  Held'[p] = Held[p]
  <2>1. cworker'[w] = cworker[w]
    BY <1>2
  <2>2. InWork(w)' = InWork(w)
    BY <2>1 DEF InWork
  <2> QED BY <1>2, <2>2, HeldIs, HeldNext
<1>3. ASSUME NEW c \in ClusterClient, p = <<"replies", c>>
      PROVE  Held'[p] = Held[p]
  BY <1>3, HeldIs, HeldNext
<1>4. \/ \E b \in Broker :
            p \in {<<"localfe", b>>, <<"cloudfe", b>>, <<"cloudbe", b>>, <<"localbe", b>>}
      \/ \E w \in ClusterWorker : p = <<"work", w>>
      \/ \E c \in ClusterClient : p = <<"replies", c>>
  <2>1. CASE p \in {"localfe", "cloudfe", "cloudbe", "localbe"} \X Broker
    <3>1. PICK k \in {"localfe", "cloudfe", "cloudbe", "localbe"}, b \in Broker : p = <<k, b>>
      BY <2>1
    <3> QED BY <3>1
  <2>2. CASE p \in {"work"} \X ClusterWorker
    BY <2>2
  <2>3. CASE p \in {"replies"} \X ClusterClient
    BY <2>3
  <2> QED BY <2>1, <2>2, <2>3 DEF Place
<1> QED BY <1>1, <1>2, <1>3, <1>4

-----------------------------------------------------------------------------
(* Requests and their routes. *)

LEMMA RouteOne ==
    ASSUME NEW c
    PROVE  Head(<<c>>) = c /\ Last(<<c>>) = c
BY DEF Last

LEMMA RouteTwo ==
    ASSUME NEW b, NEW c
    PROVE  /\ Head(<<b, c>>) = b /\ Last(<<b, c>>) = c
           /\ Tail(<<b, c>>) = <<c>>
           /\ <<b>> \o <<c>> = <<b, c>>
<1> DEFINE S == {b, c}
<1>1. <<b>> \in Seq(S) /\ <<c>> \in Seq(S) /\ <<b, c>> \in Seq(S)
  OBVIOUS
<1>2. /\ <<b>> \o <<c>> \in Seq(S) /\ Len(<<b>> \o <<c>>) = 2
      /\ (<<b>> \o <<c>>)[1] = b /\ (<<b>> \o <<c>>)[2] = c
  BY <1>1, ConcatProperties
<1>3. Len(<<b, c>>) = 2 /\ <<b, c>>[1] = b /\ <<b, c>>[2] = c
  OBVIOUS
<1>4. \A i \in 1 .. 2 : (<<b>> \o <<c>>)[i] = <<b, c>>[i]
  BY <1>2, <1>3
<1> HIDE DEF S
<1>5. <<b>> \o <<c>> = <<b, c>>
  BY <1>1, <1>2, <1>3, <1>4, SeqEqual
<1> QED BY <1>5 DEF Last

LEMMA ClientOf ==
    ASSUME NEW m \in Request
    PROVE  Last(m.route) \in ClusterClient
<1>1. m.route \in Routes
  BY DEF Request
<1>2. CASE \E c \in ClusterClient : m.route = <<c>>
  BY <1>2, RouteOne
<1>3. CASE m.route \in Broker \X ClusterClient
  <2>1. PICK b \in Broker, c \in ClusterClient : m.route = <<b, c>>
    BY <1>3
  <2> QED BY <2>1, RouteTwo
<1> QED BY <1>1, <1>2, <1>3 DEF Routes

LEMMA OwnIs ==
    ASSUME NEW b, NEW m \in OwnRequest(b)
    PROVE  /\ m \in Request /\ m # READY
           /\ \E c \in ClusterClient : /\ Home[c] = b /\ c \notin Broker
                                       /\ m.route = <<c>>
                                       /\ Head(m.route) = c /\ Last(m.route) = c
<1>1. PICK c \in ClusterClient : Home[c] = b /\ m.route = <<c>>
  BY DEF OwnRequest, Direct
<1>2. m \in Request /\ m # READY /\ c \notin Broker
  BY ClusterAssumption DEF OwnRequest
<1> QED BY <1>1, <1>2, RouteOne

LEMMA PeerIs ==
    ASSUME NEW b, NEW m \in PeerRequest(b)
    PROVE  /\ m \in Request /\ m # READY
           /\ \E c \in ClusterClient : /\ Home[c] \in Peers(b)
                                       /\ m.route = <<Home[c], c>>
                                       /\ Head(m.route) = Home[c] /\ Last(m.route) = c
                                       /\ Tail(m.route) = <<c>>
<1>1. PICK c \in ClusterClient : Home[c] \in Peers(b) /\ m.route = <<Home[c], c>>
  BY DEF PeerRequest, Foreign
<1>2. m \in Request /\ m # READY
  BY ClusterAssumption DEF PeerRequest
<1> QED BY <1>1, <1>2, RouteTwo

\* The same request, with another route.
SameTask(m, n) ==
    /\ m = READY <=> n = READY
    /\ m # READY => n.task = m.task /\ Last(n.route) = Last(m.route)

LEMMA Reroute ==
    ASSUME NEW m \in Request, NEW r
    PROVE  [m EXCEPT !.route = r] = [route |-> r, task |-> m.task] /\ m.task \in Nat
BY DEF Request

\* What a reply is after its broker's name was taken off,
LEMMA ReplyForward ==
    ASSUME NEW b \in Broker, NEW m \in PeerRequest(b)
    PROVE  /\ Head(m.route) \in Peers(b)
           /\ [m EXCEPT !.route = Tail(@)] \in OwnRequest(Head(m.route))
           /\ SameTask(m, [m EXCEPT !.route = Tail(@)])
<1>1. m \in Request /\ m # READY
  BY PeerIs
<1>2. PICK c \in ClusterClient : /\ Home[c] \in Peers(b)
                                 /\ Head(m.route) = Home[c] /\ Last(m.route) = c
                                 /\ Tail(m.route) = <<c>>
  BY PeerIs
<1> DEFINE n == [m EXCEPT !.route = Tail(@)]
<1>3. n = [route |-> <<c>>, task |-> m.task] /\ m.task \in Nat
  <2>1. n = [route |-> Tail(m.route), task |-> m.task] /\ m.task \in Nat
    BY <1>1, Reroute
  <2> HIDE DEF n
  <2> QED BY <1>2, <2>1
<1>4. n \in Request
  BY <1>3 DEF Request, Routes
<1>5. n \in OwnRequest(Home[c])
  BY <1>3, <1>4 DEF OwnRequest, Direct
<1>6. Last(n.route) = c /\ n.task = m.task /\ n # READY
  BY <1>3, <1>4, RouteOne, ClusterAssumption
<1> QED BY <1>1, <1>2, <1>5, <1>6 DEF SameTask

\* and a request with its broker's name before it.
LEMMA RequestForward ==
    ASSUME NEW b \in Broker, NEW p \in Peers(b), NEW m \in OwnRequest(b)
    PROVE  /\ [m EXCEPT !.route = <<b>> \o @] \in PeerRequest(p)
           /\ SameTask(m, [m EXCEPT !.route = <<b>> \o @])
<1>1. m \in Request /\ m # READY
  BY OwnIs
<1>2. PICK c \in ClusterClient : Home[c] = b /\ m.route = <<c>> /\ Last(m.route) = c
  BY OwnIs
<1> DEFINE n == [m EXCEPT !.route = <<b>> \o @]
<1>3. n = [route |-> <<b, c>>, task |-> m.task] /\ m.task \in Nat
  BY <1>1, <1>2, RouteTwo DEF Request
<1>4. n \in Request
  BY <1>3 DEF Request, Routes
<1>5. Home[c] \in Peers(p)
  BY <1>2 DEF Peers
<1>6. n \in PeerRequest(p)
  BY <1>2, <1>3, <1>4, <1>5 DEF PeerRequest, Foreign
<1>7. Last(n.route) = c /\ n.task = m.task /\ n # READY
  BY <1>3, <1>4, RouteTwo, ClusterAssumption, ZenonT(60)
<1> QED BY <1>1, <1>2, <1>6, <1>7 DEF SameTask

LEMMA FitsIs ==
    /\ \A b : /\ Suits(<<"localfe", b>>) = OwnRequest(b)
              /\ Suits(<<"cloudbe", b>>) = OwnRequest(b)
              /\ Suits(<<"cloudfe", b>>) = PeerRequest(b)
              /\ Suits(<<"localbe", b>>) = BackRequest(b)
    /\ \A w : Suits(<<"work", w>>) = BackRequest(Home[w])
    /\ \A c : Suits(<<"replies", c>>) = {m \in Request : Direct(m, c)}
BY DEF Suits

LEMMA FitsMessage ==
    ASSUME NEW p \in Place
    PROVE  Suits(p) \subseteq Message
<1>1. \A b : OwnRequest(b) \subseteq Request /\ PeerRequest(b) \subseteq Request
  BY DEF OwnRequest, PeerRequest
<1>2. \A b : BackRequest(b) \subseteq Message
  BY <1>1 DEF BackRequest, Message
<1>3. p[1] \in {"localfe", "cloudfe", "cloudbe", "localbe", "work", "replies"}
  BY DEF Place
<1> QED BY <1>1, <1>2, <1>3 DEF Suits, Message

-----------------------------------------------------------------------------
(* What the four kinds of steps do to the invariant. *)

\* No client has moved on, and no request was lost.
Quiet ==
    /\ \A c \in ClusterClient : /\ cclient'[c].at = cclient[c].at
                                /\ cclient'[c].task = cclient[c].task
    /\ lost' = lost

SameTasks == \A c \in ClusterClient : cclient'[c].task = cclient[c].task

LEMMA GoodSame ==
    ASSUME SameTasks
    PROVE  \A p \in Place : Good(p)' = Good(p)
<1> SUFFICES ASSUME NEW p \in Place
             PROVE  Good(p)' = Good(p)
  OBVIOUS
<1>1. \A m \in Suits(p) : m = READY \/ Last(m.route) \in ClusterClient
  BY FitsMessage, ClientOf DEF Message
<1>2. \A m \in Suits(p) : AtTask(m)' <=> AtTask(m)
  BY <1>1 DEF AtTask, SameTasks
<1>3. Good(p) = {m \in Suits(p) : AtTask(m)}
  BY DEF Good
<1>4. Good(p)' = {m \in Suits(p) : AtTask(m)'}
  BY DEF Good
<1> QED BY <1>2, <1>3, <1>4

LEMMA TailSeq ==
    ASSUME NEW S, NEW list \in Seq(S), list # <<>>
    PROVE  Head(list) \in S /\ Tail(list) \in Seq(S)
BY HeadTailProperties, EmptySeq

LEMMA AppendSeq ==
    ASSUME NEW S, NEW list \in Seq(S), NEW m \in S
    PROVE  Append(list, m) \in Seq(S)
BY AppendProperties

\* A place that keeps its list, or gives its first message away, or gets a good one.
LEMMA PlacedBy ==
    ASSUME Placed, SameTasks,
           \A p \in Place : \/ Held'[p] = Held[p]
                            \/ PopsOne(p)
                            \/ \E m \in Good(p) : Pushed(p, m)
    PROVE  Placed'
<1> SUFFICES ASSUME NEW p \in Place
             PROVE  Held'[p] \in Seq(Good(p)')
  BY DEF Placed
<1>1. Good(p)' = Good(p) /\ Held[p] \in Seq(Good(p))
  BY GoodSame DEF Placed
<1>2. CASE Held'[p] = Held[p]
  BY <1>1, <1>2
<1>3. CASE PopsOne(p)
  BY <1>1, <1>3, TailSeq DEF PopsOne
<1>4. CASE \E m \in Good(p) : Pushed(p, m)
  BY <1>1, <1>4, AppendSeq DEF Pushed
<1> QED BY <1>2, <1>3, <1>4

LEMMA QuietClients ==
    ASSUME Quiet, Clients,
           \A c \in ClusterClient : (One(c) => One(c)') /\ (None(c) => None(c)')
    PROVE  Clients'
BY DEF Quiet, Clients

\* A message that fits another place, with the task it had.
LEMMA SameTaskGood ==
    ASSUME NEW p \in Place, NEW q \in Place, NEW m \in Good(p), NEW n \in Suits(q), SameTask(m, n)
    PROVE  n \in Good(q) /\ \A c : n \in Of(c) <=> m \in Of(c)
<1>1. m \in Message /\ n \in Message /\ AtTask(m)
  BY FitsMessage DEF Good
<1>2. AtTask(n)
  BY <1>1 DEF AtTask, SameTask
<1>3. ASSUME NEW c PROVE n \in Of(c) <=> m \in Of(c)
  BY <1>1, ClusterAssumption DEF Message, SameTask, Of
<1> QED BY <1>2, <1>3 DEF Good

LEMMA PassInv ==
    ASSUME Placed, Clients, Quiet,
           NEW p \in Place, NEW q \in Place, NEW m \in Suits(q), Pass(p, q, m),
           SameTask(Head(Held[p]), m)
    PROVE  Placed' /\ Clients'
<1>1. Held[p] \in Seq(Good(p)) /\ Held[q] \in Seq(Good(q)) /\ Held[p] # <<>>
  BY DEF Placed, Pass, PopsOne
<1>2. Head(Held[p]) \in Good(p)
  BY <1>1, TailSeq
<1>3. m \in Good(q) /\ \A c : m \in Of(c) <=> Head(Held[p]) \in Of(c)
  BY <1>2, SameTaskGood
<1>4. Placed'
  <2>1. SameTasks
    BY DEF Quiet, SameTasks
  <2> QED BY <1>3, <2>1, PlacedBy DEF Pass, Same
<1>5. \A c \in ClusterClient : (One(c) => One(c)') /\ (None(c) => None(c)')
  BY <1>1, <1>3, PassKeeps
<1> QED BY <1>4, <1>5, QuietClients

LEMMA StillInv ==
    ASSUME Placed, Clients, Quiet, Still
    PROVE  Placed' /\ Clients'
<1>1. Placed'
  <2>1. SameTasks
    BY DEF Quiet, SameTasks
  <2> QED BY <2>1, PlacedBy DEF Still, Same
<1>2. \A c \in ClusterClient : (One(c) => One(c)') /\ (None(c) => None(c)')
  BY StillKeeps
<1> QED BY <1>1, <1>2, QuietClients

LEMMA DropReady ==
    ASSUME Placed, Clients, Quiet, NEW p \in Place, Drop(p), Head(Held[p]) = READY
    PROVE  Placed' /\ Clients'
<1>1. Placed'
  <2>1. SameTasks
    BY DEF Quiet, SameTasks
  <2> QED BY <2>1, PlacedBy DEF Drop, Same
<1>2. Held[p] \in Seq(Good(p))
  BY DEF Placed
<1>3. \A c : Head(Held[p]) \notin Of(c)
  BY ClusterAssumption DEF Of
<1>4. \A c \in ClusterClient : (One(c) => One(c)') /\ (None(c) => None(c)')
  BY <1>2, <1>3, DropKeeps
<1> QED BY <1>1, <1>4, QuietClients

-----------------------------------------------------------------------------
(* The workers of a broker. *)

LEMMA InjPopped ==
    ASSUME NEW S, NEW list \in Seq(S), list # <<>>, IsInjective(list)
    PROVE  /\ IsInjective(Tail(list))
           /\ Range(Tail(list)) = Range(list) \ {Head(list)}
           /\ Head(list) \in Range(list)
<1>1. /\ Len(list) \in Nat \ {0}
      /\ DOMAIN list = 1 .. Len(list)
      /\ DOMAIN Tail(list) = 1 .. (Len(list) - 1)
      /\ \A i \in 1 .. (Len(list) - 1) : Tail(list)[i] = list[i + 1]
      /\ Head(list) = list[1]
  BY HeadTailProperties, EmptySeq
<1>2. \A i, j \in 1 .. Len(list) : list[i] = list[j] => i = j
  BY <1>1 DEF IsInjective
<1>3. IsInjective(Tail(list))
  BY <1>1, <1>2 DEF IsInjective
<1>4. Head(list) \in Range(list)
  BY <1>1 DEF Range
<1>5. ASSUME NEW x \in Range(Tail(list))
      PROVE  x \in Range(list) \ {Head(list)}
  <2>1. PICK i \in 1 .. (Len(list) - 1) : x = list[i + 1]
    BY <1>1, <1>5 DEF Range
  <2> QED BY <1>1, <1>2, <2>1 DEF Range
<1>6. ASSUME NEW x \in Range(list) \ {Head(list)}
      PROVE  x \in Range(Tail(list))
  <2>1. PICK i \in 1 .. Len(list) : x = list[i] /\ i # 1
    BY <1>1, <1>6 DEF Range
  <2>2. i - 1 \in 1 .. (Len(list) - 1) /\ Tail(list)[i - 1] = x
    BY <1>1, <2>1
  <2> QED BY <1>1, <2>2 DEF Range
<1> QED BY <1>3, <1>4, <1>5, <1>6

LEMMA InjPushed ==
    ASSUME NEW S, NEW list \in Seq(S), NEW x \in S, x \notin Range(list), IsInjective(list)
    PROVE  /\ IsInjective(Append(list, x))
           /\ Range(Append(list, x)) = Range(list) \cup {x}
<1>1. /\ Len(list) \in Nat
      /\ DOMAIN list = 1 .. Len(list)
      /\ DOMAIN Append(list, x) = 1 .. (Len(list) + 1)
      /\ \A i \in 1 .. Len(list) : Append(list, x)[i] = list[i]
      /\ Append(list, x)[Len(list) + 1] = x
  BY AppendProperties
<1>2. \A i, j \in 1 .. Len(list) : list[i] = list[j] => i = j
  BY <1>1 DEF IsInjective
<1>3. \A i \in 1 .. Len(list) : list[i] # x
  BY <1>1 DEF Range
<1>4. IsInjective(Append(list, x))
  BY <1>1, <1>2, <1>3 DEF IsInjective
<1>5. Range(Append(list, x)) = Range(list) \cup {x}
  BY <1>1 DEF Range
<1> QED BY <1>4, <1>5

Mine(b)   == {w \in ClusterWorker : Home[w] = b}
AtWork(b) == {w \in Mine(b) : cworker[w].busy}

Ranks(b) ==
    LET listed == Range(loop[b].workers)
        heard  == Range(Senders(sock[b].localbe))
    IN  /\ loop[b].local = Len(loop[b].workers)
        /\ IsInjective(loop[b].workers)
        /\ IsInjective(Senders(sock[b].localbe))
        /\ listed \cup heard \cup AtWork(b) = Mine(b)
        /\ listed \cap heard = {} /\ listed \cap AtWork(b) = {} /\ heard \cap AtWork(b) = {}

LEMMA RanksAre == WorkersListed <=> \A b \in Broker : Ranks(b)
BY DEF WorkersListed, Ranks, AtWork, Mine, Senders

LEMMA RanksNext == (WorkersListed <=> \A b \in Broker : Ranks(b))'
BY RanksAre, PTL

LEMMA RanksSame ==
    ASSUME NEW b, Ranks(b),
           loop'[b].workers = loop[b].workers, loop'[b].local = loop[b].local,
           sock'[b].localbe = sock[b].localbe,
           \A w \in ClusterWorker : Home[w] = b => cworker'[w].busy = cworker[w].busy
    PROVE  Ranks(b)'
<1>1. AtWork(b)' = AtWork(b)
  BY DEF AtWork, Mine
<1>2. Senders(sock'[b].localbe) = Senders(sock[b].localbe)
  BY Zenon
<1> QED BY <1>1, <1>2 DEF Ranks

-----------------------------------------------------------------------------
(* The initial states. *)

LEMMA InitInv == ClusterInit => ClusterInv
<1> SUFFICES ASSUME ClusterInit PROVE ClusterInv
  OBVIOUS
<1> USE ClusterAssumption
<1>1. ClusterTypeOK
  BY DEF ClusterInit, ClusterTypeOK, Peers, BrokerSockets, LoopState, ClientState, WorkerState,
         Message
<1>2. Range(<<>>) = {} /\ IsInjective(<<>>) /\ Senders(<<>>) = <<>> /\ Msgs(<<>>) = <<>>
  BY DEF Range, IsInjective, Senders, Msgs
<1>3. WorkersListed
  <2> SUFFICES ASSUME NEW b \in Broker PROVE Ranks(b)
    BY RanksAre
  <2>1. /\ loop[b].workers = <<>> /\ loop[b].local = 0 /\ sock[b].localbe = <<>>
        /\ \A w \in ClusterWorker : cworker[w].busy
    BY DEF ClusterInit
  <2>2. AtWork(b) = Mine(b)
    BY <2>1 DEF AtWork, Mine
  <2>3. Senders(sock[b].localbe) = <<>>
    BY <1>2, <2>1
  <2> QED BY <1>2, <2>1, <2>2, <2>3 DEF Ranks
<1>4. \A p \in Place : Held[p] = <<>> \/ (Held[p] = <<READY>> /\ READY \in Suits(p))
  <2> SUFFICES ASSUME NEW p \in Place
               PROVE  Held[p] = <<>> \/ (Held[p] = <<READY>> /\ READY \in Suits(p))
    OBVIOUS
  <2>1. CASE p \in {"localfe", "cloudfe", "cloudbe", "localbe"} \X Broker
    <3>1. PICK k \in {"localfe", "cloudfe", "cloudbe", "localbe"}, b \in Broker : p = <<k, b>>
      BY <2>1
    <3>2. /\ sock[b].localfe = <<>> /\ sock[b].cloudfe = <<>>
          /\ sock[b].cloudbe = <<>> /\ sock[b].localbe = <<>>
      BY DEF ClusterInit
    <3>3. Msgs(sock[b].localbe) = <<>>
      BY <1>2, <3>2
    <3> QED BY <3>1, <3>2, <3>3, HeldIs
  <2>2. CASE p \in {"work"} \X ClusterWorker
    <3>1. PICK w \in ClusterWorker : p = <<"work", w>>
      BY <2>2
    <3>2. InWork(w) = <<READY>>
      BY DEF ClusterInit, InWork
    <3> QED BY <3>1, <3>2, HeldIs, FitsIs DEF BackRequest
  <2>3. CASE p \in {"replies"} \X ClusterClient
    <3>1. PICK c \in ClusterClient : p = <<"replies", c>>
      BY <2>3
    <3> QED BY <3>1, HeldIs DEF ClusterInit
  <2> QED BY <2>1, <2>2, <2>3 DEF Place
<1>5. Placed
  <2>1. \A p \in Place : READY \in Suits(p) => READY \in Good(p)
    BY DEF Good, AtTask
  <2>2. \A S : <<>> \in Seq(S) /\ (READY \in S => <<READY>> \in Seq(S))
    OBVIOUS
  <2>3. \A p \in Place : Held[p] \in Seq(Good(p))
    BY <1>4, <2>1, <2>2, Zenon
  <2> QED BY <2>3 DEF Placed
<1>6. Clients
  <2>1. \A c \in ClusterClient : cclient[c].at = "idle" /\ c \notin lost
    BY DEF ClusterInit
  <2>2. ASSUME NEW c \in ClusterClient PROVE None(c)
    <3>1. READY \notin Of(c)
      BY DEF Of
    <3>2. \A p \in Place : Spots(Held[p], Of(c)) = {}
      BY <1>4, <3>1 DEF Spots
    <3> QED BY <3>2 DEF None, Here
  <2> QED BY <2>1, <2>2 DEF Clients
<1> QED BY <1>1, <1>3, <1>5, <1>6 DEF ClusterInv

-----------------------------------------------------------------------------
(* The tasks. *)

LEMMA TypeOf ==
    ASSUME ClusterTypeOK
    PROVE  /\ sock \in [Broker -> BrokerSockets] /\ loop \in [Broker -> LoopState]
           /\ cclient \in [ClusterClient -> ClientState]
           /\ cworker \in [ClusterWorker -> WorkerState]
           /\ \A b \in Broker : /\ sock[b].localfe \in Seq(Request)
                                /\ sock[b].cloudfe \in Seq(Request)
                                /\ sock[b].cloudbe \in Seq(Request)
                                /\ sock[b].localbe \in Seq(FromWorker)
                                /\ loop[b].workers \in Seq(ClusterWorker)
           /\ \A c \in ClusterClient : cclient[c].replies \in Seq(Request)
BY DEF ClusterTypeOK, BrokerSockets, LoopState, ClientState

\* A change of one field.
LEMMA SetLocalfe ==
    ASSUME NEW r \in BrokerSockets, NEW v
    PROVE  LET s == [r EXCEPT !.localfe = v]
           IN  /\ v \in Seq(Request) => s \in BrokerSockets
               /\ s.localfe = v /\ s.cloudfe = r.cloudfe
               /\ s.cloudbe = r.cloudbe /\ s.localbe = r.localbe
BY DEF BrokerSockets

LEMMA SetCloudfe ==
    ASSUME NEW r \in BrokerSockets, NEW v
    PROVE  LET s == [r EXCEPT !.cloudfe = v]
           IN  /\ v \in Seq(Request) => s \in BrokerSockets
               /\ s.localfe = r.localfe /\ s.cloudfe = v
               /\ s.cloudbe = r.cloudbe /\ s.localbe = r.localbe
BY DEF BrokerSockets

LEMMA SetCloudbe ==
    ASSUME NEW r \in BrokerSockets, NEW v
    PROVE  LET s == [r EXCEPT !.cloudbe = v]
           IN  /\ v \in Seq(Request) => s \in BrokerSockets
               /\ s.localfe = r.localfe /\ s.cloudfe = r.cloudfe
               /\ s.cloudbe = v /\ s.localbe = r.localbe
BY DEF BrokerSockets

LEMMA SetLocalbe ==
    ASSUME NEW r \in BrokerSockets, NEW v
    PROVE  LET s == [r EXCEPT !.localbe = v]
           IN  /\ v \in Seq(FromWorker) => s \in BrokerSockets
               /\ s.localfe = r.localfe /\ s.cloudfe = r.cloudfe
               /\ s.cloudbe = r.cloudbe /\ s.localbe = v
BY DEF BrokerSockets

LEMMA SetStatefe ==
    ASSUME NEW r \in BrokerSockets, NEW v
    PROVE  LET s == [r EXCEPT !.statefe = v]
           IN  /\ v \in Seq(Nat) => s \in BrokerSockets
               /\ s.localfe = r.localfe /\ s.cloudfe = r.cloudfe
               /\ s.cloudbe = r.cloudbe /\ s.localbe = r.localbe
BY DEF BrokerSockets

LEMMA SetMonitor ==
    ASSUME NEW r \in BrokerSockets, NEW v
    PROVE  LET s == [r EXCEPT !.monitor = v]
           IN  /\ v \in Nat => s \in BrokerSockets
               /\ s.localfe = r.localfe /\ s.cloudfe = r.cloudfe
               /\ s.cloudbe = r.cloudbe /\ s.localbe = r.localbe
BY DEF BrokerSockets

LEMMA ClientSendInv ==
    ASSUME ClusterInv, NEW c \in ClusterClient, ClientSend(c)
    PROVE  ClusterInv'
<1> DEFINE b == Home[c]
           q == <<"localfe", b>>
<1> PICK n : n = cclient[c].task + 1
  OBVIOUS
<1> PICK m : m = [route |-> <<c>>, task |-> n]
  OBVIOUS
<1>1. b \in Broker /\ n \in Nat /\ c \notin Broker
  BY ClusterAssumption, TypeOf DEF ClusterInv, ClientState
<1>2. m \in Request /\ m # READY /\ m.route = <<c>> /\ m.task = n /\ Last(m.route) = c
  BY <1>1, ClusterAssumption, RouteOne DEF Request, Routes
<1>3. m \in Suits(q) /\ q \in Place
  BY <1>1, <1>2, FitsIs, PlaceIs DEF OwnRequest, Direct
<1>4. PICK r : r = [sock[b] EXCEPT !.localfe = Append(@, m)]
  OBVIOUS
<1>5. /\ cclient[c].at = "idle"
      /\ cclient' = [cclient EXCEPT ![c].at = "waiting", ![c].task = n]
      /\ sock' = [sock EXCEPT ![b] = r]
      /\ UNCHANGED <<loop, cworker, cloudlink, statelink, lost>>
  BY <1>4 DEF ClientSend
<1> HIDE DEF b, q
<1>6. /\ r \in BrokerSockets /\ r.localfe = Append(sock[b].localfe, m)
      /\ r.cloudfe = sock[b].cloudfe /\ r.cloudbe = sock[b].cloudbe
      /\ r.localbe = sock[b].localbe
  <2>1. sock[b] \in BrokerSockets /\ Append(sock[b].localfe, m) \in Seq(Request)
    BY <1>1, <1>2, TypeOf, AppendSeq DEF ClusterInv
  <2> QED BY <1>4, <2>1, SetLocalfe
<1>7. /\ sock' \in [Broker -> BrokerSockets]
      /\ sock'[b] = r /\ \A x \in Broker \ {b} : sock'[x] = sock[x]
  BY <1>1, <1>5, <1>6, TypeOf DEF ClusterInv
<1>8. /\ cclient' \in [ClusterClient -> ClientState]
      /\ \A d \in ClusterClient : cclient'[d].replies = cclient[d].replies
      /\ \A d \in ClusterClient \ {c} : cclient'[d] = cclient[d]
      /\ cclient'[c].at = "waiting" /\ cclient'[c].task = n
  BY <1>1, <1>5, TypeOf DEF ClusterInv, ClientState
<1>9. ClusterTypeOK'
  BY <1>5, <1>7, <1>8 DEF ClusterInv, ClusterTypeOK
<1>10. WorkersListed'
  <2>1. \A x \in Broker : sock'[x].localbe = sock[x].localbe
    BY <1>6, <1>7
  <2>2. \A x \in Broker : Ranks(x)
    BY RanksAre DEF ClusterInv
  <2>3. \A x \in Broker : Ranks(x)'
    BY <1>5, <2>1, <2>2, RanksSame
  <2> QED BY <2>3, RanksNext
<1>11. Put(q, m)
  <2>1. Pushed(q, m)
    BY <1>1, <1>6, <1>7, HeldIs, HeldNext DEF Pushed, q
  <2>2. \A x \in Broker : /\ <<"localfe", x>> \notin {q} => sock'[x].localfe = sock[x].localfe
                          /\ sock'[x].cloudfe = sock[x].cloudfe
                          /\ sock'[x].cloudbe = sock[x].cloudbe
                          /\ sock'[x].localbe = sock[x].localbe
    BY <1>6, <1>7 DEF q
  <2>3. Same({q})
    BY <1>5, <1>8, <2>2, SameByKind
  <2> QED BY <2>1, <2>3 DEF Put
<1>12. None(c) /\ c \notin lost
  BY <1>5 DEF ClusterInv, Clients
<1>13. Placed'
  <2>1. ASSUME NEW p \in Place PROVE Held[p] \in Seq(Good(p)')
    <3>1. Held[p] \in Seq(Good(p)) /\ Spots(Held[p], Of(c)) = {}
      BY <1>12 DEF ClusterInv, Placed, None, Here
    <3>2. \A i \in DOMAIN Held[p] : Held[p][i] \in Good(p) /\ Held[p][i] \notin Of(c)
      BY <3>1 DEF Spots
    <3>3. ASSUME NEW x \in Good(p), x \notin Of(c)
          PROVE  x \in Good(p)'
      <4>1. x \in Suits(p) /\ AtTask(x) /\ x \in Message
        BY FitsMessage DEF Good
      <4>2. x # READY => Last(x.route) \in ClusterClient \ {c}
        BY <3>3, <4>1, ClientOf DEF Message, Of
      <4>3. AtTask(x)'
        BY <1>8, <4>1, <4>2 DEF AtTask
      <4> QED BY <4>1, <4>3 DEF Good
    <3>4. \A i \in DOMAIN Held[p] : Held[p][i] \in Good(p)'
      BY <3>2, <3>3
    <3> QED BY <3>1, <3>4
  <2>2. m \in Good(q)'
    <3>1. AtTask(m)'
      BY <1>2, <1>8 DEF AtTask
    <3> QED BY <1>3, <3>1 DEF Good
  <2>3. Held'[q] \in Seq(Good(q)')
    BY <1>3, <1>11, <2>1, <2>2, AppendSeq DEF Put, Pushed
  <2>4. ASSUME NEW p \in Place \ {q} PROVE Held'[p] \in Seq(Good(p)')
    <3>1. Held'[p] = Held[p]
      BY <1>11 DEF Put, Same
    <3> QED BY <2>1, <3>1
  <2>5. ASSUME NEW p \in Place PROVE Held'[p] \in Seq(Good(p)')
    <3>1. CASE p = q
      BY <2>3, <3>1
    <3> QED BY <2>4, <3>1
  <2> QED BY <2>5 DEF Placed
<1>14. Clients'
  <2>1. Held[q] \in Seq(Message) /\ m \in Message
    <3>1. Held[q] \in Seq(Good(q)) /\ Good(q) \subseteq Message
      BY <1>3, FitsMessage DEF ClusterInv, Placed, Good
    <3> QED BY <1>2, <3>1 DEF Message
  <2>2. \A d \in ClusterClient : m \in Of(d) <=> d = c
    BY <1>2 DEF Of
  <2>3. \A d \in ClusterClient : /\ m \in Of(d) /\ None(d) => One(d)'
                                 /\ m \notin Of(d) => (One(d) => One(d)') /\ (None(d) => None(d)')
    BY <1>3, <1>11, <2>1, PutKeeps
  <2> QED BY <1>5, <1>8, <1>12, <2>2, <2>3 DEF ClusterInv, Clients
<1> QED BY <1>9, <1>10, <1>13, <1>14 DEF ClusterInv

\* The request that the reply of a client answers is the one it waits for.
LEMMA ClientReceiveInv ==
    ASSUME ClusterInv, NEW c \in ClusterClient, ClientReceive(c)
    PROVE  ClusterInv'
<1> DEFINE p == <<"replies", c>>
<1>1. /\ cclient[c].at = "waiting"
      /\ cclient[c].replies # <<>> /\ cclient[c].replies \in Seq(Request)
  BY TypeOf DEF ClusterInv, ClientReceive
<1> PICK m : m = Head(cclient[c].replies)
  OBVIOUS
<1>2. p \in Place /\ Held[p] = cclient[c].replies
  BY PlaceIs, HeldIs
<1>3. Held[p] \in Seq(Good(p))
  BY <1>2 DEF ClusterInv, Placed
<1>4. m \in Good(p)
  BY <1>1, <1>2, <1>3, TailSeq
<1>5. m \in Request /\ m # READY /\ m.route = <<c>> /\ Last(m.route) = c
  <2>1. m \in {x \in Request : Direct(x, c)}
    BY <1>4, FitsIs DEF Good
  <2> QED BY <2>1, ClusterAssumption, RouteOne DEF Direct
<1>6. m.task = cclient[c].task
  BY <1>4, <1>5 DEF Good, AtTask
<1> PICK b : b = Home[c]
  OBVIOUS
<1>7. b \in Broker
  BY ClusterAssumption
<1> PICK r : r = [sock[b] EXCEPT !.monitor = @ + 1]
  OBVIOUS
<1>8. /\ cclient' = [cclient EXCEPT ![c].at = "idle", ![c].replies = Tail(@)]
      /\ sock' = [sock EXCEPT ![b] = r]
      /\ UNCHANGED <<loop, cworker, cloudlink, statelink, lost>>
  BY <1>6 DEF ClientReceive
<1>9. /\ r \in BrokerSockets /\ r.localfe = sock[b].localfe
      /\ r.cloudfe = sock[b].cloudfe /\ r.cloudbe = sock[b].cloudbe
      /\ r.localbe = sock[b].localbe
  <2>1. sock[b] \in BrokerSockets /\ sock[b].monitor + 1 \in Nat
    BY <1>7, TypeOf DEF ClusterInv, BrokerSockets
  <2> QED BY <2>1, SetMonitor
<1>10. /\ sock' \in [Broker -> BrokerSockets]
       /\ \A x \in Broker : /\ sock'[x].localfe = sock[x].localfe
                            /\ sock'[x].cloudfe = sock[x].cloudfe
                            /\ sock'[x].cloudbe = sock[x].cloudbe
                            /\ sock'[x].localbe = sock[x].localbe
  BY <1>7, <1>8, <1>9, TypeOf DEF ClusterInv
<1>11. /\ cclient' \in [ClusterClient -> ClientState]
       /\ \A d \in ClusterClient \ {c} : cclient'[d] = cclient[d]
       /\ cclient'[c].at = "idle" /\ cclient'[c].task = cclient[c].task
       /\ cclient'[c].replies = Tail(cclient[c].replies)
  <2>1. Tail(cclient[c].replies) \in Seq(Request)
    BY <1>1, TailSeq
  <2> QED BY <1>8, <2>1, TypeOf DEF ClusterInv, ClientState
<1> HIDE DEF p
<1>12. ClusterTypeOK'
  BY <1>8, <1>10, <1>11 DEF ClusterInv, ClusterTypeOK
<1>13. WorkersListed'
  <2>1. \A x \in Broker : Ranks(x)
    BY RanksAre DEF ClusterInv
  <2>2. \A x \in Broker : Ranks(x)'
    BY <1>8, <1>10, <2>1, RanksSame
  <2> QED BY <2>2, RanksNext
<1>14. Drop(p)
  <2>1. Held'[p] = cclient'[c].replies
    BY HeldNext DEF p
  <2>2. PopsOne(p)
    BY <1>1, <1>2, <1>11, <2>1 DEF PopsOne
  <2>3. \A d \in ClusterClient : <<"replies", d>> \notin {p} => cclient'[d].replies = cclient[d].replies
    BY <1>11 DEF p
  <2>4. Same({p})
    BY <1>8, <1>10, <2>3, SameByKind
  <2> QED BY <2>2, <2>4 DEF Drop
<1>15. Placed'
  <2>1. SameTasks
    BY <1>11 DEF SameTasks
  <2> QED BY <1>14, <2>1, PlacedBy DEF ClusterInv, Drop, Same
<1>16. Clients'
  <2>1. \A d \in ClusterClient : m \in Of(d) <=> d = c
    BY <1>5 DEF Of
  <2>2. \A d \in ClusterClient : /\ None(d) => None(d)'
                                 /\ m \in Of(d) /\ One(d) => None(d)'
                                 /\ m \notin Of(d) /\ One(d) => One(d)'
    BY <1>2, <1>3, <1>14, DropKeeps
  <2>3. ~None(c)
    <3>1. Here(p, c) # {}
      BY <1>2, <1>3, <1>14, <2>1, PoppedHere DEF Drop
    <3> QED BY <1>2, <3>1 DEF None
  <2>4. c \notin lost /\ One(c)
    BY <1>1, <2>3 DEF ClusterInv, Clients
  <2> QED BY <1>8, <1>11, <2>1, <2>2, <2>4 DEF ClusterInv, Clients
<1> QED BY <1>12, <1>13, <1>15, <1>16 DEF ClusterInv

LEMMA ClientExitInv ==
    ASSUME ClusterInv, NEW c \in ClusterClient, ClientExit(c)
    PROVE  ClusterInv'
<1> PICK b : b = Home[c]
  OBVIOUS
<1>1. b \in Broker
  BY ClusterAssumption
<1> PICK r : r = [sock[b] EXCEPT !.monitor = @ + 1]
  OBVIOUS
<1>2. /\ cclient[c].at = "waiting"
      /\ cclient' = [cclient EXCEPT ![c].at = "gone"]
      /\ sock' = [sock EXCEPT ![b] = r]
      /\ UNCHANGED <<loop, cworker, cloudlink, statelink, lost>>
  BY DEF ClientExit
<1>3. /\ r \in BrokerSockets /\ r.localfe = sock[b].localfe
      /\ r.cloudfe = sock[b].cloudfe /\ r.cloudbe = sock[b].cloudbe
      /\ r.localbe = sock[b].localbe
  <2>1. sock[b] \in BrokerSockets /\ sock[b].monitor + 1 \in Nat
    BY <1>1, TypeOf DEF ClusterInv, BrokerSockets
  <2> QED BY <2>1, SetMonitor
<1>4. /\ sock' \in [Broker -> BrokerSockets]
      /\ \A x \in Broker : /\ sock'[x].localfe = sock[x].localfe
                           /\ sock'[x].cloudfe = sock[x].cloudfe
                           /\ sock'[x].cloudbe = sock[x].cloudbe
                           /\ sock'[x].localbe = sock[x].localbe
  BY <1>1, <1>2, <1>3, TypeOf DEF ClusterInv
<1>5. /\ cclient' \in [ClusterClient -> ClientState]
      /\ \A d \in ClusterClient : cclient'[d].replies = cclient[d].replies
      /\ \A d \in ClusterClient : cclient'[d].task = cclient[d].task
      /\ \A d \in ClusterClient \ {c} : cclient'[d] = cclient[d]
      /\ cclient'[c].at = "gone"
  BY <1>2, TypeOf DEF ClusterInv, ClientState
<1>6. ClusterTypeOK'
  BY <1>2, <1>4, <1>5 DEF ClusterInv, ClusterTypeOK
<1>7. WorkersListed'
  <2>1. \A x \in Broker : Ranks(x)
    BY RanksAre DEF ClusterInv
  <2>2. \A x \in Broker : Ranks(x)'
    BY <1>2, <1>4, <2>1, RanksSame
  <2> QED BY <2>2, RanksNext
<1>8. Still
  BY <1>2, <1>4, <1>5, SameByKind DEF Still
<1>9. Placed'
  <2>1. SameTasks
    BY <1>5 DEF SameTasks
  <2> QED BY <1>8, <2>1, PlacedBy DEF ClusterInv, Still, Same
<1>10. Clients'
  <2>1. \A d \in ClusterClient : (One(d) => One(d)') /\ (None(d) => None(d)')
    BY <1>8, StillKeeps
  <2> QED BY <1>2, <1>5, <2>1 DEF ClusterInv, Clients
<1> QED BY <1>6, <1>7, <1>9, <1>10 DEF ClusterInv

LEMMA WorkerSendInv ==
    ASSUME ClusterInv, NEW w \in ClusterWorker, WorkerSend(w)
    PROVE  ClusterInv'
<1> DEFINE b == Home[w]
           p == <<"work", w>>
           q == <<"localbe", b>>
<1> PICK m : m = cworker[w].work
  OBVIOUS
<1> PICK x : x = [from |-> w, msg |-> m]
  OBVIOUS
<1> PICK r : r = [sock[b] EXCEPT !.localbe = Append(@, x)]
  OBVIOUS
<1>1. /\ cworker[w].busy
      /\ sock' = [sock EXCEPT ![b] = r]
      /\ cworker' = [cworker EXCEPT ![w].busy = FALSE]
      /\ UNCHANGED <<loop, cclient, cloudlink, statelink, lost>>
  BY DEF WorkerSend
<1>2. b \in Broker /\ x \in FromWorker /\ x.msg = m /\ x.from = w
  BY ClusterAssumption, TypeOf DEF ClusterInv, WorkerState, FromWorker
<1>3. /\ r \in BrokerSockets /\ r.localbe = Append(sock[b].localbe, x)
      /\ r.localfe = sock[b].localfe /\ r.cloudfe = sock[b].cloudfe
      /\ r.cloudbe = sock[b].cloudbe
  <2>1. sock[b] \in BrokerSockets /\ Append(sock[b].localbe, x) \in Seq(FromWorker)
    BY <1>2, TypeOf, AppendSeq DEF ClusterInv
  <2> QED BY <2>1, SetLocalbe
<1> HIDE DEF b, p, q
<1>4. /\ sock' \in [Broker -> BrokerSockets]
      /\ sock'[b] = r /\ \A y \in Broker \ {b} : sock'[y] = sock[y]
  BY <1>1, <1>2, <1>3, TypeOf DEF ClusterInv
<1>5. /\ cworker' \in [ClusterWorker -> WorkerState]
      /\ ~cworker'[w].busy
      /\ \A v \in ClusterWorker \ {w} : cworker'[v] = cworker[v]
  BY <1>1, TypeOf DEF ClusterInv, WorkerState
<1>6. ClusterTypeOK'
  BY <1>1, <1>4, <1>5 DEF ClusterInv, ClusterTypeOK
<1>7. sock[b].localbe \in Seq(FromWorker)
  BY <1>2, TypeOf DEF ClusterInv
<1>8. /\ Msgs(sock'[b].localbe) = Append(Msgs(sock[b].localbe), m)
      /\ Senders(sock'[b].localbe) = Append(Senders(sock[b].localbe), w)
  <2>1. sock'[b].localbe = Append(sock[b].localbe, x)
    BY <1>3, <1>4
  <2>2. /\ Msgs(Append(sock[b].localbe, x)) = Append(Msgs(sock[b].localbe), m)
        /\ Senders(Append(sock[b].localbe, x)) = Append(Senders(sock[b].localbe), w)
    BY <1>2, <1>7, BackPushed
  <2> QED BY <2>1, <2>2, Zenon
<1>9. WorkersListed'
  <2>1. \A y \in Broker : Ranks(y)
    BY RanksAre DEF ClusterInv
  <2>2. ASSUME NEW y \in Broker \ {b} PROVE Ranks(y)'
    <3>1. \A v \in ClusterWorker : Home[v] = y => cworker'[v].busy = cworker[v].busy
      BY <1>5, <2>2 DEF b
    <3>2. sock'[y].localbe = sock[y].localbe
      BY <1>4, <2>2
    <3> QED BY <1>1, <2>1, <2>2, <3>1, <3>2, RanksSame
  <2>3. Ranks(b)'
    <3>1. Ranks(b) /\ w \in AtWork(b)
      BY <1>1, <1>2, <2>1 DEF AtWork, Mine, b
    <3>2. AtWork(b)' = AtWork(b) \ {w}
      BY <1>5 DEF AtWork, Mine
    <3>3. /\ IsInjective(Append(Senders(sock[b].localbe), w))
          /\ Range(Append(Senders(sock[b].localbe), w)) = Range(Senders(sock[b].localbe)) \cup {w}
      <4>1. Senders(sock[b].localbe) \in Seq(ClusterWorker)
        BY <1>7, SendersSeq
      <4>2. w \notin Range(Senders(sock[b].localbe)) /\ IsInjective(Senders(sock[b].localbe))
        BY <3>1 DEF Ranks
      <4> QED BY <4>1, <4>2, InjPushed
    <3>4. loop'[b] = loop[b]
      BY <1>1
    <3> QED BY <1>8, <3>1, <3>2, <3>3, <3>4 DEF Ranks
  <2>4. \A y \in Broker : Ranks(y)'
    BY <2>2, <2>3
  <2> QED BY <2>4, RanksNext
<1>10. p \in Place /\ q \in Place /\ p # q
  BY <1>2, PlaceIs DEF p, q
<1>11. Held[p] = <<m>> /\ Held'[p] = <<>>
  <2>1. InWork(w) = <<m>> /\ InWork(w)' = <<>>
    BY <1>1, <1>5 DEF InWork
  <2> QED BY <2>1, HeldIs, HeldNext DEF p
<1>12. Head(<<m>>) = m /\ Tail(<<m>>) = <<>> /\ <<m>> # <<>>
  OBVIOUS
<1>13. Pass(p, q, m)
  <2>1. PopsOne(p)
    BY <1>11, <1>12 DEF PopsOne
  <2>2. Pushed(q, m)
    BY <1>2, <1>8, HeldIs, HeldNext DEF Pushed, q
  <2>3. \A y \in Broker : /\ sock'[y].localfe = sock[y].localfe
                          /\ sock'[y].cloudfe = sock[y].cloudfe
                          /\ sock'[y].cloudbe = sock[y].cloudbe
                          /\ <<"localbe", y>> \notin {p, q} => sock'[y].localbe = sock[y].localbe
    BY <1>3, <1>4 DEF q
  <2>4. \A v \in ClusterWorker : <<"work", v>> \notin {p, q} => cworker'[v] = cworker[v]
    BY <1>5 DEF p
  <2>5. Same({p, q})
    BY <1>1, <2>3, <2>4, SameByKind
  <2> QED BY <1>10, <2>1, <2>2, <2>5 DEF Pass
<1>14. m \in Suits(q)
  <2>1. Held[p] \in Seq(Good(p)) /\ Held[p] # <<>> /\ Head(Held[p]) = m
    BY <1>10, <1>11, <1>12 DEF ClusterInv, Placed
  <2>2. m \in Suits(p)
    BY <2>1, TailSeq DEF Good
  <2> QED BY <2>2, FitsIs DEF p, q, b
<1>15. Quiet
  BY <1>1 DEF Quiet
<1>16. SameTask(Head(Held[p]), m)
  BY <1>11, <1>12 DEF SameTask
<1> QED BY <1>6, <1>9, <1>10, <1>13, <1>14, <1>15, <1>16, PassInv DEF ClusterInv

-----------------------------------------------------------------------------
(* The inner loop of a broker. *)

\* Steps that touch neither requests nor workers.
LEMMA LinksInv ==
    ASSUME ClusterInv, NEW b \in Broker, CloudConnect(b) \/ StateConnect(b)
    PROVE  ClusterInv'
<1>1. UNCHANGED <<sock, loop, cclient, cworker, lost>>
  BY DEF CloudConnect, StateConnect
<1>2. ClusterTypeOK'
  <2>1. CASE CloudConnect(b)
    <3>1. PICK p \in Peers(b) : cloudlink' = [cloudlink EXCEPT ![b] = @ \cup {p}]
      BY <2>1 DEF CloudConnect
    <3>2. statelink' = statelink
      BY <2>1 DEF CloudConnect
    <3> QED BY <1>1, <3>1, <3>2 DEF ClusterInv, ClusterTypeOK, Peers
  <2>2. CASE StateConnect(b)
    <3>1. PICK p \in Peers(b) : statelink' = [statelink EXCEPT ![b] = @ \cup {p}]
      BY <2>2 DEF StateConnect
    <3>2. cloudlink' = cloudlink
      BY <2>2 DEF StateConnect
    <3> QED BY <1>1, <3>1, <3>2 DEF ClusterInv, ClusterTypeOK, Peers
  <2> QED BY <2>1, <2>2
<1>3. WorkersListed'
  <2>1. \A x \in Broker : Ranks(x)
    BY RanksAre DEF ClusterInv
  <2>2. \A x \in Broker : Ranks(x)'
    BY <1>1, <2>1, RanksSame
  <2> QED BY <2>2, RanksNext
<1>4. Still
  BY <1>1, SameByKind DEF Still
<1>5. Quiet
  BY <1>1 DEF Quiet
<1> QED BY <1>2, <1>3, <1>4, <1>5, StillInv DEF ClusterInv

LEMMA PublishInv ==
    ASSUME ClusterInv, NEW b \in Broker, Publish(b)
    PROVE  ClusterInv'
<1>1. /\ loop' = [loop EXCEPT ![b].at = "primary"]
      /\ UNCHANGED <<cclient, cworker, cloudlink, statelink, lost>>
  BY DEF Publish
<1>2. /\ loop' \in [Broker -> LoopState]
      /\ \A x \in Broker : loop'[x].workers = loop[x].workers /\ loop'[x].local = loop[x].local
  BY <1>1, TypeOf DEF ClusterInv, LoopState
<1>3. /\ sock' \in [Broker -> BrokerSockets]
      /\ \A x \in Broker : /\ sock'[x].localfe = sock[x].localfe
                           /\ sock'[x].cloudfe = sock[x].cloudfe
                           /\ sock'[x].cloudbe = sock[x].cloudbe
                           /\ sock'[x].localbe = sock[x].localbe
  <2>1. CASE sock' = sock
    BY <2>1, TypeOf DEF ClusterInv
  <2>2. CASE sock' = [p \in Broker |-> IF b \in statelink[p]
                                       THEN [sock[p] EXCEPT !.statefe = Append(@, loop[b].local)]
                                       ELSE sock[p]]
    <3>1. ASSUME NEW x \in Broker
          PROVE  /\ sock'[x] \in BrokerSockets
                 /\ sock'[x].localfe = sock[x].localfe /\ sock'[x].cloudfe = sock[x].cloudfe
                 /\ sock'[x].cloudbe = sock[x].cloudbe /\ sock'[x].localbe = sock[x].localbe
      <4>1. sock[x] \in BrokerSockets /\ loop[b].local \in Nat /\ sock[x].statefe \in Seq(Nat)
        BY TypeOf DEF ClusterInv, LoopState, BrokerSockets
      <4>2. Append(sock[x].statefe, loop[b].local) \in Seq(Nat)
        BY <4>1, AppendSeq
      <4>3. CASE b \in statelink[x]
        BY <2>2, <4>1, <4>2, <4>3, SetStatefe
      <4>4. CASE b \notin statelink[x]
        BY <2>2, <4>1, <4>4
      <4> QED BY <4>3, <4>4
    <3>2. sock' = [x \in Broker |-> sock'[x]]
      BY <2>2
    <3> QED BY <3>1, <3>2
  <2> QED BY <2>1, <2>2 DEF Publish
<1>4. ClusterTypeOK'
  BY <1>1, <1>2, <1>3 DEF ClusterInv, ClusterTypeOK
<1>5. WorkersListed'
  <2>1. \A x \in Broker : Ranks(x)
    BY RanksAre DEF ClusterInv
  <2>2. \A x \in Broker : Ranks(x)'
    BY <1>1, <1>2, <1>3, <2>1, RanksSame
  <2> QED BY <2>2, RanksNext
<1>6. Still
  BY <1>1, <1>3, SameByKind DEF Still
<1>7. Quiet
  BY <1>1 DEF Quiet
<1> QED BY <1>4, <1>5, <1>6, <1>7, StillInv DEF ClusterInv

\* The first message of a front end is taken.
SansHead(s, b, k) == s = [sock EXCEPT ![b][k] = Tail(@)]

FrontOut(s, b, k) ==
    /\ s \in [Broker -> BrokerSockets]
    /\ Held[<<k, b>>] = sock[b][k]
    /\ k = "localfe" => s[b].localfe = Tail(Held[<<k, b>>])
    /\ k = "cloudfe" => s[b].cloudfe = Tail(Held[<<k, b>>])
    /\ \A y \in Broker :
          /\ <<"localfe", y>> # <<k, b>> => s[y].localfe = sock[y].localfe
          /\ <<"cloudfe", y>> # <<k, b>> => s[y].cloudfe = sock[y].cloudfe
          /\ s[y].cloudbe = sock[y].cloudbe
          /\ s[y].localbe = sock[y].localbe

LEMMA FrontTaken ==
    ASSUME ClusterInv, NEW b \in Broker, NEW k \in {"localfe", "cloudfe"},
           sock[b][k] # <<>>, NEW s, SansHead(s, b, k)
    PROVE  FrontOut(s, b, k)
<1> USE DEF FrontOut
<1>1. sock \in [Broker -> BrokerSockets] /\ sock[b] \in BrokerSockets
  BY TypeOf DEF ClusterInv
<1>2. CASE k = "localfe"
  <2> PICK r : r = [sock[b] EXCEPT !.localfe = Tail(sock[b].localfe)]
    OBVIOUS
  <2>1. s = [sock EXCEPT ![b] = r]
    BY <1>2 DEF SansHead
  <2>2. sock[b].localfe \in Seq(Request) /\ sock[b].localfe # <<>>
    BY <1>2, TypeOf DEF ClusterInv
  <2>3. Tail(sock[b].localfe) \in Seq(Request)
    BY <2>2, TailSeq
  <2>4. /\ r \in BrokerSockets /\ r.localfe = Tail(sock[b].localfe)
        /\ r.cloudfe = sock[b].cloudfe /\ r.cloudbe = sock[b].cloudbe
        /\ r.localbe = sock[b].localbe
    BY <1>1, <2>3, SetLocalfe
  <2>5. s[b] = r /\ \A y \in Broker \ {b} : s[y] = sock[y]
    BY <1>1, <2>1
  <2>6. s \in [Broker -> BrokerSockets]
    BY <1>1, <2>1, <2>4
  <2>7. Held[<<k, b>>] = sock[b].localfe
    BY <1>2, HeldIs
  <2> QED BY <1>2, <2>4, <2>5, <2>6, <2>7
<1>3. CASE k = "cloudfe"
  <2> PICK r : r = [sock[b] EXCEPT !.cloudfe = Tail(sock[b].cloudfe)]
    OBVIOUS
  <2>1. s = [sock EXCEPT ![b] = r]
    BY <1>3 DEF SansHead
  <2>2. sock[b].cloudfe \in Seq(Request) /\ sock[b].cloudfe # <<>>
    BY <1>3, TypeOf DEF ClusterInv
  <2>3. Tail(sock[b].cloudfe) \in Seq(Request)
    BY <2>2, TailSeq
  <2>4. /\ r \in BrokerSockets /\ r.cloudfe = Tail(sock[b].cloudfe)
        /\ r.localfe = sock[b].localfe /\ r.cloudbe = sock[b].cloudbe
        /\ r.localbe = sock[b].localbe
    BY <1>1, <2>3, SetCloudfe
  <2>5. s[b] = r /\ \A y \in Broker \ {b} : s[y] = sock[y]
    BY <1>1, <2>1
  <2>6. s \in [Broker -> BrokerSockets]
    BY <1>1, <2>1, <2>4
  <2>7. Held[<<k, b>>] = sock[b].cloudfe
    BY <1>3, HeldIs
  <2> QED BY <1>3, <2>4, <2>5, <2>6, <2>7
<1> QED BY <1>2, <1>3

LEMMA SourceIs ==
    ASSUME ClusterInv, NEW b \in Broker, Source(b) # "none"
    PROVE  /\ Source(b) \in {"localfe", "cloudfe"}
           /\ sock[b][Source(b)] # <<>>
           /\ ~ (loop[b].local > 0) => Source(b) = "localfe"
BY DEF Source, Polled

\* The first idle worker has what the front end had first.
LEMMA RouteLocalInv ==
    ASSUME ClusterInv, NEW b \in Broker, RouteLocal(b)
    PROVE  ClusterInv'
<1> PICK k : k = Source(b)
  OBVIOUS
<1> PICK w : w = Head(loop[b].workers)
  OBVIOUS
<1> PICK m : m = Head(sock[b][k])
  OBVIOUS
<1> DEFINE p == <<k, b>>
           q == <<"work", w>>
<1>1. k \in {"localfe", "cloudfe"} /\ sock[b][k] # <<>>
  BY SourceIs DEF RouteLocal
<1>2. /\ loop[b].local > 0
      /\ sock' = [sock EXCEPT ![b][k] = Tail(@)]
      /\ cworker' = [cworker EXCEPT ![w] = [busy |-> TRUE, work |-> m]]
      /\ loop' = [loop EXCEPT ![b] = Taken(@)]
      /\ UNCHANGED <<cclient, cloudlink, statelink, lost>>
  BY DEF RouteLocal
<1> HIDE DEF p, q
<1>3. Ranks(b) /\ loop[b].workers \in Seq(ClusterWorker) /\ loop[b] \in LoopState
  BY RanksAre, TypeOf DEF ClusterInv
<1>4. loop[b].workers # <<>> /\ loop[b].local \in Nat
  BY <1>2, <1>3 DEF Ranks, LoopState
<1>5. /\ IsInjective(Tail(loop[b].workers))
      /\ Range(Tail(loop[b].workers)) = Range(loop[b].workers) \ {w}
      /\ w \in Range(loop[b].workers)
  BY <1>3, <1>4, InjPopped DEF Ranks
<1>6. /\ w \in Mine(b) /\ w \notin AtWork(b)
      /\ w \in ClusterWorker /\ Home[w] = b /\ ~cworker[w].busy
  BY <1>3, <1>5 DEF Ranks, AtWork, Mine
<1>7. p \in Place /\ q \in Place /\ p # q
  BY <1>1, <1>6, PlaceIs DEF p, q
<1>8. Held[p] = sock[b][k]
  <2> PICK s : SansHead(s, b, k)
    BY DEF SansHead
  <2>1. FrontOut(s, b, k)
    BY <1>1, FrontTaken
  <2> QED BY <2>1 DEF FrontOut, p
<1>9. m \in Good(p)
  <2>1. Held[p] \in Seq(Good(p))
    BY <1>7 DEF ClusterInv, Placed
  <2> QED BY <1>1, <1>8, <2>1, TailSeq
<1>10. m \in BackRequest(b) /\ m \in Message
  <2>1. m \in Suits(p) /\ m \in Message
    BY <1>7, <1>9, FitsMessage DEF Good
  <2>2. m \in OwnRequest(b) \/ m \in PeerRequest(b)
    BY <1>1, <2>1, FitsIs DEF p
  <2> QED BY <2>1, <2>2 DEF BackRequest
<1>11. /\ sock' \in [Broker -> BrokerSockets]
       /\ Held'[p] = Tail(Held[p])
       /\ \A y \in Broker : /\ <<"localfe", y>> # p => sock'[y].localfe = sock[y].localfe
                            /\ <<"cloudfe", y>> # p => sock'[y].cloudfe = sock[y].cloudfe
                            /\ sock'[y].cloudbe = sock[y].cloudbe
                            /\ sock'[y].localbe = sock[y].localbe
  <2>1. /\ sock' \in [Broker -> BrokerSockets]
        /\ k = "localfe" => sock'[b].localfe = Tail(Held[p])
        /\ k = "cloudfe" => sock'[b].cloudfe = Tail(Held[p])
        /\ \A y \in Broker : /\ <<"localfe", y>> # p => sock'[y].localfe = sock[y].localfe
                             /\ <<"cloudfe", y>> # p => sock'[y].cloudfe = sock[y].cloudfe
                             /\ sock'[y].cloudbe = sock[y].cloudbe
                             /\ sock'[y].localbe = sock[y].localbe
    <3> PICK s : SansHead(s, b, k)
      BY DEF SansHead
    <3>1. FrontOut(s, b, k)
      BY <1>1, FrontTaken
    <3>2. sock' = s
      BY <1>2 DEF SansHead
    <3> QED BY <3>1, <3>2 DEF FrontOut, p
  <2>2. Held'[p] = Tail(Held[p])
    BY <1>1, <2>1, HeldNext DEF p
  <2> QED BY <2>1, <2>2
<1>12. /\ cworker' \in [ClusterWorker -> WorkerState]
       /\ cworker'[w].busy /\ cworker'[w].work = m
       /\ \A v \in ClusterWorker \ {w} : cworker'[v] = cworker[v]
  <2>1. [busy |-> TRUE, work |-> m] \in WorkerState
    BY <1>10 DEF WorkerState
  <2> QED BY <1>2, <1>6, <2>1, TypeOf DEF ClusterInv
<1>13. /\ loop' \in [Broker -> LoopState]
       /\ loop'[b].workers = Tail(loop[b].workers) /\ loop'[b].local = loop[b].local - 1
       /\ \A y \in Broker \ {b} : loop'[y] = loop[y]
  <2>1. Tail(loop[b].workers) \in Seq(ClusterWorker) /\ loop[b].local - 1 \in Nat
    BY <1>2, <1>3, <1>4, TailSeq
  <2>2. PICK l : l = Taken(loop[b])
    OBVIOUS
  <2>3. l \in LoopState /\ l.workers = Tail(loop[b].workers) /\ l.local = loop[b].local - 1
    BY <1>3, <2>1, <2>2 DEF Taken, LoopState
  <2>4. loop' = [loop EXCEPT ![b] = l]
    BY <1>2, <2>2
  <2> QED BY <2>3, <2>4, TypeOf DEF ClusterInv
<1>14. ClusterTypeOK'
  BY <1>2, <1>11, <1>12, <1>13 DEF ClusterInv, ClusterTypeOK
<1>15. WorkersListed'
  <2>1. \A y \in Broker : Ranks(y)
    BY RanksAre DEF ClusterInv
  <2>2. ASSUME NEW y \in Broker \ {b} PROVE Ranks(y)'
    <3>1. \A v \in ClusterWorker : Home[v] = y => cworker'[v].busy = cworker[v].busy
      BY <1>6, <1>12, <2>2
    <3>2. sock'[y].localbe = sock[y].localbe /\ loop'[y] = loop[y]
      BY <1>11, <1>13, <2>2
    <3> QED BY <2>1, <2>2, <3>1, <3>2, RanksSame
  <2>3. Ranks(b)'
    <3>1. AtWork(b)' = AtWork(b) \cup {w}
      BY <1>6, <1>12 DEF AtWork, Mine
    <3>2. Len(Tail(loop[b].workers)) = Len(loop[b].workers) - 1
      BY <1>3, <1>4, HeadTailProperties, EmptySeq
    <3>3. sock'[b].localbe = sock[b].localbe
      BY <1>11
    <3>4. Senders(sock'[b].localbe) = Senders(sock[b].localbe)
      BY <3>3, Zenon
    <3> QED BY <1>3, <1>5, <1>13, <3>1, <3>2, <3>4 DEF Ranks
  <2>4. \A y \in Broker : Ranks(y)'
    BY <2>2, <2>3
  <2> QED BY <2>4, RanksNext
<1>16. Pass(p, q, m)
  <2>1. PopsOne(p)
    BY <1>1, <1>8, <1>11 DEF PopsOne
  <2>2. Pushed(q, m)
    <3>1. InWork(w) = <<>> /\ InWork(w)' = <<m>>
      BY <1>6, <1>12 DEF InWork
    <3>2. Held[q] = <<>> /\ Held'[q] = <<m>>
      BY <1>6, <3>1, HeldIs, HeldNext DEF q
    <3>3. Append(<<>>, m) = <<m>>
      OBVIOUS
    <3> QED BY <3>2, <3>3 DEF Pushed
  <2>3. \A y \in Broker : /\ <<"localfe", y>> \notin {p, q} => sock'[y].localfe = sock[y].localfe
                          /\ <<"cloudfe", y>> \notin {p, q} => sock'[y].cloudfe = sock[y].cloudfe
                          /\ sock'[y].cloudbe = sock[y].cloudbe
                          /\ sock'[y].localbe = sock[y].localbe
    BY <1>11
  <2>4. \A v \in ClusterWorker : <<"work", v>> \notin {p, q} => cworker'[v] = cworker[v]
    BY <1>12 DEF q
  <2>5. Same({p, q})
    BY <1>2, <2>3, <2>4, SameByKind
  <2> QED BY <1>7, <2>1, <2>2, <2>5 DEF Pass
<1>17. m \in Suits(q)
  BY <1>6, <1>10, FitsIs DEF q
<1>18. SameTask(Head(Held[p]), m)
  BY <1>8 DEF SameTask
<1>19. Quiet
  BY <1>2 DEF Quiet
<1> QED BY <1>7, <1>14, <1>15, <1>16, <1>17, <1>18, <1>19, PassInv DEF ClusterInv

\* A peer has it, or nobody has.
LEMMA RouteCloudInv ==
    ASSUME ClusterInv, NEW b \in Broker, RouteCloud(b)
    PROVE  ClusterInv'
<1> PICK m : m = Head(sock[b].localfe)
  OBVIOUS
<1> PICK s : SansHead(s, b, "localfe")
  BY DEF SansHead
<1> DEFINE p == <<"localfe", b>>
<1>1. Source(b) = "localfe" /\ sock[b].localfe # <<>>
  <2>1. loop[b].local = 0 /\ Source(b) # "none"
    BY DEF RouteCloud
  <2> QED BY <2>1, SourceIs
<1>2. PICK x \in Peers(b) :
         IF x \in cloudlink[b]
         THEN /\ sock' = [s EXCEPT ![x].cloudfe = Append(@, [m EXCEPT !.route = <<b>> \o @])]
              /\ UNCHANGED lost
         ELSE sock' = s /\ lost' = lost \cup {Last(m.route)}
  BY <1>1 DEF RouteCloud, SansHead
<1>3. UNCHANGED <<loop, cclient, cworker, cloudlink, statelink>>
  BY DEF RouteCloud
<1>4. FrontOut(s, b, "localfe")
  BY <1>1, FrontTaken
<1> HIDE DEF p
<1>5. /\ s \in [Broker -> BrokerSockets]
      /\ Held[p] = sock[b].localfe
      /\ s[b].localfe = Tail(Held[p])
      /\ \A y \in Broker : /\ <<"localfe", y>> # p => s[y].localfe = sock[y].localfe
                           /\ s[y].cloudfe = sock[y].cloudfe
                           /\ s[y].cloudbe = sock[y].cloudbe
                           /\ s[y].localbe = sock[y].localbe
  BY <1>4 DEF FrontOut, p
<1>6. x \in Broker /\ x # b /\ p \in Place
  BY PlaceIs DEF Peers, p
<1>7. Held[p] \in Seq(Good(p)) /\ m \in Good(p) /\ m = Head(Held[p])
  <2>1. Held[p] \in Seq(Good(p)) /\ m = Head(Held[p])
    BY <1>5, <1>6 DEF ClusterInv, Placed
  <2> QED BY <1>1, <1>5, <2>1, TailSeq
<1>8. m \in OwnRequest(b)
  BY <1>7, FitsIs DEF Good, p
<1>9. ASSUME sock' \in [Broker -> BrokerSockets], lost' \subseteq ClusterClient,
             \A y \in Broker : sock'[y].localbe = sock[y].localbe
      PROVE  ClusterTypeOK' /\ WorkersListed'
  <2>1. ClusterTypeOK'
    BY <1>3, <1>9 DEF ClusterInv, ClusterTypeOK
  <2>2. \A y \in Broker : Ranks(y)
    BY RanksAre DEF ClusterInv
  <2>3. \A y \in Broker : Ranks(y)'
    BY <1>3, <1>9, <2>2, RanksSame
  <2> QED BY <2>1, <2>3, RanksNext
<1>10. CASE x \in cloudlink[b]
  <2> PICK n : n = [m EXCEPT !.route = <<b>> \o @]
    OBVIOUS
  <2> DEFINE q == <<"cloudfe", x>>
  <2>1. n \in PeerRequest(x) /\ SameTask(m, n)
    BY <1>8, RequestForward
  <2>2. n \in Request /\ n \in Suits(q) /\ q \in Place /\ p # q
    BY <1>6, <2>1, FitsIs, PlaceIs DEF PeerRequest, p
  <2> PICK r : r = [s[x] EXCEPT !.cloudfe = Append(s[x].cloudfe, n)]
    OBVIOUS
  <2>3. /\ r \in BrokerSockets /\ r.cloudfe = Append(sock[x].cloudfe, n)
        /\ r.localfe = sock[x].localfe
        /\ r.cloudbe = sock[x].cloudbe /\ r.localbe = sock[x].localbe
    <3>1. s[x] \in BrokerSockets /\ s[x].cloudfe = sock[x].cloudfe
      BY <1>5, <1>6
    <3>2. Append(s[x].cloudfe, n) \in Seq(Request)
      BY <1>6, <2>2, <3>1, AppendSeq, TypeOf DEF ClusterInv
    <3>3. <<"localfe", x>> # p
      BY <1>6 DEF p
    <3>4. /\ r \in BrokerSockets /\ r.cloudfe = Append(s[x].cloudfe, n)
          /\ r.localfe = s[x].localfe
          /\ r.cloudbe = s[x].cloudbe /\ r.localbe = s[x].localbe
      BY <3>1, <3>2, SetCloudfe
    <3> QED BY <1>5, <1>6, <3>1, <3>3, <3>4
  <2>4. sock' = [s EXCEPT ![x] = r] /\ lost' = lost
    BY <1>2, <1>10
  <2>5. /\ sock' \in [Broker -> BrokerSockets]
        /\ sock'[x] = r /\ \A y \in Broker \ {x} : sock'[y] = s[y]
    BY <1>5, <1>6, <2>3, <2>4
  <2> HIDE DEF q
  <2>6. Pass(p, q, n)
    <3>1. PopsOne(p)
      <4>1. Held'[p] = sock'[b].localfe
        BY HeldNext DEF p
      <4> QED BY <1>1, <1>5, <1>6, <2>5, <4>1 DEF PopsOne
    <3>2. Pushed(q, n)
      BY <1>6, <2>3, <2>5, HeldIs, HeldNext DEF Pushed, q
    <3>3. \A y \in Broker :
             /\ <<"localfe", y>> \notin {p, q} => sock'[y].localfe = sock[y].localfe
             /\ <<"cloudfe", y>> \notin {p, q} => sock'[y].cloudfe = sock[y].cloudfe
             /\ sock'[y].cloudbe = sock[y].cloudbe
             /\ sock'[y].localbe = sock[y].localbe
      BY <1>5, <2>3, <2>5, ZenonT(60) DEF q
    <3>4. Same({p, q})
      BY <1>3, <3>3, SameByKind
    <3> QED BY <2>2, <3>1, <3>2, <3>4 DEF Pass
  <2>7. Quiet
    BY <1>3, <2>4 DEF Quiet
  <2>8. SameTask(Head(Held[p]), n)
    BY <1>7, <2>1
  <2>9. Placed' /\ Clients'
    BY <1>6, <2>2, <2>6, <2>7, <2>8, PassInv DEF ClusterInv
  <2>10. \A y \in Broker : sock'[y].localbe = sock[y].localbe
    BY <1>5, <2>3, <2>5
  <2>11. lost' \subseteq ClusterClient
    BY <2>4 DEF ClusterInv, ClusterTypeOK
  <2> QED BY <1>9, <2>5, <2>9, <2>10, <2>11 DEF ClusterInv
<1>11. CASE x \notin cloudlink[b]
  <2>1. sock' = s /\ lost' = lost \cup {Last(m.route)}
    BY <1>2, <1>11
  <2>2. PICK c \in ClusterClient : Last(m.route) = c
    BY <1>8, OwnIs
  <2>3. Drop(p)
    <3>1. PopsOne(p)
      <4>1. Held'[p] = sock'[b].localfe
        BY HeldNext DEF p
      <4> QED BY <1>1, <1>5, <2>1, <4>1 DEF PopsOne
    <3>2. \A y \in Broker :
             /\ <<"localfe", y>> \notin {p} => sock'[y].localfe = sock[y].localfe
             /\ sock'[y].cloudfe = sock[y].cloudfe
             /\ sock'[y].cloudbe = sock[y].cloudbe
             /\ sock'[y].localbe = sock[y].localbe
      BY <1>5, <2>1
    <3>3. Same({p})
      BY <1>3, <3>2, SameByKind
    <3> QED BY <3>1, <3>3 DEF Drop
  <2>4. \A d \in ClusterClient : m \in Of(d) <=> d = c
    BY <1>8, <2>2, OwnIs DEF Of
  <2>5. \A d \in ClusterClient : /\ None(d) => None(d)'
                                 /\ m \in Of(d) /\ One(d) => None(d)'
                                 /\ m \notin Of(d) /\ One(d) => One(d)'
    BY <1>6, <1>7, <2>3, DropKeeps
  <2>6. ~None(c)
    <3>1. Here(p, c) # {}
      BY <1>7, <2>3, <2>4, PoppedHere DEF Drop
    <3> QED BY <1>6, <3>1 DEF None
  <2>7. c \notin lost /\ One(c) /\ cclient[c].at # "idle"
    BY <2>6 DEF ClusterInv, Clients
  <2>8. Clients'
    BY <1>3, <2>1, <2>2, <2>4, <2>5, <2>7 DEF ClusterInv, Clients
  <2>9. Placed'
    <3>1. SameTasks
      BY <1>3 DEF SameTasks
    <3> QED BY <2>3, <3>1, PlacedBy DEF ClusterInv, Drop, Same
  <2>10. lost' \subseteq ClusterClient
    BY <2>1, <2>2 DEF ClusterInv, ClusterTypeOK
  <2> QED BY <1>5, <1>9, <2>1, <2>8, <2>9, <2>10 DEF ClusterInv
<1> QED BY <1>10, <1>11

-----------------------------------------------------------------------------
(* The primary loop of a broker. *)

\* The first message of a back end is taken.
BackOut(S, b, p) ==
    /\ S \in [Broker -> BrokerSockets]
    /\ Held[p] # <<>>
    /\ p = <<"localbe", b>> => Msgs(S[b].localbe) = Tail(Held[p])
    /\ p = <<"cloudbe", b>> => S[b].cloudbe = Tail(Held[p])
    /\ \A y \in Broker :
          /\ S[y].localfe = sock[y].localfe
          /\ S[y].cloudfe = sock[y].cloudfe
          /\ <<"cloudbe", y>> # p => S[y].cloudbe = sock[y].cloudbe
          /\ <<"localbe", y>> # p => S[y].localbe = sock[y].localbe

\* The same but for a reply that was added to one cloudbe.
BackNext(S, q) ==
    \A y \in Broker :
        /\ sock'[y].localfe = S[y].localfe
        /\ sock'[y].cloudfe = S[y].cloudfe
        /\ <<"cloudbe", y>> # q => sock'[y].cloudbe = S[y].cloudbe
        /\ sock'[y].localbe = S[y].localbe

LEMMA BackPopsOne ==
    ASSUME NEW b \in Broker, NEW p \in {<<"localbe", b>>, <<"cloudbe", b>>},
           NEW S, BackOut(S, b, p), NEW q, p # q, BackNext(S, q)
    PROVE  PopsOne(p)
<1>1. sock'[b].localbe = S[b].localbe
  BY DEF BackNext
<1>2. CASE p = <<"localbe", b>>
  <2>1. Held'[<<"localbe", b>>] = Msgs(sock'[b].localbe)
    BY HeldNext
  <2>2. Msgs(sock'[b].localbe) = Msgs(S[b].localbe)
    BY <1>1, Zenon
  <2>3. Msgs(S[b].localbe) = Tail(Held[p]) /\ Held[p] # <<>>
    BY <1>2 DEF BackOut
  <2> QED BY <1>2, <2>1, <2>2, <2>3 DEF PopsOne
<1>3. CASE p = <<"cloudbe", b>>
  <2>1. Held'[p] = sock'[b].cloudbe
    BY <1>3, HeldNext
  <2>2. sock'[b].cloudbe = S[b].cloudbe
    BY <1>3 DEF BackNext
  <2>3. S[b].cloudbe = Tail(Held[p]) /\ Held[p] # <<>>
    BY <1>3 DEF BackOut
  <2> QED BY <2>1, <2>2, <2>3 DEF PopsOne
<1> QED BY <1>2, <1>3

LEMMA BackSame ==
    ASSUME NEW b \in Broker, NEW p, NEW S, BackOut(S, b, p), NEW q, BackNext(S, q),
           cworker' = cworker,
           \A c \in ClusterClient :
               <<"replies", c>> \notin {p, q} => cclient'[c].replies = cclient[c].replies
    PROVE  Same({p, q})
<1>1. \A y \in Broker :
         /\ sock'[y].localfe = sock[y].localfe
         /\ sock'[y].cloudfe = sock[y].cloudfe
         /\ <<"cloudbe", y>> \notin {p, q} => sock'[y].cloudbe = sock[y].cloudbe
         /\ <<"localbe", y>> \notin {p, q} => sock'[y].localbe = sock[y].localbe
  BY DEF BackOut, BackNext
<1> QED BY <1>1, SameByKind

\* What is so after a turn of the primary loop that left S to the sockets.
Routed(S) ==
    /\ Placed' /\ Clients'
    /\ sock' \in [Broker -> BrokerSockets]
    /\ cclient' \in [ClusterClient -> ClientState]
    /\ \A y \in Broker : sock'[y].localbe = S[y].localbe

\* READY is dropped, and a reply goes a step back along its route.
LEMMA ReplyRouted ==
    ASSUME ClusterInv, NEW b \in Broker, NEW p \in {<<"localbe", b>>, <<"cloudbe", b>>},
           NEW S, BackOut(S, b, p), NEW m, m = Head(Held[p]), RouteReply(b, m, S),
           cworker' = cworker, lost' = lost
    PROVE  Routed(S)
<1> USE DEF Routed
<1>1. p \in Place /\ S \in [Broker -> BrokerSockets]
  BY PlaceIs DEF BackOut
<1>2. Held[p] \in Seq(Good(p)) /\ m \in Good(p)
  <2>1. Held[p] \in Seq(Good(p)) /\ Held[p] # <<>>
    BY <1>1 DEF ClusterInv, Placed, BackOut
  <2> QED BY <2>1, TailSeq
<1>3. m \in BackRequest(b)
  <2>1. m \in Suits(p)
    BY <1>2 DEF Good
  <2> QED BY <2>1, FitsIs DEF BackRequest
<1>4. RouteReply(b, m, S)
  OBVIOUS
<1>5. cclient \in [ClusterClient -> ClientState]
  BY TypeOf DEF ClusterInv
<1>6. CASE m = READY
  <2>1. sock' = S /\ cclient' = cclient
    BY <1>4, <1>6 DEF RouteReply
  <2> DEFINE q == <<"none", b>>
  <2>2. BackNext(S, q)
    BY <2>1 DEF BackNext
  <2>3. p # q /\ q \notin Place
    BY DEF Place
  <2> HIDE DEF q
  <2>4. PopsOne(p)
    BY <2>2, <2>3, BackPopsOne
  <2>5. \A c \in ClusterClient : cclient'[c].replies = cclient[c].replies
    BY <2>1
  <2>6. Same({p, q})
    BY <2>2, <2>5, BackSame
  <2>7. Drop(p)
    BY <2>3, <2>4, <2>6 DEF Drop, Same
  <2>8. Quiet
    BY <2>1 DEF Quiet
  <2>9. Placed' /\ Clients'
    BY <1>1, <1>6, <2>7, <2>8, DropReady DEF ClusterInv
  <2> QED BY <1>1, <1>5, <2>1, <2>9
<1>7. CASE m \in PeerRequest(b)
  <2> PICK x : x = Head(m.route)
    OBVIOUS
  <2> PICK n : n = [m EXCEPT !.route = Tail(@)]
    OBVIOUS
  <2> DEFINE q == <<"cloudbe", x>>
  <2>1. x \in Peers(b) /\ n \in OwnRequest(x) /\ SameTask(m, n)
    BY <1>7, ReplyForward
  <2>2. x \in Broker /\ x # b /\ n \in Request /\ n \in Suits(q) /\ q \in Place /\ p # q
    <3>1. x \in Broker /\ x # b /\ n \in Request
      BY <2>1 DEF OwnRequest, Peers
    <3>2. n \in Suits(q)
      BY <2>1, FitsIs
    <3>3. q \in Place
      BY <3>1, PlaceIs
    <3>4. p # q
      BY <3>1
    <3> QED BY <3>1, <3>2, <3>3, <3>4
  <2>3. m # READY
    BY <1>7, PeerIs
  <2> PICK r : r = [S[x] EXCEPT !.cloudbe = Append(S[x].cloudbe, n)]
    OBVIOUS
  <2>4. sock' = [S EXCEPT ![x] = r] /\ cclient' = cclient
    <3>1. sock' = [S EXCEPT ![x].cloudbe = Append(@, n)] /\ cclient' = cclient
      BY <1>4, <2>1, <2>3 DEF RouteReply
    <3> QED BY <3>1
  <2>5. /\ r \in BrokerSockets /\ r.cloudbe = Append(S[x].cloudbe, n)
        /\ r.localfe = S[x].localfe /\ r.cloudfe = S[x].cloudfe
        /\ r.localbe = S[x].localbe
    <3>1. S[x] \in BrokerSockets /\ S[x].cloudbe \in Seq(Request)
      BY <1>1, <2>2 DEF BrokerSockets
    <3>2. Append(S[x].cloudbe, n) \in Seq(Request)
      BY <2>2, <3>1, AppendSeq
    <3>3. LET z == [S[x] EXCEPT !.cloudbe = Append(S[x].cloudbe, n)]
          IN  /\ z \in BrokerSockets
              /\ z.localfe = S[x].localfe /\ z.cloudfe = S[x].cloudfe
              /\ z.cloudbe = Append(S[x].cloudbe, n) /\ z.localbe = S[x].localbe
      BY <3>1, <3>2, SetCloudbe, ZenonT(60)
    <3> QED BY <3>3
  <2>6. /\ sock' \in [Broker -> BrokerSockets]
        /\ sock'[x] = r /\ \A y \in Broker \ {x} : sock'[y] = S[y]
    BY <1>1, <2>2, <2>4, <2>5
  <2> HIDE DEF q
  <2>7. BackNext(S, q)
    BY <2>5, <2>6 DEF BackNext, q
  <2>8. Pass(p, q, n)
    <3>1. PopsOne(p)
      BY <2>2, <2>7, BackPopsOne
    <3>2. Pushed(q, n)
      <4>1. S[x].cloudbe = sock[x].cloudbe
        BY <2>2 DEF BackOut, q
      <4>2. sock'[x].cloudbe = Append(sock[x].cloudbe, n)
        BY <2>5, <2>6, <4>1
      <4> QED BY <2>2, <4>2, HeldIs, HeldNext DEF Pushed, q
    <3>3. Same({p, q})
      BY <2>4, <2>7, BackSame
    <3> QED BY <2>2, <3>1, <3>2, <3>3 DEF Pass
  <2>9. Quiet
    BY <2>4 DEF Quiet
  <2>10. SameTask(Head(Held[p]), n)
    BY <2>1
  <2>11. Placed' /\ Clients'
    BY <1>1, <2>2, <2>8, <2>9, <2>10, PassInv DEF ClusterInv
  <2> QED BY <1>5, <2>4, <2>6, <2>7, <2>11 DEF BackNext
<1>8. CASE m \in OwnRequest(b)
  <2>1. PICK c \in ClusterClient : /\ Home[c] = b /\ c \notin Broker
                                   /\ m.route = <<c>> /\ Head(m.route) = c
    BY <1>8, OwnIs
  <2>2. m \in Request /\ m # READY
    BY <1>8, OwnIs
  <2> DEFINE q == <<"replies", c>>
  <2>3. m \in Suits(q) /\ q \in Place /\ p # q
    BY <2>1, <2>2, FitsIs, PlaceIs DEF Direct
  <2>4. /\ sock' = S
        /\ cclient' = [cclient EXCEPT ![c].replies = Append(@, m)]
    BY <1>4, <2>1, <2>2 DEF RouteReply, Peers
  <2> HIDE DEF q
  <2>5. /\ cclient' \in [ClusterClient -> ClientState]
        /\ cclient'[c].replies = Append(cclient[c].replies, m)
        /\ \A d \in ClusterClient : /\ cclient'[d].at = cclient[d].at
                                    /\ cclient'[d].task = cclient[d].task
                                    /\ d # c => cclient'[d].replies = cclient[d].replies
    <3>1. cclient[c].replies \in Seq(Request)
      BY TypeOf DEF ClusterInv
    <3>2. Append(cclient[c].replies, m) \in Seq(Request)
      BY <2>2, <3>1, AppendSeq
    <3> QED BY <1>5, <2>4, <3>2 DEF ClientState
  <2>6. BackNext(S, q)
    BY <2>4 DEF BackNext
  <2>7. Pass(p, q, m)
    <3>1. PopsOne(p)
      BY <2>3, <2>6, BackPopsOne
    <3>2. Pushed(q, m)
      BY <2>5, HeldIs, HeldNext DEF Pushed, q
    <3>3. \A d \in ClusterClient :
             <<"replies", d>> \notin {p, q} => cclient'[d].replies = cclient[d].replies
      BY <2>5 DEF q
    <3>4. Same({p, q})
      BY <2>6, <3>3, BackSame
    <3> QED BY <2>3, <3>1, <3>2, <3>4 DEF Pass
  <2>8. Quiet
    BY <2>5 DEF Quiet
  <2>9. SameTask(Head(Held[p]), m)
    BY DEF SameTask
  <2>10. Placed' /\ Clients'
    BY <1>1, <2>3, <2>7, <2>8, <2>9, PassInv DEF ClusterInv
  <2> QED BY <1>1, <2>4, <2>5, <2>10
<1> QED BY <1>3, <1>6, <1>7, <1>8 DEF BackRequest

LEMMA RestSeq ==
    ASSUME NEW T, NEW list \in Seq(T)
    PROVE  Rest(list) \in Seq(T)
BY TailSeq DEF Rest

LEMMA ReadSockets ==
    ASSUME NEW s \in BrokerSockets
    PROVE  /\ Read(s) \in BrokerSockets
           /\ Read(s).localfe = s.localfe /\ Read(s).cloudfe = s.cloudfe
           /\ Read(s).localbe = Rest(s.localbe)
           /\ Read(s).cloudbe = IF s.localbe # <<>> THEN s.cloudbe ELSE Rest(s.cloudbe)
<1>1. /\ s.localbe \in Seq(FromWorker) /\ s.cloudbe \in Seq(Request)
      /\ s.statefe \in Seq(Nat) /\ s.monitor \in Nat
  BY DEF BrokerSockets
<1>2. /\ Rest(s.localbe) \in Seq(FromWorker) /\ Rest(s.cloudbe) \in Seq(Request)
      /\ Rest(s.statefe) \in Seq(Nat)
  BY <1>1, RestSeq
<1>3. (IF s.monitor > 0 THEN s.monitor - 1 ELSE s.monitor) \in Nat
  BY <1>1
<1> HIDE DEF Rest
<1>4. /\ Read(s) \in BrokerSockets
      /\ Read(s).localfe = s.localfe /\ Read(s).cloudfe = s.cloudfe
      /\ Read(s).localbe = Rest(s.localbe)
  BY <1>2, <1>3 DEF Read, BrokerSockets
<1>5. Read(s).cloudbe = IF s.localbe # <<>> THEN s.cloudbe ELSE Rest(s.cloudbe)
  BY DEF Read, BrokerSockets
<1> QED BY <1>4, <1>5

\* A worker that is heard of is listed: its name goes where its message went.
LEMMA PrimaryRanks ==
    ASSUME ClusterInv, NEW b \in Broker, sock[b].localbe # <<>>,
           loop'[b].workers = Append(loop[b].workers, Head(sock[b].localbe).from),
           loop'[b].local = loop[b].local + 1,
           sock'[b].localbe = Tail(sock[b].localbe),
           cworker' = cworker
    PROVE  Ranks(b)'
<1> PICK w : w = Head(sock[b].localbe).from
  OBVIOUS
<1> DEFINE heard == Senders(sock[b].localbe)
<1>1. Ranks(b) /\ sock[b].localbe \in Seq(FromWorker) /\ loop[b].workers \in Seq(ClusterWorker)
  BY RanksAre, TypeOf DEF ClusterInv
<1>2. heard \in Seq(ClusterWorker) /\ heard # <<>> /\ Head(heard) = w
      /\ Senders(Tail(sock[b].localbe)) = Tail(heard)
  BY <1>1, BackPopped, SendersSeq
<1>3. Senders(sock'[b].localbe) = Tail(heard)
  <2>1. Senders(sock'[b].localbe) = Senders(Tail(sock[b].localbe))
    BY Zenon
  <2> QED BY <1>2, <2>1
<1>4. /\ IsInjective(Tail(heard)) /\ Range(Tail(heard)) = Range(heard) \ {w}
      /\ w \in Range(heard)
  <2>1. IsInjective(heard)
    BY <1>1 DEF Ranks
  <2> HIDE DEF heard
  <2> QED BY <1>2, <2>1, InjPopped
<1>5. w \in ClusterWorker /\ w \notin Range(loop[b].workers)
  BY <1>1, <1>4 DEF Ranks, Mine
<1>6. /\ IsInjective(Append(loop[b].workers, w))
      /\ Range(Append(loop[b].workers, w)) = Range(loop[b].workers) \cup {w}
      /\ Len(Append(loop[b].workers, w)) = Len(loop[b].workers) + 1
  BY <1>1, <1>5, InjPushed, AppendProperties DEF Ranks
<1>7. AtWork(b)' = AtWork(b)
  BY DEF AtWork, Mine
<1>8. loop'[b].workers = Append(loop[b].workers, w)
  OBVIOUS
<1>9. PICK A : A = Range(loop[b].workers)
  OBVIOUS
<1>10. PICK H : H = Range(heard)
  OBVIOUS
<1>11. /\ loop[b].local = Len(loop[b].workers)
       /\ A \cup H \cup AtWork(b) = Mine(b)
       /\ A \cap H = {} /\ A \cap AtWork(b) = {} /\ H \cap AtWork(b) = {}
  BY <1>1, <1>9, <1>10 DEF Ranks
<1> HIDE DEF heard
<1>12. /\ Range(loop'[b].workers) = A \cup {w} /\ IsInjective(loop'[b].workers)
       /\ Len(loop'[b].workers) = Len(loop[b].workers) + 1
  BY <1>6, <1>8, <1>9
<1>13. /\ Range(Senders(sock'[b].localbe)) = H \ {w} /\ w \in H
       /\ IsInjective(Senders(sock'[b].localbe))
  BY <1>3, <1>4, <1>10
<1> QED BY <1>7, <1>11, <1>12, <1>13 DEF Ranks

LEMMA PrimaryInv ==
    ASSUME ClusterInv, NEW b \in Broker, Primary(b)
    PROVE  ClusterInv'
<1> PICK s : s = sock[b]
  OBVIOUS
<1> PICK S : S = [sock EXCEPT ![b] = Read(s)]
  OBVIOUS
<1> PICK m : m = TakenReply(s)
  OBVIOUS
<1> PICK l : l = [at |-> "secondary", previous |-> loop[b].local,
                  local |-> IF s.localbe # <<>> THEN loop[b].local + 1 ELSE loop[b].local,
                  workers |-> IF s.localbe # <<>>
                              THEN Append(loop[b].workers, Head(s.localbe).from)
                              ELSE loop[b].workers,
                  cloud |-> IF s.statefe # <<>> THEN Head(s.statefe) ELSE loop[b].cloud]
  OBVIOUS
<1>1. /\ loop' = [loop EXCEPT ![b] = l]
      /\ RouteReply(b, m, S)
      /\ UNCHANGED <<cworker, cloudlink, statelink, lost>>
  BY DEF Primary
<1>2. /\ sock \in [Broker -> BrokerSockets] /\ loop \in [Broker -> LoopState]
      /\ s \in BrokerSockets /\ loop[b] \in LoopState
      /\ s.localbe \in Seq(FromWorker) /\ s.cloudbe \in Seq(Request)
  BY TypeOf DEF ClusterInv
<1>3. /\ Read(s) \in BrokerSockets
      /\ Read(s).localfe = s.localfe /\ Read(s).cloudfe = s.cloudfe
      /\ Read(s).localbe = Rest(s.localbe)
      /\ Read(s).cloudbe = IF s.localbe # <<>> THEN s.cloudbe ELSE Rest(s.cloudbe)
  BY <1>2, ReadSockets
<1>4. /\ S \in [Broker -> BrokerSockets]
      /\ S[b] = Read(s) /\ \A y \in Broker \ {b} : S[y] = sock[y]
  <2> PICK r : r = Read(s)
    OBVIOUS
  <2>1. S = [sock EXCEPT ![b] = r] /\ r \in BrokerSockets
    BY <1>3
  <2> QED BY <1>2, <2>1
<1>5. /\ loop' \in [Broker -> LoopState]
      /\ loop'[b] = l /\ \A y \in Broker \ {b} : loop'[y] = loop[y]
  <2>1. s.localbe # <<>> => Append(loop[b].workers, Head(s.localbe).from) \in Seq(ClusterWorker)
    <3> SUFFICES ASSUME s.localbe # <<>>
                 PROVE  Append(loop[b].workers, Head(s.localbe).from) \in Seq(ClusterWorker)
      OBVIOUS
    <3>1. Head(s.localbe).from \in ClusterWorker
      BY <1>2, TailSeq DEF FromWorker
    <3> QED BY <3>1, AppendSeq, TypeOf DEF ClusterInv
  <2>2. s.statefe # <<>> => Head(s.statefe) \in Nat
    <3>1. s.statefe \in Seq(Nat)
      BY <1>2 DEF BrokerSockets
    <3> QED BY <3>1, TailSeq
  <2>3. l \in LoopState
    BY <1>2, <2>1, <2>2 DEF LoopState
  <2> QED BY <1>1, <1>2, <2>3
<1>6. Routed(S)
  <2>1. CASE s.localbe # <<>>
    <3> DEFINE p == <<"localbe", b>>
    <3>1. Held[p] = Msgs(s.localbe) /\ Rest(s.localbe) = Tail(s.localbe)
      BY <2>1, HeldIs DEF Rest
    <3>2. /\ Msgs(s.localbe) # <<>> /\ Head(Msgs(s.localbe)) = Head(s.localbe).msg
          /\ Msgs(Tail(s.localbe)) = Tail(Msgs(s.localbe))
      BY <1>2, <2>1, BackPopped
    <3>3. m = Head(Held[p])
      BY <2>1, <3>1, <3>2 DEF TakenReply
    <3>4. Msgs(S[b].localbe) = Tail(Held[p])
      <4>1. S[b].localbe = Tail(s.localbe)
        BY <1>3, <1>4, <3>1
      <4>2. Msgs(S[b].localbe) = Msgs(Tail(s.localbe))
        BY <4>1, Zenon
      <4> QED BY <3>1, <3>2, <4>2
    <3>5. BackOut(S, b, p)
      <4>1. \A y \in Broker : /\ S[y].localfe = sock[y].localfe
                              /\ S[y].cloudfe = sock[y].cloudfe
                              /\ S[y].cloudbe = sock[y].cloudbe
                              /\ <<"localbe", y>> # p => S[y].localbe = sock[y].localbe
        BY <1>3, <1>4, <2>1
      <4> QED BY <1>4, <3>1, <3>2, <3>4, <4>1 DEF BackOut
    <3> HIDE DEF p
    <3>6. RouteReply(b, m, S) /\ p \in {<<"localbe", b>>, <<"cloudbe", b>>}
      BY <1>1, <3>3 DEF p
    <3>7. cworker' = cworker /\ lost' = lost
      BY <1>1
    <3> QED BY <3>3, <3>5, <3>6, <3>7, ReplyRouted
  <2>2. CASE s.localbe = <<>> /\ s.cloudbe # <<>>
    <3> DEFINE p == <<"cloudbe", b>>
    <3>1. Held[p] = s.cloudbe /\ Rest(s.cloudbe) = Tail(s.cloudbe)
          /\ Rest(s.localbe) = s.localbe
      BY <2>2, HeldIs DEF Rest
    <3>2. m = Head(Held[p])
      BY <2>2, <3>1 DEF TakenReply
    <3>3. S[b].cloudbe = Tail(Held[p])
      BY <1>3, <1>4, <2>2, <3>1
    <3>4. BackOut(S, b, p)
      <4>1. \A y \in Broker : /\ S[y].localfe = sock[y].localfe
                              /\ S[y].cloudfe = sock[y].cloudfe
                              /\ <<"cloudbe", y>> # p => S[y].cloudbe = sock[y].cloudbe
                              /\ S[y].localbe = sock[y].localbe
        BY <1>3, <1>4, <3>1
      <4> QED BY <1>4, <2>2, <3>1, <3>3, <4>1 DEF BackOut
    <3> HIDE DEF p
    <3>5. RouteReply(b, m, S) /\ p \in {<<"localbe", b>>, <<"cloudbe", b>>}
      BY <1>1, <3>2 DEF p
    <3>6. cworker' = cworker /\ lost' = lost
      BY <1>1
    <3> QED BY <3>2, <3>4, <3>5, <3>6, ReplyRouted
  <2>3. CASE s.localbe = <<>> /\ s.cloudbe = <<>>
    <3>1. m = READY
      BY <2>3 DEF TakenReply
    <3>2. sock' = S /\ cclient' = cclient
      BY <1>1, <3>1 DEF RouteReply
    <3>3. \A y \in Broker : /\ sock'[y].localfe = sock[y].localfe
                            /\ sock'[y].cloudfe = sock[y].cloudfe
                            /\ sock'[y].cloudbe = sock[y].cloudbe
                            /\ sock'[y].localbe = sock[y].localbe
      BY <1>3, <1>4, <2>3, <3>2 DEF Rest
    <3>4. Still
      BY <1>1, <3>2, <3>3, SameByKind DEF Still
    <3>5. Quiet
      BY <1>1, <3>2 DEF Quiet
    <3>6. Placed' /\ Clients'
      BY <3>4, <3>5, StillInv DEF ClusterInv
    <3> QED BY <1>4, <3>2, <3>6, TypeOf DEF ClusterInv, Routed
  <2> QED BY <2>1, <2>2, <2>3
<1>7. ClusterTypeOK'
  BY <1>1, <1>5, <1>6 DEF ClusterInv, ClusterTypeOK, Routed
<1>8. WorkersListed'
  <2>1. \A y \in Broker : Ranks(y)
    BY RanksAre DEF ClusterInv
  <2>2. ASSUME NEW y \in Broker \ {b} PROVE Ranks(y)'
    <3>1. sock'[y].localbe = sock[y].localbe /\ loop'[y] = loop[y]
      BY <1>4, <1>5, <1>6, <2>2 DEF Routed
    <3> QED BY <1>1, <2>1, <2>2, <3>1, RanksSame
  <2>3. Ranks(b)'
    <3>1. sock'[b].localbe = Rest(s.localbe)
      BY <1>3, <1>4, <1>6 DEF Routed
    <3>2. CASE s.localbe # <<>>
      <4>1. sock'[b].localbe = Tail(sock[b].localbe)
        BY <3>1, <3>2 DEF Rest
      <4>2. /\ loop'[b].workers = Append(loop[b].workers, Head(sock[b].localbe).from)
            /\ loop'[b].local = loop[b].local + 1
        BY <1>5, <3>2
      <4> QED BY <1>1, <3>2, <4>1, <4>2, PrimaryRanks
    <3>3. CASE s.localbe = <<>>
      <4>1. sock'[b].localbe = sock[b].localbe
        BY <3>1, <3>3 DEF Rest
      <4>2. loop'[b].workers = loop[b].workers /\ loop'[b].local = loop[b].local
        BY <1>5, <3>3
      <4> QED BY <1>1, <2>1, <4>1, <4>2, RanksSame
    <3> QED BY <3>2, <3>3
  <2>4. \A y \in Broker : Ranks(y)'
    BY <2>2, <2>3
  <2> QED BY <2>4, RanksNext
<1> QED BY <1>6, <1>7, <1>8 DEF ClusterInv, Routed

-----------------------------------------------------------------------------
(* All steps, and the theorems. *)

LEMMA NextInv == ClusterInv /\ [ClusterNext]_clusterVars => ClusterInv'
<1> SUFFICES ASSUME ClusterInv, [ClusterNext]_clusterVars
             PROVE  ClusterInv'
  OBVIOUS
<1>1. CASE UNCHANGED clusterVars
  <2> USE <1>1 DEF clusterVars
  <2>1. ClusterTypeOK'
    BY DEF ClusterInv, ClusterTypeOK
  <2>2. WorkersListed'
    BY DEF ClusterInv, WorkersListed
  <2>3. Still /\ Quiet
    BY SameByKind DEF Still, Quiet
  <2> QED BY <2>1, <2>2, <2>3, StillInv DEF ClusterInv
<1>2. ASSUME NEW c \in ClusterClient, ClientSend(c) \/ ClientReceive(c) \/ ClientExit(c)
      PROVE  ClusterInv'
  BY <1>2, ClientSendInv, ClientReceiveInv, ClientExitInv
<1>3. ASSUME NEW w \in ClusterWorker, WorkerSend(w)
      PROVE  ClusterInv'
  BY <1>3, WorkerSendInv
<1>4. ASSUME NEW b \in Broker, CloudConnect(b) \/ StateConnect(b) \/ BrokerStep(b)
      PROVE  ClusterInv'
  BY <1>4, LinksInv, PrimaryInv, RouteLocalInv, RouteCloudInv, PublishInv DEF BrokerStep
<1> QED BY <1>1, <1>2, <1>3, <1>4 DEF ClusterNext

LEMMA SpecInv == ClusterSpec => []ClusterInv
BY InitInv, NextInv, PTL DEF ClusterSpec

\* The requests of a client that are anywhere are of the task it is at.
LEMMA CopiesAre ==
    ASSUME Placed, NEW p \in Place, NEW c \in ClusterClient
    PROVE  Copies(p, c) = Here(p, c)
<1>1. Held[p] \in Seq(Good(p))
  BY DEF Placed
<1>2. \A i \in DOMAIN Held[p] : Held[p][i] \in Good(p)
  BY <1>1
<1>3. ASSUME NEW m \in Good(p)
      PROVE  Carries(m, c) <=> m \in Of(c)
  <2>1. m \in Message /\ AtTask(m)
    BY FitsMessage DEF Good
  <2> QED BY <2>1, ClusterAssumption DEF Message, AtTask, Carries, Of
<1>4. \A i \in DOMAIN Held[p] : Carries(Held[p][i], c) <=> Held[p][i] \in Of(c)
  BY <1>2, <1>3
<1> QED BY <1>4 DEF Copies, Here, Spots

LEMMA InvTasks == ClusterInv => TasksKept
<1> SUFFICES ASSUME ClusterInv, NEW c \in ClusterClient, cclient[c].at = "waiting"
             PROVE  IF c \in lost THEN Nowhere(c) ELSE Somewhere(c)
  BY DEF TasksKept
<1>1. \A p \in Place : Copies(p, c) = Here(p, c)
  BY CopiesAre DEF ClusterInv
<1>2. IF c \in lost THEN None(c) ELSE One(c)
  BY DEF ClusterInv, Clients
<1>3. CASE c \in lost
  BY <1>1, <1>2, <1>3 DEF None, Nowhere
<1>4. CASE c \notin lost
  <2>1. PICK p \in Place : Single(Here(p, c)) /\ \A q \in Place \ {p} : Here(q, c) = {}
    BY <1>2, <1>4 DEF One
  <2>2. PICK i : Copies(p, c) = {i}
    BY <1>1, <2>1 DEF Single
  <2>3. OnceIn(p, c)
    BY <2>2 DEF OnceIn, Copies
  <2> QED BY <1>1, <1>4, <2>1, <2>3 DEF Somewhere
<1> QED BY <1>3, <1>4

\* Every variable of the cluster keeps its type; above all no client's state is ever
\* "aborted": a reply is to the task the client is at, as client_task asserts it of
\* every one it reads (full_cluster.c:53).
THEOREM ClusterTypes == ClusterSpec => []ClusterTypeOK
<1>1. ClusterInv => ClusterTypeOK
  BY DEF ClusterInv
<1> QED BY <1>1, SpecInv, PTL

\* However many brokers, clients and workers there are, and in whatever order their
\* sockets connect and their loops turn, the request a client waits for is in exactly
\* one place of the cluster unless it went to a peer that was not connected yet
\* (full_cluster.c:223-232, 265-284).
THEOREM TasksStayKept == ClusterSpec => []TasksKept
BY InvTasks, SpecInv, PTL

\* A worker of a broker is in its list once, or its message is on the way once, or it
\* is at work, and the capacity is the length of the list: the list that a request
\* takes a worker from is never empty (full_cluster.c:199-206, 273-278).
THEOREM WorkersStayListed == ClusterSpec => []WorkersListed
<1>1. ClusterInv => WorkersListed
  BY DEF ClusterInv
<1> QED BY <1>1, SpecInv, PTL

=============================================================================
