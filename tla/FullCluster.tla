---------------------------- MODULE FullCluster ----------------------------
(***************************************************************************)
(* The cluster of FullClusterSimulation/full_cluster.c.  Every broker has  *)
(* clients and workers of its own; a request it has no idle worker for     *)
(* goes to a peer that has said it has some.  A step of a broker is one    *)
(* turn of its primary loop up to the inner loop, one turn of the inner    *)
(* loop, or its end.  A message arrives when it is sent.  The identity a   *)
(* cloud socket puts on a message is taken off by its reader, so cloudbe   *)
(* holds what is left.                                                     *)
(***************************************************************************)
EXTENDS Integers, Sequences, FiniteSets, Functions, SequencesExt

CONSTANTS Broker, ClusterClient, ClusterWorker,
          Home,         \* client or worker -> the broker it is connected to
          Late,         \* brokers whose sockets to their peers are still to connect
          Burst,        \* BOUND: client -> how many requests it sends
          Impatient,    \* BOUND: clients whose reply may take longer than they wait
          READY

\* A route is the frames over a task: whom the answer goes to, the next hop first.
Routes == {<<c>> : c \in ClusterClient} \cup (Broker \X ClusterClient)
Request == [route : Routes, task : Nat]

\* A client's identity starts with a zero byte and a broker's with a letter, so that
\* they differ from each other and from the frame that says READY.
ASSUME ClusterAssumption ==
    /\ Home \in [ClusterClient \cup ClusterWorker -> Broker]
    /\ Broker \cap ClusterClient = {} /\ READY \notin Request
    /\ Burst \in [ClusterClient -> Nat] /\ Late \subseteq Broker
    /\ Impatient \subseteq ClusterClient

VARIABLES sock,         \* broker -> what its input sockets hold
          loop,         \* broker -> [at, local, cloud, previous, workers]
          cclient,      \* client -> [at, task, replies]
          cworker,      \* worker -> what it is to send back, and if it is still to do it
          cloudlink,    \* broker -> peers that its cloudbe can address
          statelink,    \* broker -> peers that its statefe hears
          lost          \* clients whose request went to no one

clusterVars == <<sock, loop, cclient, cworker, cloudlink, statelink, lost>>

Peers(b) == Broker \ {b}

ClusterInit ==
    /\ sock = [b \in Broker |-> [localfe |-> <<>>, localbe |-> <<>>, cloudfe |-> <<>>,
                                 cloudbe |-> <<>>, statefe |-> <<>>, monitor |-> 0]]
    /\ loop = [b \in Broker |-> [at |-> "primary", local |-> 0, cloud |-> 0,
                                 previous |-> 0, workers |-> <<>>]]
    /\ cclient = [c \in ClusterClient |-> [at |-> "idle", task |-> 0, replies |-> <<>>]]
    /\ cworker = [w \in ClusterWorker |-> [busy |-> TRUE, work |-> READY]]
    /\ cloudlink = [b \in Broker |-> IF b \in Late THEN {} ELSE Peers(b)]
    /\ statelink = [b \in Broker |-> IF b \in Late THEN {} ELSE Peers(b)]
    /\ lost = {}

----------------------------------------------------------------------------
(* The tasks. *)

\* A client sends its next request, and waits.
ClientSend(c) ==
    LET b == Home[c]
        n == cclient[c].task + 1
    IN  /\ cclient[c].at = "idle"
        /\ n <= Burst[c]
        /\ cclient' = [cclient EXCEPT ![c].at = "waiting", ![c].task = n]
        /\ sock' = [sock EXCEPT ![b].localfe = Append(@, [route |-> <<c>>, task |-> n])]
        /\ UNCHANGED <<loop, cworker, cloudlink, statelink, lost>>

\* It reads a reply, which has to be to its task, and reports it.
ClientReceive(c) ==
    /\ cclient[c].at = "waiting"
    /\ cclient[c].replies # <<>>
    /\ LET same == Head(cclient[c].replies).task = cclient[c].task
       IN  /\ cclient' = [cclient EXCEPT ![c].at = IF same THEN "idle" ELSE "aborted",
                                         ![c].replies = Tail(@)]
           /\ sock' = IF same THEN [sock EXCEPT ![Home[c]].monitor = @ + 1] ELSE sock
    /\ UNCHANGED <<loop, cworker, cloudlink, statelink, lost>>

\* Ten seconds without a reply: it says so, and ends with its socket open.
ClientExit(c) ==
    /\ c \in Impatient
    /\ cclient[c].at = "waiting"
    /\ cclient[c].replies = <<>>
    /\ cclient' = [cclient EXCEPT ![c].at = "gone"]
    /\ sock' = [sock EXCEPT ![Home[c]].monitor = @ + 1]
    /\ UNCHANGED <<loop, cworker, cloudlink, statelink, lost>>

\* A worker is ready first, and then returns each request as it came.
WorkerSend(w) ==
    /\ cworker[w].busy
    /\ sock' = [sock EXCEPT ![Home[w]].localbe = Append(@, [from |-> w, msg |-> cworker[w].work])]
    /\ cworker' = [cworker EXCEPT ![w].busy = FALSE]
    /\ UNCHANGED <<loop, cclient, cloudlink, statelink, lost>>

----------------------------------------------------------------------------
(* The broker. *)

\* The sockets between brokers connect in their own time, each on its own.
CloudConnect(b) ==
    /\ \E p \in Peers(b) \ cloudlink[b] : cloudlink' = [cloudlink EXCEPT ![b] = @ \cup {p}]
    /\ UNCHANGED <<sock, loop, cclient, cworker, statelink, lost>>

StateConnect(b) ==
    /\ \E p \in Peers(b) \ statelink[b] : statelink' = [statelink EXCEPT ![b] = @ \cup {p}]
    /\ UNCHANGED <<sock, loop, cclient, cworker, cloudlink, lost>>

Rest(q) == IF q = <<>> THEN q ELSE Tail(q)

HasInput(s) == s.localbe # <<>> \/ s.cloudbe # <<>> \/ s.statefe # <<>> \/ s.monitor > 0

\* Plausible bug: both back ends are read, where one message is routed.
ReadBoth(s) == [s EXCEPT !.localbe = Rest(@), !.cloudbe = Rest(@), !.statefe = Rest(@)]

\* What is left: a peer's message is read only when there was no worker's.
Read(s) == [s EXCEPT !.localbe = Rest(@),
                     !.cloudbe = IF s.localbe # <<>> THEN @ ELSE Rest(@),
                     !.statefe = Rest(@),
                     !.monitor = IF @ > 0 THEN @ - 1 ELSE @]

\* The message of this turn: a worker's, else a peer's.  READY goes nowhere.
TakenReply(s) ==
    IF s.localbe # <<>> THEN Head(s.localbe).msg
    ELSE IF s.cloudbe # <<>> THEN Head(s.cloudbe) ELSE READY

\* A reply whose first frame names a peer goes there, any other to a client.
RouteReply(b, m, s) ==
    \/ /\ m = READY
       /\ sock' = s /\ UNCHANGED cclient
    \/ /\ m # READY
       /\ Head(m.route) \in Peers(b)
       /\ sock' = [s EXCEPT ![Head(m.route)].cloudbe = Append(@, [m EXCEPT !.route = Tail(@)])]
       /\ UNCHANGED cclient
    \/ /\ m # READY
       /\ Head(m.route) \notin Peers(b)
       /\ sock' = s
       /\ cclient' = IF Head(m.route) \in ClusterClient /\ Home[Head(m.route)] = b
                     THEN [cclient EXCEPT ![Head(m.route)].replies = Append(@, m)]
                     ELSE cclient      \* no such client is connected

\* One poll and all it found.  With an idle worker the poll ends by itself.
Primary(b) ==
    LET s == sock[b]
        l == loop[b]
        worker == s.localbe # <<>>
    IN  /\ l.at = "primary"
        /\ HasInput(s) \/ l.local > 0
        /\ loop' = [loop EXCEPT ![b] =
               [at |-> "secondary", previous |-> l.local,
                local |-> IF worker THEN l.local + 1 ELSE l.local,
                workers |-> IF worker THEN Append(l.workers, Head(s.localbe).from) ELSE l.workers,
                cloud |-> IF s.statefe # <<>> THEN Head(s.statefe) ELSE l.cloud]]
        /\ RouteReply(b, TakenReply(s), [sock EXCEPT ![b] = Read(s)])
        /\ UNCHANGED <<cworker, cloudlink, statelink, lost>>

\* Plausible bug: the poll has one item too few.
PolledShort(b) == {"localfe"}

\* The sockets the inner loop polls: a peer's request is for our own workers only.
Polled(b) == IF loop[b].local > 0 THEN {"localfe", "cloudfe"} ELSE {"localfe"}

Source(b) ==
    IF loop[b].local + loop[b].cloud = 0 THEN "none"
    ELSE IF sock[b].localfe # <<>> THEN "localfe"
    ELSE IF "cloudfe" \in Polled(b) /\ sock[b].cloudfe # <<>> THEN "cloudfe" ELSE "none"

\* Plausible bug: the capacity is not counted down.
TakenUncounted(l) == [l EXCEPT !.workers = Tail(@)]

Taken(l) == [l EXCEPT !.workers = Tail(@), !.local = @ - 1]

\* The first of the idle workers takes the request,
RouteLocal(b) ==
    /\ loop[b].at = "secondary"
    /\ Source(b) # "none"
    /\ loop[b].local > 0
    /\ sock' = [sock EXCEPT ![b][Source(b)] = Tail(@)]
    /\ cworker' = [cworker EXCEPT ![Head(loop[b].workers)] =
                      [busy |-> TRUE, work |-> Head(sock[b][Source(b)])]]
    /\ loop' = [loop EXCEPT ![b] = Taken(@)]
    /\ UNCHANGED <<cclient, cloudlink, statelink, lost>>

\* or else some peer does: one that cloudbe has no connection to gets nothing.
RouteCloud(b) ==
    /\ loop[b].at = "secondary"
    /\ Source(b) # "none"
    /\ loop[b].local = 0
    /\ \E p \in Peers(b) :
         LET m == Head(sock[b][Source(b)])
             taken == [sock EXCEPT ![b][Source(b)] = Tail(@)]
         IN  IF p \in cloudlink[b]
             THEN /\ sock' = [taken EXCEPT ![p].cloudfe =
                                  Append(@, [m EXCEPT !.route = <<b>> \o @])]
                  /\ UNCHANGED lost
             ELSE sock' = taken /\ lost' = lost \cup {Last(m.route)}
    /\ UNCHANGED <<loop, cclient, cworker, cloudlink, statelink>>

\* Nothing to route: the peers are told the capacity if it has changed.
Publish(b) ==
    /\ loop[b].at = "secondary"
    /\ Source(b) = "none"
    /\ loop' = [loop EXCEPT ![b].at = "primary"]
    /\ sock' = IF loop[b].local = loop[b].previous THEN sock
               ELSE [p \in Broker |-> IF b \in statelink[p]
                                      THEN [sock[p] EXCEPT !.statefe = Append(@, loop[b].local)]
                                      ELSE sock[p]]
    /\ UNCHANGED <<cclient, cworker, cloudlink, statelink, lost>>

BrokerStep(b) == Primary(b) \/ RouteLocal(b) \/ RouteCloud(b) \/ Publish(b)

ClusterNext ==
    \/ \E c \in ClusterClient : ClientSend(c) \/ ClientReceive(c) \/ ClientExit(c)
    \/ \E w \in ClusterWorker : WorkerSend(w)
    \/ \E b \in Broker : CloudConnect(b) \/ StateConnect(b) \/ BrokerStep(b)

----------------------------------------------------------------------------
(* Properties. *)

Message == Request \cup {READY}
FromWorker == [from : ClusterWorker, msg : Message]
BrokerSockets == [localfe : Seq(Request), cloudfe : Seq(Request), cloudbe : Seq(Request),
            localbe : Seq(FromWorker), statefe : Seq(Nat), monitor : Nat]
LoopState == [at : {"primary", "secondary"}, local : Nat, cloud : Nat, previous : Nat,
              workers : Seq(ClusterWorker)]
ClientState == [at : {"idle", "waiting", "gone"}, task : Nat, replies : Seq(Request)]
WorkerState == [busy : BOOLEAN, work : Message]

ClusterTypeOK ==
    /\ sock \in [Broker -> BrokerSockets]
    /\ loop \in [Broker -> LoopState]
    /\ cclient \in [ClusterClient -> ClientState]
    /\ cworker \in [ClusterWorker -> WorkerState]
    /\ cloudlink \in [Broker -> SUBSET Broker] /\ statelink \in [Broker -> SUBSET Broker]
    /\ \A b \in Broker : b \notin cloudlink[b] \cup statelink[b]
    /\ lost \subseteq ClusterClient

\* Where a request or the reply to it can be, and the messages there.
Place == ({"localfe", "cloudfe", "cloudbe", "localbe"} \X Broker)
             \cup ({"work"} \X ClusterWorker) \cup ({"replies"} \X ClusterClient)

Held ==
    [p \in Place |->
        CASE p[1] = "localbe" -> [i \in DOMAIN sock[p[2]].localbe |-> sock[p[2]].localbe[i].msg]
          [] p[1] = "work"    -> IF cworker[p[2]].busy THEN <<cworker[p[2]].work>> ELSE <<>>
          [] p[1] = "replies" -> cclient[p[2]].replies
          [] OTHER            -> sock[p[2]][p[1]]]

\* Whether a message is the request of client c, or the reply to it.
Carries(m, c) == m # READY /\ Last(m.route) = c /\ m.task = cclient[c].task

Copies(p, c) == {i \in DOMAIN Held[p] : Carries(Held[p][i], c)}

Nowhere(c) == \A p \in Place : Copies(p, c) = {}

OnceIn(p, c) == \E i \in DOMAIN Held[p] : Copies(p, c) = {i}

Somewhere(c) == \E p \in Place : OnceIn(p, c) /\ \A q \in Place \ {p} : Copies(q, c) = {}

\* A request a client waits for is in exactly one place of the cluster, wherever
\* its brokers sent it, unless it went to a peer that was not connected yet; so it
\* is worked on once and its answer finds the client (full_cluster.c:223-232, 265-284).
TasksKept ==
    \A c \in ClusterClient :
        cclient[c].at = "waiting" => IF c \in lost THEN Nowhere(c) ELSE Somewhere(c)

\* The list of idle workers and the capacity that is kept beside it agree, and a
\* worker is listed, or heard of, or at work, once and not two of them, so that the
\* list is never popped empty (full_cluster.c:199-206, 273-278).
WorkersListed ==
    \A b \in Broker :
        LET mine == {w \in ClusterWorker : Home[w] = b}
            senders == [i \in DOMAIN sock[b].localbe |-> sock[b].localbe[i].from]
            listed == Range(loop[b].workers)
            heard == Range(senders)
            busy == {w \in mine : cworker[w].busy}
        IN  /\ loop[b].local = Len(loop[b].workers)
            /\ IsInjective(loop[b].workers)
            /\ IsInjective(senders)
            /\ listed \cup heard \cup busy = mine
            /\ listed \cap heard = {} /\ listed \cap busy = {} /\ heard \cap busy = {}

\* The clients whose request is somewhere in the cluster, or its reply.
Unanswered == {c \in ClusterClient \ lost : cclient[c].at = "waiting"}

=============================================================================
