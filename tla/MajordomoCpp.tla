---------------------------- MODULE MajordomoCpp ----------------------------
(***************************************************************************)
(* Majordomo in C++: the broker of majordomo/mdbroker.cpp, the workers of  *)
(* mdwrkapi.hpp and the asynchronous client of mdcliapi2.hpp, which sends  *)
(* many requests and then reads many replies.  The programs know one       *)
(* service, echo.  A handler of the broker is a step.  The broker's fields *)
(* are one record, which the operators named for its methods take and      *)
(* return.  An idle worker expires after Expiry ticks of silence.          *)
(* No program seeds random(), from which a connection gets its identity:   *)
(* every process draws the same ones, in the same order.                   *)
(***************************************************************************)
EXTENDS Integers, Sequences, FiniteSets, Functions, SequencesExt

CONSTANTS CppWorker,
          Expiry,           \* HEARTBEAT_EXPIRY, in ticks
          MaxRequests,      \* BOUND: requests the client sends, 100000 in the code
          MaxSessions       \* BOUND: connections a process makes, one after the other

ASSUME CppAssumption ==
    /\ Expiry \in Nat \ {0} /\ MaxRequests \in Nat /\ MaxSessions \in Nat \ {0}

\* What s_set_id draws first, second and so on in any process.
Identity == 1 .. MaxSessions
First == 1
CppRequest == 1 .. MaxRequests

VARIABLES cpp,          \* the broker, see CppBroker
          inbox,        \* what its socket holds: [from, kind, request]
          api,          \* worker -> [id, at, request, mail]; id is 0 where the ROUTER has no route
          given,        \* worker -> identities its process has drawn
          closing,      \* identities of closed connections that the ROUTER still has
          mdcli,        \* the client's connection
          asked,        \* requests the client has sent
          mail,         \* replies the client has not read yet
          got           \* replies it has read

cppVars == <<cpp, inbox, api, given, closing, mdcli, asked, mail, got>>

\* The broker: m_services (is echo there; its m_requests, m_waiting and m_workers),
\* m_workers with every m_expiry, m_waiting, and what a handler is to send.
CppBroker == [running : BOOLEAN, service : BOOLEAN, requests : Seq(CppRequest),
              list : Seq(Identity), count : Int,
              workers : UNION {[W -> 0 .. Expiry] : W \in SUBSET Identity},
              idle : SUBSET Identity, out : Seq(Identity \X (0 .. MaxRequests))]

DISCONNECT == 0

\* In a worker's mail: a reply to a client.
Astray == MaxRequests + 1

\* service::m_workers is never set: count is how far it is from where it started,
\* and the 200 or 404 that mmi.service makes of it is anything.
CppInit ==
    /\ cpp = [running |-> TRUE, service |-> FALSE, requests |-> <<>>, list |-> <<>>,
              count |-> 0, workers |-> [i \in {} |-> 0], idle |-> {}, out |-> <<>>]
    /\ inbox = <<>>
    /\ api = [w \in CppWorker |-> [id |-> 0, at |-> "new", request |-> 0, mail |-> <<>>]]
    /\ given = [w \in CppWorker |-> 0]
    /\ closing = {}
    /\ mdcli = "new"
    /\ asked = 0
    /\ mail = <<>>
    /\ got = <<>>

----------------------------------------------------------------------------
(* The methods of the broker. *)

Without(f, ids) == [i \in DOMAIN f \ ids |-> f[i]]
Dated(f, i, e) == [j \in DOMAIN f \cup {i} |-> IF j = i THEN e ELSE f[j]]

\* The elements of q at the positions in S, in their order.
Picked(q, S) ==
    [n \in 1 .. Cardinality(S) |-> q[CHOOSE k \in S : Cardinality({j \in S : j <= k}) = n]]

\* Plausible bug: the service's list is left as it is.
WorkersDeleteListed(b, ids) ==
    [b EXCEPT !.idle = @ \ ids, !.count = @ - Cardinality(ids), !.workers = Without(@, ids)]

\* worker_delete, for workers of the service.
WorkersDelete(b, ids) ==
    [b EXCEPT !.list = Picked(@, {k \in DOMAIN @ : @[k] \notin ids}),
              !.idle = @ \ ids,
              !.count = @ - Cardinality(ids),
              !.workers = Without(@, ids)]

\* purge_workers looks at every idle worker.
PurgeWorkers(b) == WorkersDelete(b, {i \in b.idle : b.workers[i] = 0})

\* The idle worker seen last, the first of them in the list.
Latest(b) ==
    LET expiry(k) == b.workers[b.list[k]]
    IN  CHOOSE k \in DOMAIN b.list :
          \A j \in DOMAIN b.list : expiry(j) < expiry(k) \/ (expiry(j) = expiry(k) /\ k <= j)

\* A turn of the loop in service_dispatch: it gets the first request.
SendOne(b) ==
    LET i == b.list[Latest(b)]
    IN  [b EXCEPT !.requests = Tail(@), !.out = Append(@, <<i, Head(b.requests)>>),
                  !.list = RemoveAt(@, Latest(b)), !.idle = @ \ {i}]

\* service_dispatch: while a worker and a request wait.
Dispatch(b) ==
    LET purged == PurgeWorkers(b)
        turns  == Min({Len(purged.list), Len(purged.requests)})
        sent[k \in 0 .. turns] == IF k = 0 THEN purged ELSE SendOne(sent[k - 1])
    IN  sent[turns]

\* worker_waiting
WorkerWaiting(b, i) ==
    Dispatch([b EXCEPT !.idle = @ \cup {i}, !.list = Append(@, i),
                       !.workers = Dated(@, i, Expiry)])

Refuse(b, i) == [b EXCEPT !.out = Append(@, <<i, DISCONNECT>>)]

\* service_require and worker_require: found, or made.
ServiceRequire(b) == [b EXCEPT !.service = TRUE]
WorkerRequire(b, i) ==
    IF i \in DOMAIN b.workers THEN b ELSE [b EXCEPT !.workers = Dated(@, i, 0)]

\* worker_process, for one command each: a worker that was made for a command other than
\* READY is deleted again.  An identity is hexadecimal and never taken for a reserved name.
Ready(b, i) ==
    IF i \in DOMAIN b.workers THEN Refuse(WorkersDelete(b, {i}), i)
    ELSE WorkerWaiting([ServiceRequire(WorkerRequire(b, i)) EXCEPT !.count = @ + 1], i)

Reply(b, i) == IF i \in DOMAIN b.workers THEN WorkerWaiting(b, i) ELSE Refuse(b, i)

Heartbeat(b, i) ==
    IF i \in DOMAIN b.workers THEN [b EXCEPT !.workers[i] = Expiry] ELSE Refuse(b, i)

\* client_process, for echo and for mmi.service: m_services.at throws for a
\* service that nobody has named yet, and nothing catches it.
ClientRequest(b, n) == Dispatch([ServiceRequire(b) EXCEPT !.requests = Append(@, n)])
Internal(b) == IF b.service THEN b ELSE [b EXCEPT !.running = FALSE]

----------------------------------------------------------------------------
(* The broker's loop. *)

\* A message to identity i arrives with the worker that has it.
Mailed(a, i, x) ==
    [w \in CppWorker |-> IF a[w].id = i THEN [a[w] EXCEPT !.mail = Append(@, x)] ELSE a[w]]

\* What the handler sends to workers, from a state a of theirs.  The client, where it has
\* the identity of a worker the broker knows, finds a message of another protocol behind
\* its mail.
Deliver(b, a, heard) ==
    /\ cpp' = [b EXCEPT !.out = <<>>]
    /\ api' = [w \in CppWorker |->
                 LET mine == Picked(b.out, {k \in DOMAIN b.out : b.out[k][1] = a[w].id})
                 IN  [a[w] EXCEPT !.mail = @ \o [k \in DOMAIN mine |-> mine[k][2]]]]
    /\ mdcli' = IF mdcli = "linked" /\ First \in heard \cup {b.out[k][1] : k \in DOMAIN b.out}
                THEN "astray" ELSE mdcli
    /\ UNCHANGED <<given, closing, asked, got>>

\* A reply goes to the client's identity: to the client, to a worker that has it now,
\* or to nobody.  What is behind a message at which the client ends is not read.
Misled == Mailed(api, First, Astray)
Mail(n) == IF mdcli = "linked" THEN Append(mail, n) ELSE mail

Received(kind) == cpp.running /\ inbox # <<>> /\ Head(inbox).kind = kind

OnReady ==
    /\ Received("READY")
    /\ inbox' = Tail(inbox)
    /\ Deliver(Ready(cpp, Head(inbox).from), api, {})
    /\ UNCHANGED mail

OnReply ==
    LET m     == Head(inbox)
        known == m.from \in DOMAIN cpp.workers
    IN  /\ Received("REPLY")
        /\ inbox' = Tail(inbox)
        /\ mail' = IF known THEN Mail(m.request) ELSE mail
        /\ Deliver(Reply(cpp, m.from), IF known THEN Misled ELSE api, {})

OnHeartbeat ==
    /\ Received("HEARTBEAT")
    /\ inbox' = Tail(inbox)
    /\ Deliver(Heartbeat(cpp, Head(inbox).from), api, {})
    /\ UNCHANGED mail

OnRequest ==
    /\ Received("echo")
    /\ inbox' = Tail(inbox)
    /\ Deliver(ClientRequest(cpp, Head(inbox).request), api, {})
    /\ UNCHANGED mail

OnInternal ==
    /\ Received("mmi.service")
    /\ inbox' = Tail(inbox)
    /\ mail' = IF cpp.service THEN Mail(Head(inbox).request) ELSE mail
    /\ Deliver(Internal(cpp), IF cpp.service THEN Misled ELSE api, {})

\* heartbeat_at has come: the expired workers go, and the idle hear a heartbeat,
\* which does no more to a worker than put off the end of its patience.
OnTimer ==
    /\ cpp.running
    /\ Deliver(PurgeWorkers(cpp), api, PurgeWorkers(cpp).idle)
    /\ UNCHANGED <<inbox, mail>>

CppTick ==
    /\ cpp' = [cpp EXCEPT !.workers = [i \in DOMAIN @ |-> IF @[i] = 0 THEN 0 ELSE @[i] - 1]]
    /\ UNCHANGED <<inbox, api, given, closing, mdcli, asked, mail, got>>

----------------------------------------------------------------------------
(* The ROUTER (external): it refuses a connection under an identity that it *)
(* has, and has that of a closed connection until it sees the end of it,   *)
(* behind the messages that came before.                                    *)

OwnId(w) == {api[w].id} \ {0}
InUse(i) ==
    \/ i \in closing \/ \E w \in CppWorker : api[w].id = i
    \/ i = First /\ mdcli \in {"linked", "astray"}

LetGo(i) ==
    /\ i \in closing /\ \A k \in DOMAIN inbox : inbox[k].from # i
    /\ closing' = closing \ {i}
    /\ UNCHANGED <<cpp, inbox, api, given, mdcli, asked, mail, got>>

----------------------------------------------------------------------------
(* The worker: recv of mdwrkapi.hpp, called with the request as the reply. *)

ToBroker(i, k, n) == Append(inbox, [from |-> i, kind |-> k, request |-> n])

\* connect_to_broker, a new socket with the n-th identity: what waited on the old one is
\* lost, and so is what a connection that is refused sends from here on.
Connect(w, n) ==
    LET i == IF InUse(n) THEN 0 ELSE n
    IN  /\ n <= MaxSessions
        /\ given' = [given EXCEPT ![w] = n]
        /\ closing' = closing \cup OwnId(w)
        /\ inbox' = IF i = 0 THEN inbox ELSE ToBroker(i, "READY", 0)
        /\ api' = [api EXCEPT ![w] = [id |-> i, at |-> "waiting", request |-> 0, mail |-> <<>>]]
        /\ UNCHANGED <<cpp, mdcli, asked, mail, got>>

\* The constructor of mdwrk, of a program that starts, or starts again.
Start(w) == api[w].at \in {"new", "ended"} /\ Connect(w, First)

\* The broker says DISCONNECT.
Disconnected(w) ==
    /\ api[w].at = "waiting" /\ api[w].mail # <<>> /\ Head(api[w].mail) = DISCONNECT
    /\ Connect(w, given[w] + 1)

\* m_liveness polls in a row found nothing.
Silent(w) == api[w].at = "waiting" /\ api[w].mail = <<>> /\ Connect(w, given[w] + 1)

\* The program ends, and the broker is not told: an interrupt, in recv or at work, or a
\* message for a client, at which an assertion fails.
Interrupted(w) ==
    /\ api[w].at \in {"waiting", "busy"}
    /\ api' = [api EXCEPT ![w] = [id |-> 0, at |-> "ended", request |-> 0, mail |-> <<>>]]
    /\ closing' = closing \cup OwnId(w)
    /\ UNCHANGED <<cpp, inbox, given, mdcli, asked, mail, got>>

GetRequest(w) ==
    /\ api[w].at = "waiting"
    /\ api[w].mail # <<>> /\ Head(api[w].mail) \in CppRequest
    /\ api' = [api EXCEPT ![w].at = "busy", ![w].request = Head(api[w].mail), ![w].mail = Tail(@)]
    /\ UNCHANGED <<cpp, inbox, given, closing, mdcli, asked, mail, got>>

SendReply(w) ==
    /\ api[w].at = "busy"
    /\ inbox' = ToBroker(api[w].id, "REPLY", api[w].request)
    /\ api' = [api EXCEPT ![w].at = "waiting", ![w].request = 0]
    /\ UNCHANGED <<cpp, given, closing, mdcli, asked, mail, got>>

\* BOUND: one heartbeat of a worker is on its way at a time, and none is sent while
\* a message waits to be read.
SendHeartbeat(w) ==
    /\ api[w].at = "waiting" /\ api[w].id # 0 /\ api[w].mail = <<>>
    /\ \A k \in DOMAIN inbox : inbox[k].kind # "HEARTBEAT" \/ inbox[k].from # api[w].id
    /\ inbox' = ToBroker(api[w].id, "HEARTBEAT", 0)
    /\ UNCHANGED <<cpp, api, given, closing, mdcli, asked, mail, got>>

----------------------------------------------------------------------------
(* The client: send and recv of mdcliapi2.hpp. *)

\* The constructor of mdcli: the first identity of its process.
CppOpen ==
    /\ mdcli = "new"
    /\ mdcli' = IF InUse(First) THEN "refused" ELSE "linked"
    /\ UNCHANGED <<cpp, inbox, api, given, closing, asked, mail, got>>

CppSend ==
    /\ mdcli \in {"linked", "astray", "refused"} /\ asked < MaxRequests
    /\ asked' = asked + 1
    /\ \E k \in {"echo", "mmi.service"} :
         inbox' = IF mdcli = "refused" THEN inbox ELSE ToBroker(First, k, asked')
    /\ UNCHANGED <<cpp, api, given, closing, mdcli, mail, got>>

\* A reply to any of the requests is as good as another.
CppReceive ==
    /\ asked = MaxRequests /\ mail # <<>>
    /\ got' = Append(got, Head(mail))
    /\ mail' = Tail(mail)
    /\ UNCHANGED <<cpp, inbox, api, given, closing, mdcli, asked>>

\* Nothing came in time, or all has come, and the program stops reading; or it reads
\* a message for a worker, at which an assertion fails.
CppAbandon ==
    /\ mdcli \in {"linked", "astray", "refused"} /\ asked = MaxRequests /\ mail = <<>>
    /\ mdcli' = "ended"
    /\ closing' = IF mdcli = "refused" THEN closing ELSE closing \cup {First}
    /\ UNCHANGED <<cpp, inbox, api, given, asked, mail, got>>

CppNext ==
    \/ OnReady \/ OnReply \/ OnHeartbeat \/ OnRequest \/ OnInternal \/ OnTimer
    \/ CppTick
    \/ \E i \in Identity : LetGo(i)
    \/ \E w \in CppWorker :
         \/ Start(w) \/ Disconnected(w) \/ Silent(w) \/ Interrupted(w)
         \/ GetRequest(w) \/ SendReply(w) \/ SendHeartbeat(w)
    \/ CppOpen \/ CppSend \/ CppReceive \/ CppAbandon

----------------------------------------------------------------------------
(* Properties. *)

CppTypeOK ==
    /\ cpp.running \in BOOLEAN /\ cpp.service \in BOOLEAN
    /\ cpp.requests \in Seq(CppRequest) /\ cpp.list \in Seq(Identity) /\ cpp.out = <<>>
    /\ DOMAIN cpp.workers \subseteq Identity /\ Range(cpp.workers) \subseteq 0 .. Expiry
    /\ cpp.count = Cardinality(DOMAIN cpp.workers)
    /\ \A w \in CppWorker : api[w].at \in {"new", "waiting", "busy", "ended"} /\ api[w].id \in 0 .. given[w]
    /\ given \in [CppWorker -> 0 .. MaxSessions] /\ closing \subseteq Identity
    /\ mdcli \in {"new", "linked", "astray", "refused", "ended"} /\ asked \in 0 .. MaxRequests

\* The places a request or its reply is in.
Places(n) ==
    LET in(s) == Cardinality({k \in DOMAIN s : s[k] = n})
    IN  Cardinality({k \in DOMAIN inbox : inbox[k].request = n})
        + in(cpp.requests) + in(mail) + in(got)
        + Cardinality({w \in CppWorker : api[w].request = n})
        + Cardinality({w \in CppWorker : \E k \in DOMAIN api[w].mail : api[w].mail[k] = n})

\* The three structures that hold pointers to a worker agree: an idle worker is once
\* in the list of its service and once in the broker's set, and both are of workers
\* that still exist, also where a process has come back under the identity of one that
\* the broker knows, and may be handed its request before its READY is read.  No request
\* waits beside an idle worker.  A worker at work is not idle and has no other request.
\* And no request is in two places, so the client, which only counts its replies, counts
\* none twice (mdbroker.cpp:153-179, 232-255, 268-301, 353-362; zhelpers.hpp:158-166).
CppSound ==
    /\ ToSet(cpp.list) = cpp.idle /\ Len(cpp.list) = Cardinality(cpp.idle)
    /\ cpp.idle \subseteq DOMAIN cpp.workers
    /\ cpp.list = <<>> \/ cpp.requests = <<>>
    /\ \A w \in CppWorker :
         api[w].at = "busy" => api[w].id \notin cpp.idle /\ ToSet(api[w].mail) \cap CppRequest = {}
    /\ \A n \in CppRequest : Places(n) <= 1

=============================================================================
