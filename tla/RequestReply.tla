---------------------------- MODULE RequestReply ----------------------------
(***************************************************************************)
(* Requests and replies: hello_server (a REQ client and a REP server), and *)
(* with a broker between them ROUTER_DEALER (its own loop, rrbroker.c) and *)
(* client-broker-server (zmq_proxy).  A message is the client's identity,  *)
(* which the ROUTER puts before it, and the number of its request.         *)
(***************************************************************************)
EXTENDS Integers, Sequences

CONSTANTS Asker,        \* clients
          Responder,    \* workers; of hello_server the one is its server
          Hellos        \* requests of a client, 10 in the code

ASSUME HellosAssumption == Hellos \in Nat

VARIABLES setup,        \* "hello_server", "ROUTER_DEALER" or "client-broker-server"
          request_nbr,  \* per client, its for loop
          asking,       \* whether the client waits for its reply
          frontend,     \* requests at the broker, or at the server
          backend,      \* per worker, requests the DEALER gave it
          replying,     \* per worker, the request in its hands
          answers,      \* replies at the broker's backend
          replies,      \* per client, replies in its socket
          revents       \* the sockets the broker's poll found ready and it has not served

rrVars == <<setup, request_nbr, asking, frontend, backend, replying, answers, replies, revents>>

RRInit ==
    /\ setup \in {"hello_server", "ROUTER_DEALER", "client-broker-server"}
    /\ request_nbr = [c \in Asker |-> 0]
    /\ asking = [c \in Asker |-> FALSE]
    /\ frontend = <<>> /\ answers = <<>>
    /\ backend = [w \in Responder |-> <<>>]
    /\ replying = [w \in Responder |-> <<>>]
    /\ replies = [c \in Asker |-> <<>>]
    /\ revents = {}

\* s_send of the client's loop
Hello(c) ==
    /\ ~asking[c] /\ request_nbr[c] # Hellos
    /\ asking' = [asking EXCEPT ![c] = TRUE]
    /\ frontend' = Append(frontend, <<c, request_nbr[c]>>)
    /\ UNCHANGED <<setup, request_nbr, backend, replying, answers, replies, revents>>

\* s_recv
World(c) ==
    /\ asking[c] /\ replies[c] # <<>>
    /\ replies' = [replies EXCEPT ![c] = Tail(@)]
    /\ asking' = [asking EXCEPT ![c] = FALSE]
    /\ request_nbr' = [request_nbr EXCEPT ![c] = @ + 1]
    /\ UNCHANGED <<setup, frontend, backend, replying, answers, revents>>

\* zmq_poll of the broker: it waits until a socket is ready, and then serves what was.
PollBoth ==
    LET ready == {s \in {"frontend", "backend"} : (s = "frontend" /\ frontend # <<>>)
                                                  \/ (s = "backend" /\ answers # <<>>)}
    IN  /\ setup # "hello_server" /\ revents = {} /\ ready # {}
        /\ revents' = ready
        /\ UNCHANGED <<setup, request_nbr, asking, frontend, backend, replying, answers, replies>>

\* All the parts of one request; the DEALER gives it to one of the workers.
Forward ==
    /\ "frontend" \in revents
    /\ \E w \in Responder : backend' = [backend EXCEPT ![w] = Append(@, Head(frontend))]
    /\ frontend' = Tail(frontend)
    /\ revents' = revents \ {"frontend"}
    /\ UNCHANGED <<setup, request_nbr, asking, replying, answers, replies>>

\* Plausible bug: every waiting reply is sent, as parts of one message to the first client.
BackAll ==
    /\ revents = {"backend"}
    /\ replies' = [replies EXCEPT ![Head(answers)[1]] = @ \o answers]
    /\ answers' = <<>>
    /\ revents' = {}
    /\ UNCHANGED <<setup, request_nbr, asking, frontend, backend, replying>>

\* All the parts of one reply; the ROUTER sends it by its first part.
Back ==
    /\ revents = {"backend"}
    /\ replies' = [replies EXCEPT ![Head(answers)[1]] = Append(@, Head(answers))]
    /\ answers' = Tail(answers)
    /\ revents' = {}
    /\ UNCHANGED <<setup, request_nbr, asking, frontend, backend, replying>>

\* The worker of a broker.
Respond(w) ==
    /\ setup # "hello_server"
    /\ \/ /\ replying[w] = <<>> /\ backend[w] # <<>>
          /\ replying' = [replying EXCEPT ![w] = Head(backend[w])]
          /\ backend' = [backend EXCEPT ![w] = Tail(@)]
          /\ UNCHANGED answers
       \/ /\ replying[w] # <<>>
          /\ answers' = Append(answers, replying[w])
          /\ replying' = [replying EXCEPT ![w] = <<>>]
          /\ UNCHANGED backend
    /\ UNCHANGED <<setup, request_nbr, asking, frontend, replies, revents>>

\* The server of hello_server: its REP socket keeps the way back.
Serve(w) ==
    /\ setup = "hello_server"
    /\ \/ /\ \A v \in Responder : replying[v] = <<>>
          /\ frontend # <<>>
          /\ replying' = [replying EXCEPT ![w] = Head(frontend)]
          /\ frontend' = Tail(frontend)
          /\ UNCHANGED replies
       \/ /\ replying[w] # <<>>
          /\ replies' = [replies EXCEPT ![replying[w][1]] = Append(@, replying[w])]
          /\ replying' = [replying EXCEPT ![w] = <<>>]
          /\ UNCHANGED frontend
    /\ UNCHANGED <<setup, request_nbr, asking, backend, answers, revents>>

RRNext ==
    \/ \E c \in Asker : Hello(c) \/ World(c)
    \/ PollBoth \/ Forward \/ Back
    \/ \E w \in Responder : Respond(w) \/ Serve(w)

----------------------------------------------------------------------------
(* Properties. *)

\* Where a request and its reply can be: the sockets' queues and the hands of the workers.
Stations == {<<"frontend">>, <<"answers">>} \cup ({"backend", "replying"} \X Responder)
                                         \cup ({"replies"} \X Asker)

AtStation(s) ==
    CASE s[1] = "frontend" -> frontend
      [] s[1] = "answers"  -> answers
      [] s[1] = "backend"  -> backend[s[2]]
      [] s[1] = "replying" -> IF replying[s[2]] = <<>> THEN <<>> ELSE <<replying[s[2]]>>
      [] s[1] = "replies"  -> replies[s[2]]

\* The places of all that is on its way: a stop, and a position there.
OnTheWay   == UNION {{<<s, i>> : i \in DOMAIN AtStation(s)} : s \in Stations}
MessageAt(p) == AtStation(p[1])[p[2]]

\* What is on its way are the requests of the clients that wait, each in one place, also
\* while the broker has found both sockets ready and serves one, and what is in a client's
\* socket is the answer to its own request (rrbroker.c:18-47).
OneReply ==
    /\ {MessageAt(p) : p \in OnTheWay} = {<<c, request_nbr[c]>> : c \in {c \in Asker : asking[c]}}
    /\ \A p, q \in OnTheWay : MessageAt(p) = MessageAt(q) => p = q
    /\ \A c \in Asker : \A i \in DOMAIN replies[c] : replies[c][i] = <<c, request_nbr[c]>>
    /\ "frontend" \in revents => frontend # <<>>
    /\ "backend" \in revents => answers # <<>>

\* The clients that have requests to come.
Unfinished == {c \in Asker : request_nbr[c] # Hellos}

=============================================================================
