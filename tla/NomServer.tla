----------------------------- MODULE NomServer -----------------------------
(***************************************************************************)
(* The agent of models/nom_server.c: a state machine for every client, and *)
(* one loop with a tickless timer that answers them and sends heartbeats.  *)
(* A client sends what it likes, in any order.  Time passes in ticks, and  *)
(* also while the agent works, so what it reads from the clock may be past *)
(* when it is used.                                                        *)
(***************************************************************************)
EXTENDS Integers, Sequences, FiniteSets

CONSTANTS NomClient,
          NomHeartbeat,     \* ticks between heartbeats, 1000 ms in the code
          MaxRouter         \* BOUND: messages in the router socket

ASSUME NomAssumption == NomHeartbeat \in Nat \ {0} /\ MaxRouter \in Nat \ {0}

\* The name in an OHAI is Joe or it is not; "OTHER" is a command nobody knows.
Command == {"OHAI-Joe", "OHAI", "ICANHAZ", "HUGZ", "OTHER"}

VARIABLES session,      \* client -> its state in the server, "none" when it has none
          due,          \* client -> ticks to its heartbeat_at, -1 when that is past
          router,       \* the messages to read: [from, command]
          caller,       \* the thread that owns the server: "new", "waits" or "destroys"
          orders,       \* what it has sent to the agent, "BIND" and "STOP"
          bound,        \* the router is bound, and its messages can be read
          agent,        \* "loop", "stopped" or in a poll: "poll" until the first heartbeat
                        \* is due, "hour" with the longest timer, "endless" with none
          told          \* client -> what the agent has sent it last

callerVars == <<caller, orders>>
nomVars == <<session, due, router, callerVars, bound, agent, told>>

NomInit ==
    /\ session = [c \in NomClient |-> "none"]
    /\ due = [c \in NomClient |-> -1]
    /\ router = <<>>
    /\ caller = "new" /\ orders = <<>>
    /\ bound = FALSE
    /\ agent = "loop"
    /\ told = [c \in NomClient |-> "none"]

Known == {c \in NomClient : session[c] # "none"}

----------------------------------------------------------------------------
(* The state machine of a client. *)

\* A transition: the state it leads to, the event that follows and what is sent.
Goes(state, next, reply) == [state |-> state, next |-> next, reply |-> reply]

\* One turn of client_execute.  The credentials are checked on the way to
\* "authenticated", and decide the event that follows.
Turn(state, event, command) ==
    CASE <<state, event>> = <<"start", "ohai">> ->
             Goes("authenticated", IF command = "OHAI-Joe" THEN "ok" ELSE "error", "none")
      [] <<state, event>> = <<"authenticated", "ok">> -> Goes("ready", "none", "OHAI-OK")
      [] <<state, event>> = <<"authenticated", "error">> -> Goes("start", "none", "WTF")
      [] <<state, event>> = <<"ready", "icanhaz">> -> Goes("ready", "none", "CHEEZBURGER")
      [] <<state, event>> = <<"ready", "hugz">> -> Goes("ready", "none", "HUGZ-OK")
      [] <<state, event>> = <<"ready", "heartbeat">> -> Goes("ready", "none", "HUGZ")
      [] OTHER -> Goes(state, "none", "none")

\* Plausible bug: the event that follows is not executed.
ExecuteOnce(state, event, command) == Turn(state, event, command)

\* Turns until no event follows: the second is the last.
Execute(state, event, command) ==
    LET first == Turn(state, event, command)
    IN  IF first.next = "none" THEN first ELSE Turn(first.state, first.next, command)

Event(command) ==
    CASE command \in {"OHAI-Joe", "OHAI"} -> "ohai"
      [] command = "ICANHAZ" -> "icanhaz"
      [] command = "HUGZ" -> "hugz"
      [] OTHER -> "none"

----------------------------------------------------------------------------
(* The clients, the caller and the clock. *)

\* A socket connects as soon as its peer is bound, and keeps what it is to send.
NomSendOne(c, m) == router' = Append(router, [from |-> c, command |-> m])

NomSend(c) ==
    /\ Len(router) < MaxRouter
    /\ \E m \in Command : NomSendOne(c, m)
    /\ UNCHANGED <<session, due, callerVars, bound, agent, told>>

\* nom_server_bind
Bind ==
    /\ caller = "new" /\ caller' = "waits"
    /\ orders' = Append(orders, "BIND")
    /\ UNCHANGED <<session, due, router, bound, agent, told>>

\* nom_server_destroy sends STOP, and waits until the agent has stopped.
Destroy ==
    /\ caller = "waits" /\ caller' = "destroys"
    /\ orders' = Append(orders, "STOP")
    /\ UNCHANGED <<session, due, router, bound, agent, told>>

NomTick ==
    /\ due' = [c \in NomClient |-> IF due[c] < 0 THEN due[c] ELSE due[c] - 1]
    /\ UNCHANGED <<session, router, callerVars, bound, agent, told>>

----------------------------------------------------------------------------
(* The loop. *)

\* The time to the first heartbeat is unsigned: when that heartbeat is past by
\* now it wraps, and as the argument of the poll it is negative, which is no
\* timeout.  Without a client the timer is an hour; the end of it is left out.
Tickless ==
    IF Known = {} THEN "hour"
    ELSE IF \E c \in Known : due[c] < 0 THEN "endless" ELSE "poll"

EnterPoll ==
    /\ agent = "loop"
    /\ agent' = Tickless
    /\ UNCHANGED <<session, due, router, callerVars, bound, told>>

\* The clients whose heartbeat is due: client_ping.
Ping == {c \in Known : due[c] <= 0}

\* The poll finds a message of the caller or of a client, or it does not.
Controlled == orders # <<>>
Readable == bound /\ router # <<>>

Awake == Controlled \/ Readable \/ (agent = "poll" /\ Ping # {})

\* agent_control_message; the turn goes on, and then the loop or the agent ends.
ControlMessage ==
    /\ orders' = IF Controlled THEN Tail(orders) ELSE orders
    /\ bound' = (bound \/ (Controlled /\ Head(orders) = "BIND"))
    /\ agent' = IF Controlled /\ Head(orders) = "STOP" THEN "stopped" ELSE "loop"

\* The state of a client, that of a new one being "start".
Current(c) == IF session[c] = "none" THEN "start" ELSE session[c]

\* The state machine of the client whose message is read.
Executed ==
    LET m == Head(router) IN Execute(Current(m.from), Event(m.command), m.command)

\* What a turn sends to a client.
Says(c) ==
    IF Readable /\ Head(router).from = c THEN Executed.reply
    ELSE IF c \in Ping /\ session[c] = "ready" THEN "HUGZ" ELSE "none"

\* A client that is heard, or pinged, has an interval before its next heartbeat.
Refreshed == Ping \cup (IF Readable THEN {Head(router).from} ELSE {})

\* agent_client_message
ClientMessage ==
    IF Readable
    THEN /\ session' = [session EXCEPT ![Head(router).from] = Executed.state]
         /\ router' = Tail(router)
    ELSE UNCHANGED <<session, router>>

\* The poll returns: a control message, a client's and the heartbeats, in this order.
Wake ==
    /\ agent \in {"poll", "hour", "endless"}
    /\ Awake
    /\ ControlMessage
    /\ ClientMessage
    /\ told' = [c \in NomClient |-> IF Says(c) = "none" THEN told[c] ELSE Says(c)]
    /\ due' = [c \in NomClient |-> IF c \in Refreshed THEN NomHeartbeat ELSE due[c]]
    /\ UNCHANGED caller

NomNext ==
    \/ \E c \in NomClient : NomSend(c)
    \/ Bind
    \/ Destroy
    \/ NomTick
    \/ EnterPoll
    \/ Wake

----------------------------------------------------------------------------
(* Properties. *)

\* The types.  Between two messages no client is left authenticated, and what a
\* client was told last tells its state.
NomTypeOK ==
    /\ session \in [NomClient -> {"none", "start", "ready"}]
    /\ due \in [NomClient -> -1 .. NomHeartbeat]
    /\ router \in Seq([from : NomClient, command : Command])
    /\ caller \in {"new", "waits", "destroys"} /\ orders \in Seq({"BIND", "STOP"})
    /\ bound \in BOOLEAN
    /\ agent \in {"loop", "poll", "hour", "endless", "stopped"}
    /\ \A c \in NomClient : (told[c] \in {"none", "WTF"}) = (session[c] # "ready")

\* The clients that have been let in, were silent for an interval, and wait for their
\* heartbeat.  When one was already due as the timer was computed, the poll has no
\* timeout, and nothing is claimed (nom_server.c:394-411).
Overdue ==
    IF agent \in {"endless", "stopped"} THEN {}
    ELSE {c \in NomClient : session[c] = "ready" /\ due[c] <= 0}

-----------------------------------------------------------------------------
(* nom_server_test: a dealer plays a script against an agent of its own    *)
(* and asserts every answer.  Here the agent is never late, as a self-test *)
(* expects, but the test itself may be: it is preempted for any time       *)
(* between two of its statements.                                          *)

CONSTANT Dealer     \* the client that is the test's socket

ASSUME DealerAssumption == Dealer \in NomClient

\* What the test sends, and the answer that it asserts; the last is a heartbeat.
Script == << <<"OHAI", "WTF">>, <<"OHAI-Joe", "OHAI-OK">>, <<"ICANHAZ", "CHEEZBURGER">>,
             <<"HUGZ", "HUGZ-OK">>, <<"none", "HUGZ">> >>

\* zsocket_set_rcvtimeo, 2000 ms in the code.
RcvTimeo == 2 * NomHeartbeat

VARIABLES line,         \* the line of the script it is at
          receives,     \* the line's message is sent
          came,      \* what has come
          patience,     \* ticks until its zmsg_recv returns nothing
          silence,      \* ticks since its last message
          slow,         \* it once sent a message an interval or more after another
          verdict       \* "runs", "OK" or the assertion that failed

testVars == <<line, receives, came, patience, silence, slow, verdict>>

TestInit ==
    /\ line = 1 /\ receives = FALSE /\ came = <<>>
    /\ patience = 0 /\ silence = 0 /\ slow = FALSE
    /\ verdict = "runs"

TestSend ==
    /\ verdict = "runs" /\ caller # "new" /\ line <= Len(Script) /\ ~receives
    /\ receives' = TRUE
    /\ patience' = RcvTimeo
    /\ IF Script[line][1] = "none"
       THEN UNCHANGED <<router, silence, slow>>
       ELSE /\ NomSendOne(Dealer, Script[line][1])
            /\ silence' = 0
            /\ slow' = (slow \/ silence >= NomHeartbeat)
    /\ UNCHANGED <<session, due, callerVars, bound, agent, told, line, came, verdict>>

TestReceive ==
    /\ verdict = "runs" /\ receives /\ came # <<>>
    /\ came' = Tail(came)
    /\ receives' = FALSE
    /\ IF Head(came) = Script[line][2]
       THEN line' = line + 1 /\ UNCHANGED verdict
       ELSE verdict' = "another" /\ UNCHANGED line
    /\ UNCHANGED <<nomVars, patience, silence, slow>>

\* zmsg_recv returns nothing, and the assertion wants a message.
TestTimeout ==
    /\ verdict = "runs" /\ receives /\ came = <<>> /\ patience = 0
    /\ verdict' = "nothing"
    /\ UNCHANGED <<nomVars, line, receives, came, patience, silence, slow>>

\* The end of the script: the server is destroyed.
TestEnd ==
    /\ verdict = "runs" /\ line > Len(Script)
    /\ verdict' = "OK"
    /\ Destroy
    /\ UNCHANGED <<line, receives, came, patience, silence, slow>>

TestWake ==
    /\ Wake
    /\ came' = IF Says(Dealer) = "none" THEN came ELSE Append(came, Says(Dealer))
    /\ UNCHANGED <<line, receives, patience, silence, slow, verdict>>

\* BOUND: the test waits no longer than an interval more than its recv would.
TestTick ==
    /\ verdict = "runs" /\ silence <= RcvTimeo + NomHeartbeat
    /\ agent \in {"poll", "hour"} /\ ~Awake
    /\ receives => patience > 0
    /\ NomTick
    /\ patience' = IF receives THEN patience - 1 ELSE patience
    /\ silence' = silence + 1
    /\ UNCHANGED <<line, receives, came, slow, verdict>>

TestNext ==
    \/ TestSend \/ TestReceive \/ TestTimeout \/ TestEnd \/ TestWake \/ TestTick
    \/ (Bind \/ EnterPoll) /\ UNCHANGED testVars

----------------------------------------------------------------------------
(* Properties. *)

\* The self-test of a server that is in time fails only when the test itself was slow:
\* an interval without a message of its own, and a heartbeat comes where it asserts an
\* answer.  It never waits in vain, for an answer or for the heartbeat that it asserts at
\* the end (nom_server.c:434-488).
TestSound ==
    /\ verdict = "another" => slow
    /\ verdict # "nothing"

=============================================================================
