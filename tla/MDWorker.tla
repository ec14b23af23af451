------------------------------ MODULE MDWorker ------------------------------
(***************************************************************************)
(* A Majordomo worker: mdwrk_recv of MMI/mdwrkapi.c called in a loop by an *)
(* application that answers every request it is given (MMI/mdworker.c).    *)
(* Time enters as choice: a poll may time out whenever the worker listens  *)
(* (what the broker sent is still under way), and heartbeat_at may or may  *)
(* not have passed each time the loop looks at it.                         *)
(***************************************************************************)
EXTENDS MDNet

CONSTANTS ServiceOf,   \* worker -> the service it offers
          Liveness,    \* HEARTBEAT_LIVENESS
          Nothing      \* held by a worker without a request

ASSUME WorkerAssumption ==
    /\ ServiceOf \in [Worker -> ServiceName]
    /\ Liveness \in Nat \ {0}
    /\ Nothing \notin [client : Identity, tag : Tag]

VARIABLES workerPc,   \* "recv" polling, "app" in the application, "sleep"
                      \* before a reconnect, "stopped" without a process
          liveness,   \* attempts left before the broker counts as lost
          held        \* the request in the application, its return address

workerVars == <<workerPc, liveness, held>>

Greeting(w) == [cmd |-> "READY", svc |-> ServiceOf[w]]

WorkerInit ==
    /\ workerPc = [w \in Worker |-> "recv"]
    /\ liveness = [w \in Worker |-> Liveness]
    /\ held = [w \in Worker |-> Nothing]

WorkerTypeOK ==
    /\ workerPc \in [Worker -> {"recv", "app", "sleep", "stopped"}]
    /\ liveness \in [Worker -> 0 .. Liveness]
    /\ held \in [Worker -> [client : Identity, tag : Tag] \cup {Nothing}]

-----------------------------------------------------------------------------
\* s_mdwrk_connect_to_broker.
Connect(w) ==
    /\ Reopen(w, Greeting(w))
    /\ liveness' = [liveness EXCEPT ![w] = Liveness]

\* The tail of the loop of mdwrk_recv.
MaybeHeartbeat(w) ==
    \/ UNCHANGED toBroker
    \/ Len(toBroker[Conn(w)]) < MaxInFlight /\ Send(w, Heartbeat)

TakeCommand(w, cmd) ==
    /\ workerPc[w] = "recv"
    /\ Inbox(w) # <<>>
    /\ Head(Inbox(w)).cmd = cmd

\* REQUEST: back to the application at once, past the heartbeat check.
WorkerTakeRequest(w) ==
    /\ TakeCommand(w, "REQUEST")
    /\ LET m == Head(Inbox(w)) IN
         held' = [held EXCEPT ![w] = [client |-> m.client, tag |-> m.tag]]
    /\ workerPc' = [workerPc EXCEPT ![w] = "app"]
    /\ liveness' = [liveness EXCEPT ![w] = Liveness]
    /\ Take(w)
    /\ UNCHANGED <<session, open, toBroker>>

\* A variant with a mistake: a heartbeat does not restore the liveness.
WorkerTakeHeartbeatInVain(w) ==
    /\ TakeCommand(w, "HEARTBEAT")
    /\ MaybeHeartbeat(w)
    /\ Take(w)
    /\ UNCHANGED <<session, open, workerPc, held, liveness>>

\* HEARTBEAT: any message shows that the broker lives.
WorkerTakeHeartbeat(w) ==
    /\ TakeCommand(w, "HEARTBEAT")
    /\ liveness' = [liveness EXCEPT ![w] = Liveness]
    /\ MaybeHeartbeat(w)
    /\ Take(w)
    /\ UNCHANGED <<session, open, workerPc, held>>

\* A variant with a mistake: DISCONNECT is ignored like a heartbeat.
WorkerIgnoreDisconnect(w) ==
    /\ TakeCommand(w, "DISCONNECT")
    /\ liveness' = [liveness EXCEPT ![w] = Liveness]
    /\ MaybeHeartbeat(w)
    /\ Take(w)
    /\ UNCHANGED <<session, open, workerPc, held>>

\* DISCONNECT: a new socket; heartbeat_at was just set ahead.
WorkerTakeDisconnect(w) ==
    /\ TakeCommand(w, "DISCONNECT")
    /\ Connect(w)
    /\ UNCHANGED <<workerPc, held>>

\* A variant with a mistake: liveness is decremented but never compared with 0.
WorkerPollTimeoutUnchecked(w) ==
    /\ workerPc[w] = "recv"
    /\ liveness' = [liveness EXCEPT ![w] = @ - 1]
    /\ MaybeHeartbeat(w)
    /\ UNCHANGED <<session, open, toPeer, workerPc, held>>

\* Nothing arrived in time, and the broker is still given a chance ...
WorkerPollTimeout(w) ==
    /\ workerPc[w] = "recv"
    /\ liveness[w] > 1
    /\ liveness' = [liveness EXCEPT ![w] = @ - 1]
    /\ MaybeHeartbeat(w)
    /\ UNCHANGED <<session, open, toPeer, workerPc, held>>

\* ... or it counts as lost, and the worker sleeps before it reconnects.
WorkerGiveUp(w) ==
    /\ workerPc[w] = "recv"
    /\ liveness[w] = 1
    /\ liveness' = [liveness EXCEPT ![w] = 0]
    /\ workerPc' = [workerPc EXCEPT ![w] = "sleep"]
    /\ UNCHANGED <<netVars, held>>

WorkerReconnect(w) ==
    /\ workerPc[w] = "sleep"
    /\ Connect(w)
    /\ workerPc' = [workerPc EXCEPT ![w] = "recv"]
    /\ UNCHANGED held

\* The application calls mdwrk_recv with its reply.
WorkerSendReply(w) ==
    /\ workerPc[w] = "app"
    /\ Send(w, [cmd |-> "REPLY", client |-> held[w].client, tag |-> held[w].tag])
    /\ held' = [held EXCEPT ![w] = Nothing]
    /\ workerPc' = [workerPc EXCEPT ![w] = "recv"]
    /\ UNCHANGED <<session, open, toPeer, liveness>>

WorkerNext(w) ==
    \/ WorkerTakeRequest(w)
    \/ WorkerTakeHeartbeat(w)
    \/ WorkerTakeDisconnect(w)
    \/ WorkerPollTimeout(w)
    \/ WorkerReconnect(w)
    \/ WorkerSendReply(w)

\* The process dies, with or without a request in hand.
WorkerCrash(w) ==
    /\ workerPc[w] # "stopped"
    /\ Close(w)
    /\ workerPc' = [workerPc EXCEPT ![w] = "stopped"]
    /\ held' = [held EXCEPT ![w] = Nothing]
    /\ UNCHANGED liveness

\* A worker of another MDP implementation takes its leave; mdwrkapi never
\* sends DISCONNECT, the broker accepts it.
WorkerLeave(w) ==
    /\ workerPc[w] = "recv"
    /\ Send(w, Disconnect)
    /\ open' = open \ {Conn(w)}
    /\ toPeer' = [toPeer EXCEPT ![Conn(w)] = <<>>]
    /\ workerPc' = [workerPc EXCEPT ![w] = "stopped"]
    /\ UNCHANGED <<session, liveness, held>>

\* mdwrk_new in a new process.
WorkerStart(w) ==
    /\ workerPc[w] = "stopped"
    /\ Connect(w)
    /\ workerPc' = [workerPc EXCEPT ![w] = "recv"]
    /\ UNCHANGED held

=============================================================================
