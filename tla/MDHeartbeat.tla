---------------------------- MODULE MDHeartbeat ----------------------------
(***************************************************************************)
(* Majordomo with its clocks: the heartbeating and expiry that Majordomo   *)
(* leaves to chance happen here when MMI/mdbroker.c and MMI/mdwrkapi.c     *)
(* make them happen.  Every step is a step of Majordomo's components under *)
(* additional conditions on timers, or a tick of the clock.  Timers count  *)
(* down; a process whose timer is at zero acts before the next tick, and   *)
(* so does one whose messages have been under way for MaxDelay.  The code  *)
(* compares millisecond clocks, some with > and some with >=, after calls  *)
(* that take a little time: at zero a timer that is compared may be found  *)
(* due or not, below zero it is due.                                       *)
(***************************************************************************)
EXTENDS Majordomo

CONSTANTS Interval,     \* HEARTBEAT_INTERVAL and the workers' heartbeat, in ticks
          BrokerLiveness,   \* HEARTBEAT_LIVENESS of the broker
          ReconnectDelay,   \* the workers' reconnect, in ticks
          MaxDelay      \* BOUND: ticks a message takes to a listening process

ASSUME ClockAssumption ==
    /\ Interval \in Nat \ {0}
    /\ BrokerLiveness \in Nat \ {0}
    /\ ReconnectDelay \in Nat \ {0}
    /\ MaxDelay \in {0, 1}

VARIABLES brokerPoll,   \* until the broker's zmq_poll times out
          brokerBeat,   \* until broker->heartbeat_at
          expiry,       \* identity -> until worker->expiry
          workerPoll,   \* worker -> until its zmq_poll or zclock_sleep ends
          workerBeat,   \* worker -> until its heartbeat_at
          overdue       \* channel -> messages to be taken before the next tick

clockVars == <<brokerPoll, brokerBeat, expiry, workerPoll, workerBeat, overdue>>
timedVars == <<vars, clockVars>>

Channel == Identity \X {"in", "out"}
Content(ch) == IF ch[2] = "in" THEN toBroker[ch[1]] ELSE toPeer[ch[1]]

\* A variant with a mistake: the expiry of one missed heartbeat.
ExpiryOfOne == Interval

\* HEARTBEAT_EXPIRY
Expiry == Interval * BrokerLiveness

\* The workers have just connected to a broker that has been running.
ClockInit ==
    /\ brokerPoll \in 0 .. Interval
    /\ brokerBeat \in -1 .. Interval
    /\ expiry = [i \in Identity |-> 0]
    /\ workerPoll = [w \in Worker |-> Interval]
    /\ workerBeat = [w \in Worker |-> Interval]
    /\ overdue = [ch \in Channel |-> 0]

TimedInit == Init /\ ClockInit

ClockTypeOK ==
    /\ brokerPoll \in 0 .. Interval
    /\ brokerBeat \in -1 .. Interval
    /\ expiry \in [Identity -> 0 .. Expiry]
    /\ workerPoll \in [Worker -> Nat]
    /\ \A w \in Worker :
          /\ workerPc[w] = "recv" => workerPoll[w] <= Interval
          /\ workerPc[w] = "sleep" => workerPoll[w] <= ReconnectDelay
    /\ workerBeat \in [Worker -> -1 .. Interval]
    /\ \A ch \in Channel : overdue[ch] \in 0 .. Len(Content(ch))

-----------------------------------------------------------------------------
\* What is taken or lost from the front of a channel is no longer overdue.
Delivered ==
    LET left(due, old, new) ==
          IF Len(new) < Len(old) THEN Max({0, due - (Len(old) - Len(new))}) ELSE due IN
    overdue' = [ch \in Channel |->
                  IF ch[2] = "in"
                  THEN left(overdue[ch], toBroker[ch[1]], toBroker'[ch[1]])
                  ELSE left(overdue[ch], toPeer[ch[1]], toPeer'[ch[1]])]

\* A step of the broker.  A worker whose message was accepted is refreshed;
\* a heartbeat round starts only when heartbeat_at has passed, and the loop
\* returns to zmq_poll only when it has not, or after the round.
TimedBroker ==
    /\ BrokerStep
    /\ brokerPc = "poll" /\ toBroker' = toBroker => brokerPoll = 0
    /\ current' = NoService /\ brokerPc \in {"poll", "dispatch"}
       => IF brokerPc' = "purge" THEN brokerBeat <= 0 ELSE brokerBeat >= 0
    /\ expiry' = [i \in Identity |->
                    IF i \in known' /\ toBroker'[i] # toBroker[i]
                    THEN Expiry ELSE expiry[i]]
    /\ brokerPoll' = IF brokerPc' = "poll" THEN Interval ELSE brokerPoll
    /\ brokerBeat' = IF brokerPc = "heartbeat" THEN Interval ELSE brokerBeat
    /\ Delivered
    /\ UNCHANGED <<workerPoll, workerBeat>>

\* zmq_poll timed out, but heartbeat_at is not past: once more, in full.
BrokerPollAgain ==
    /\ brokerPc = "poll"
    /\ brokerPoll = 0
    /\ brokerBeat >= 0
    /\ brokerPoll' = Interval
    /\ UNCHANGED <<vars, brokerBeat, expiry, workerPoll, workerBeat, overdue>>

\* A variant with a mistake: the sleep before a reconnect is a poll.
PauseAlike(w) == Interval

\* How long the worker's next zmq_poll or zclock_sleep is.
Pause(w) == IF workerPc'[w] = "sleep" THEN ReconnectDelay ELSE Interval

\* A step of worker w: a timeout or the end of its sleep needs its timer at
\* zero, a heartbeat goes out exactly when heartbeat_at has passed, and both
\* timers restart where the code restarts them.
TimedWorker(w) ==
    /\ \/ WorkerStep(w)
       \/ /\ brokerPc = "poll"
          /\ WorkerGiveUp(w)
          /\ UNCHANGED <<brokerVars, clientVars, faults>>
    /\ LET looped == workerPc[w] = "recv" /\ workerPc'[w] = "recv"
                     /\ session' = session
           connected == session' # session
           beaten == toBroker'[Conn(w)] # toBroker[Conn(w)] /\ looped
           timedOut == toPeer' = toPeer /\ workerPc[w] \in {"recv", "sleep"} IN
         /\ timedOut => workerPoll[w] = 0
         /\ looped => IF beaten THEN workerBeat[w] <= 0 ELSE workerBeat[w] >= 0
         /\ workerPoll' = [workerPoll EXCEPT ![w] = Pause(w)]
         /\ workerBeat' = [workerBeat EXCEPT ![w] =
              IF beaten \/ connected THEN Interval ELSE @]
    /\ Delivered
    /\ UNCHANGED <<brokerPoll, brokerBeat, expiry>>

\* Clients keep no time here: their timeouts are as in Majordomo.
TimedClient(c) ==
    /\ ClientStep(c)
    /\ Delivered
    /\ UNCHANGED <<brokerPoll, brokerBeat, expiry, workerPoll, workerBeat>>

\* The faults that are not a matter of timing.
TimedFault ==
    /\ brokerPc = "poll"
    /\ faults < MaxFaults
    /\ faults' = faults + 1
    /\ UNCHANGED clientVars
    /\ \/ /\ BrokerRestart
          /\ brokerPoll' = Interval
          /\ brokerBeat' = Interval
          /\ UNCHANGED workerVars
       \/ /\ \E w \in Worker : WorkerCrash(w)
          /\ UNCHANGED <<brokerVars, brokerPoll, brokerBeat>>
    /\ Delivered
    /\ UNCHANGED <<expiry, workerPoll, workerBeat>>

\* The process at the end of a channel is ready to take what it holds.
Listening(ch) ==
    \/ ch[2] = "in"
    \/ ch[1][1] \in Worker /\ workerPc[ch[1][1]] = "recv"
    \/ ch[1][1] \in Client /\ clientPc[ch[1][1]] = "waiting"

Down(n, low) == IF n > low THEN n - 1 ELSE low

Tick ==
    /\ brokerPc = "poll"
    /\ brokerPoll > 0
    /\ \A w \in Worker : workerPc[w] \in {"recv", "sleep"} => workerPoll[w] > 0
    /\ \A ch \in Channel : Listening(ch) =>
          /\ overdue[ch] = 0
          /\ MaxDelay = 0 => Content(ch) = <<>>
    /\ brokerPoll' = brokerPoll - 1
    /\ brokerBeat' = Down(brokerBeat, -1)
    /\ expiry' = [i \in Identity |-> Down(expiry[i], 0)]
    /\ workerPoll' = [w \in Worker |-> Down(workerPoll[w], 0)]
    /\ workerBeat' = [w \in Worker |-> Down(workerBeat[w], -1)]
    /\ overdue' = [ch \in Channel |-> Len(Content(ch))]
    /\ expired' = expired \cup {i \in Range(waiting) : expiry'[i] = 0}
    /\ UNCHANGED <<netVars, known, service, waiting, swaiting, requests,
                   nworkers, brokerPc, current, workerVars, clientVars, faults>>

TimedNext ==
    \/ TimedBroker
    \/ BrokerPollAgain
    \/ \E w \in Worker : TimedWorker(w)
    \/ \E c \in Client : TimedClient(c)
    \/ TimedFault
    \/ Tick

TimedSpec == TimedInit /\ [][TimedNext]_timedVars

\* Processes act when their timers or messages make them, time goes on.
TimedFairSpec == TimedSpec /\ WF_timedVars(TimedNext)

-----------------------------------------------------------------------------
\* While nothing fails and messages take at most MaxDelay, neither side gives
\* the other up: the broker purges no worker and no worker reconnects, although
\* both look at their timers only once per poll, up to twice the interval.
NoFalseAlarm ==
    \A w \in Worker : session[w] = 1 /\ workerPc[w] # "sleep"

NoFalsePurge == [][known \subseteq known']_timedVars

\* What the comment on s_broker_purge says it does: after a purge no worker
\* is held whose time is up.
PurgeComplete == brokerPc = "heartbeat" => Range(waiting) \cap expired = {}

\* Whatever was lost in a restart of the broker, every worker that lives is
\* registered again, under the socket it now has, and stays so.
Registered == \A w \in Worker : workerPc[w] # "stopped" => Conn(w) \in known
Recovery == <>[]Registered

=============================================================================
