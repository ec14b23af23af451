----------------------------- MODULE BinaryStar -----------------------------
(***************************************************************************)
(* A pair of servers under the Binary Star reactor of clones/bstar.c.      *)
(* Each publishes its state every heartbeat and reads what its peer        *)
(* publishes, and clients send requests to both.  Time is counted in       *)
(* ticks; a message is read at most MaxDelay ticks after it was published, *)
(* and after a start of either process the subscription takes up to        *)
(* MaxConnect ticks to be in place, which loses what is published before.  *)
(* A handler that returns -1 to the reactor ends the process.              *)
(***************************************************************************)
EXTENDS BStar, Integers, Sequences

CONSTANTS Heartbeat,    \* BSTAR_HEARTBEAT in ticks
          MaxDelay,     \* BOUND: ticks a published state is under way
          MaxConnect,   \* BOUND: ticks until a subscription is in place
          MaxCrashes    \* BOUND: crashes in a behaviour

ASSUME TimeAssumption ==
    /\ Heartbeat \in Nat \ {0}
    /\ MaxDelay \in Nat
    /\ MaxConnect \in Nat
    /\ MaxCrashes \in Nat

\* Twice the delay is less than a heartbeat, and a subscription that is made anew
\* gets the second heartbeat at the latest.
Timely == 2 * MaxDelay < Heartbeat /\ MaxDelay + MaxConnect <= Heartbeat

VARIABLES state,        \* server -> its state, "DOWN" without a process
          timer,        \* server -> ticks until it publishes its state
          peer_expiry,  \* server -> ticks until its peer counts as dead
          linking,      \* server -> ticks until its subscription is in place
          channel,      \* server -> what its peer published, with the ticks
                        \*           each message may still take
          crashes,
          fatal         \* a reactor ended with "fatal error"

vars == <<state, timer, peer_expiry, linking, channel, crashes, fatal>>

Message == [state : State, left : 0 .. MaxDelay]
Expiry == 2 * Heartbeat
Up(s) == state[s] # "DOWN"

Init ==
    /\ state = [s \in Server |-> "DOWN"]
    /\ timer = [s \in Server |-> 0]
    /\ peer_expiry = [s \in Server |-> 0]
    /\ linking = [s \in Server |-> 0]
    /\ channel = [s \in Server |-> <<>>]
    /\ crashes = 0
    /\ fatal = FALSE

TypeOK ==
    /\ state \in [Server -> State \cup {"DOWN"}]
    /\ timer \in [Server -> 0 .. Heartbeat]
    /\ peer_expiry \in [Server -> 0 .. Expiry]
    /\ linking \in [Server -> 0 .. MaxConnect]
    /\ channel \in [Server -> Seq(Message)]
    /\ crashes \in 0 .. MaxCrashes
    /\ fatal \in BOOLEAN

-----------------------------------------------------------------------------
\* A variant with a mistake: a server that starts holds its peer for dead.
StartAlone(s) ==
    /\ ~Up(s)
    /\ state' = [state EXCEPT ![s] = StartState(s)]
    /\ timer' = [timer EXCEPT ![s] = Heartbeat]
    /\ peer_expiry' = [peer_expiry EXCEPT ![s] = 0]
    /\ linking' \in [Server -> 0 .. MaxConnect]
    /\ UNCHANGED <<channel, crashes, fatal>>

\* bstar_new and bstar_start; both subscriptions have to be made anew.
Start(s) ==
    /\ ~Up(s)
    /\ state' = [state EXCEPT ![s] = StartState(s)]
    /\ timer' = [timer EXCEPT ![s] = Heartbeat]
    /\ peer_expiry' = [peer_expiry EXCEPT ![s] = Expiry]
    /\ linking' \in [Server -> 0 .. MaxConnect]
    /\ UNCHANGED <<channel, crashes, fatal>>

\* The process of s ends: what it published may still arrive in part, what was
\* published to it does not.
Stop(s) ==
    /\ \E k \in 0 .. Len(channel[Peer(s)]) :
          channel' = [channel EXCEPT ![s] = <<>>,
                                     ![Peer(s)] = SubSeq(@, 1, k)]
    /\ state' = [state EXCEPT ![s] = "DOWN"]

Crash(s) ==
    /\ Up(s)
    /\ crashes < MaxCrashes
    /\ crashes' = crashes + 1
    /\ Stop(s)
    /\ UNCHANGED <<timer, peer_expiry, linking, fatal>>

\* s_send_state: a PUB socket drops what has no subscriber.
SendState(s) ==
    /\ Up(s)
    /\ timer[s] = 0
    /\ timer' = [timer EXCEPT ![s] = Heartbeat]
    /\ channel' = IF Up(Peer(s)) /\ linking[Peer(s)] = 0
                  THEN [channel EXCEPT ![Peer(s)] =
                          Append(@, [state |-> state[s], left |-> MaxDelay])]
                  ELSE channel
    /\ UNCHANGED <<state, peer_expiry, linking, crashes, fatal>>

\* A variant with a mistake: a state received does not refresh peer_expiry.
RecvStateUnrefreshed(s) ==
    /\ channel[s] # <<>>
    /\ LET event == Head(channel[s]).state IN
         IF Refused(state[s], event, FALSE)
         THEN fatal' = TRUE /\ Stop(s) /\ UNCHANGED peer_expiry
         ELSE /\ state' = [state EXCEPT ![s] = NextState(@, event, FALSE)]
              /\ channel' = [channel EXCEPT ![s] = Tail(@)]
              /\ UNCHANGED <<fatal, peer_expiry>>
    /\ UNCHANGED <<timer, linking, crashes>>

\* A variant with a mistake: every state received adds two heartbeats.
RecvStateAdding(s) ==
    /\ channel[s] # <<>>
    /\ LET event == Head(channel[s]).state IN
         IF Refused(state[s], event, FALSE)
         THEN fatal' = TRUE /\ Stop(s) /\ UNCHANGED peer_expiry
         ELSE /\ state' = [state EXCEPT ![s] = NextState(@, event, FALSE)]
              /\ peer_expiry' = [peer_expiry EXCEPT ![s] = @ + Expiry]
              /\ channel' = [channel EXCEPT ![s] = Tail(@)]
              /\ UNCHANGED fatal
    /\ UNCHANGED <<timer, linking, crashes>>

\* s_recv_state: the peer lives, and the machine takes its state as an event.
RecvState(s) ==
    /\ channel[s] # <<>>
    /\ LET event == Head(channel[s]).state IN
         IF Refused(state[s], event, FALSE)
         THEN fatal' = TRUE /\ Stop(s) /\ UNCHANGED peer_expiry
         ELSE /\ state' = [state EXCEPT ![s] = NextState(@, event, FALSE)]
              /\ peer_expiry' = [peer_expiry EXCEPT ![s] = Expiry]
              /\ channel' = [channel EXCEPT ![s] = Tail(@)]
              /\ UNCHANGED fatal
    /\ UNCHANGED <<timer, linking, crashes>>

\* s_voter_ready: the machine decides whether the request is served; a refused
\* request is destroyed and changes nothing.
Request(s) ==
    /\ Up(s)
    /\ ~Refused(state[s], "REQUEST", peer_expiry[s] = 0)
    /\ state' = [state EXCEPT ![s] = NextState(@, "REQUEST", peer_expiry[s] = 0)]
    /\ UNCHANGED <<timer, peer_expiry, linking, channel, crashes, fatal>>

Less(n) == IF n > 0 THEN n - 1 ELSE 0

\* A tick passes when every timer that is due has fired and every message that
\* is due was read.
Tick ==
    /\ \A s \in Server :
          /\ Up(s) => timer[s] > 0
          /\ \A k \in 1 .. Len(channel[s]) : channel[s][k].left > 0
    /\ timer' = [s \in Server |-> IF Up(s) THEN timer[s] - 1 ELSE 0]
    /\ peer_expiry' = [s \in Server |-> Less(peer_expiry[s])]
    /\ linking' = [s \in Server |-> Less(linking[s])]
    /\ channel' = [s \in Server |-> [k \in 1 .. Len(channel[s]) |->
                     [channel[s][k] EXCEPT !.left = @ - 1]]]
    /\ UNCHANGED <<state, crashes, fatal>>

Next ==
    \/ \E s \in Server : Start(s) \/ Crash(s) \/ SendState(s) \/ RecvState(s) \/ Request(s)
    \/ Tick

Spec == Init /\ [][Next]_vars

\* The reactors run and time passes, a server that is down is started again,
\* and clients go on asking both servers.
FairSpec ==
    /\ Spec
    /\ WF_vars(Tick)
    /\ \A s \in Server :
          /\ WF_vars(SendState(s) \/ RecvState(s))
          /\ WF_vars(Start(s))
          /\ WF_vars(Request(s))

-----------------------------------------------------------------------------
\* "Two actives would mean split-brain": in no order of starts, crashes,
\* restarts and requests are both servers active, when the times are Timely.  It
\* is not enough that a heartbeat arrives before two of them are missed.
NoSplitBrain == \E s \in Server : state[s] # "ACTIVE"

\* No reactor ever meets the two situations it calls fatal errors, dual
\* actives and dual passives, not even for messages that are out of date.
NoFatal == ~fatal

\* Once crashes cease, one server is active and the other passive, for good.
Settles == <>[](\E s \in Server : state[s] = "ACTIVE" /\ state[Peer(s)] = "PASSIVE")

=============================================================================
