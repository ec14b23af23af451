-------------------------- MODULE BinaryStarProofs --------------------------
(***************************************************************************)
(* Theorems about the Binary Star reactor, for every number of crashes and *)
(* every heartbeat, delay and connection time: the types of all variables, *)
(* and, when the times are Timely, that two servers are never both active  *)
(* and that neither meets a state its machine calls fatal.                 *)
(***************************************************************************)
EXTENDS BinaryStar, SequenceTheorems, TLAPS

-----------------------------------------------------------------------------
(* What a server is about to learn of its peer. *)

\* The message that is on its way to s says that its sender is in state x.
Told(s, x) == channel[s] # <<>> /\ channel[s][1].state = x

\* Ticks until s reads a message from p at the latest: one that is under way, or
\* the next one that p publishes when the subscription of s is in place.
HearsIn(s, p) ==
    IF channel[s] # <<>> THEN channel[s][1].left
    ELSE IF linking[s] <= timer[p] THEN timer[p] + MaxDelay
    ELSE timer[p] + Heartbeat + MaxDelay

\* It does so before it counts p as dead.
Hears(s, p) == HearsIn(s, p) < peer_expiry[s]

-----------------------------------------------------------------------------
(* Types. *)

\* The two servers are each other's peers, and start in different states.
LEMMA Pair ==
    ASSUME NEW s \in Server
    PROVE  /\ Peer(s) \in Server /\ Peer(s) # s /\ Peer(Peer(s)) = s
           /\ Server = {s, Peer(s)}
           /\ \/ StartState(s) = "PRIMARY" /\ StartState(Peer(s)) = "BACKUP"
              \/ StartState(s) = "BACKUP" /\ StartState(Peer(s)) = "PRIMARY"
BY DEF Server, Peer, StartState

\* All servers are down and nothing is sent.
LEMMA TypeInit == Init => TypeOK
<1> SUFFICES ASSUME Init PROVE TypeOK
  OBVIOUS
<1>1. 0 \in 0 .. Heartbeat /\ 0 \in 0 .. Expiry /\ 0 \in 0 .. MaxConnect /\ 0 \in 0 .. MaxCrashes
  BY TimeAssumption DEF Expiry
<1>2. <<>> \in Seq(Message)
  OBVIOUS
<1> QED
  BY <1>1, <1>2 DEF Init, TypeOK

\* The end of a process keeps a part of what it published.
LEMMA StopTypes ==
    ASSUME TypeOK, NEW s \in Server, Stop(s)
    PROVE  /\ state' \in [Server -> State \cup {"DOWN"}]
           /\ channel' \in [Server -> Seq(Message)]
<1>1. PICK k \in 0 .. Len(channel[Peer(s)]) :
          channel' = [channel EXCEPT ![s] = <<>>, ![Peer(s)] = SubSeq(@, 1, k)]
  BY DEF Stop
<1>2. SubSeq(channel[Peer(s)], 1, k) \in Seq(Message)
  <2>1. channel[Peer(s)] \in Seq(Message)
    BY Pair DEF TypeOK
  <2>2. \A i \in 1 .. k : channel[Peer(s)][i] \in Message
    BY <2>1
  <2> QED
    BY <2>2, SubSeqProperties
<1>3. channel' \in [Server -> Seq(Message)]
  <2>1. DOMAIN channel = Server /\ channel \in [Server -> Seq(Message)]
    BY DEF TypeOK
  <2>2. Peer(s) \in Server /\ Peer(s) # s
    BY Pair
  <2>3. channel' = [channel EXCEPT ![s] = <<>>, ![Peer(s)] = SubSeq(channel[Peer(s)], 1, k)]
    BY <1>1, <2>1, <2>2
  <2>4. [channel EXCEPT ![s] = <<>>] \in [Server -> Seq(Message)]
    BY <2>1
  <2> QED
    BY <1>2, <2>2, <2>3, <2>4
<1> QED
  BY <1>3 DEF Stop, TypeOK

\* Every step preserves the types.
LEMMA TypeNext == TypeOK /\ [Next]_vars => TypeOK'
<1> SUFFICES ASSUME TypeOK, [Next]_vars PROVE TypeOK'
  OBVIOUS
<1>t. Heartbeat \in Nat /\ MaxDelay \in Nat /\ MaxConnect \in Nat /\ MaxCrashes \in Nat
      /\ Heartbeat \in 0 .. Heartbeat /\ Expiry \in 0 .. Expiry /\ MaxDelay \in 0 .. MaxDelay
  BY TimeAssumption DEF Expiry
<1>1. ASSUME NEW s \in Server, Start(s) PROVE TypeOK'
  BY <1>t, <1>1 DEF Start, TypeOK, StartState, State
<1>2. ASSUME NEW s \in Server, Crash(s) PROVE TypeOK'
  BY <1>t, <1>2, StopTypes DEF Crash, TypeOK
<1>3. ASSUME NEW s \in Server, SendState(s) PROVE TypeOK'
  <2>1. [state |-> state[s], left |-> MaxDelay] \in Message
    BY <1>t, <1>3 DEF SendState, Message, TypeOK, Up
  <2>2. Append(channel[Peer(s)], [state |-> state[s], left |-> MaxDelay]) \in Seq(Message)
    BY <2>1, Pair DEF TypeOK
  <2>3. channel' \in [Server -> Seq(Message)]
    BY <1>3, <2>2, Pair DEF SendState, TypeOK
  <2> QED
    BY <1>t, <1>3, <2>3 DEF SendState, TypeOK
<1>4. ASSUME NEW s \in Server, RecvState(s) PROVE TypeOK'
  <2>1. Head(channel[s]) \in Message /\ Tail(channel[s]) \in Seq(Message)
    BY <1>4 DEF RecvState, TypeOK
  <2>2. CASE Refused(state[s], Head(channel[s]).state, FALSE)
    BY <1>4, <2>2, StopTypes DEF RecvState, TypeOK
  <2>3. CASE ~Refused(state[s], Head(channel[s]).state, FALSE)
    <3>1. NextState(state[s], Head(channel[s]).state, FALSE) \in State \cup {"DOWN"}
      BY DEF NextState, TypeOK, State
    <3> QED
      BY <1>t, <1>4, <2>1, <2>3, <3>1 DEF RecvState, TypeOK
  <2> QED
    BY <2>2, <2>3
<1>5. ASSUME NEW s \in Server, Request(s) PROVE TypeOK'
  <2>1. NextState(state[s], "REQUEST", peer_expiry[s] = 0) \in State \cup {"DOWN"}
    BY DEF NextState, TypeOK, State
  <2> QED
    BY <1>5, <2>1 DEF Request, TypeOK
<1>6. ASSUME Tick PROVE TypeOK'
  <2>1. ASSUME NEW s \in Server
        PROVE  [k \in 1 .. Len(channel[s]) |-> [channel[s][k] EXCEPT !.left = @ - 1]]
                 \in Seq(Message)
    <3>1. channel[s] \in Seq(Message) /\ Len(channel[s]) \in Nat
      BY DEF TypeOK
    <3>2. ASSUME NEW k \in 1 .. Len(channel[s])
          PROVE  [channel[s][k] EXCEPT !.left = @ - 1] \in Message
      <4>1. channel[s][k] \in Message /\ channel[s][k].left > 0
        BY <1>6, <3>1 DEF Tick
      <4> QED
        BY <1>t, <4>1 DEF Message
    <3> QED
      BY <3>1, <3>2
  <2>2. channel' \in [Server -> Seq(Message)]
    BY <1>6, <2>1 DEF Tick
  <2>3. timer' \in [Server -> 0 .. Heartbeat] /\ peer_expiry' \in [Server -> 0 .. Expiry]
        /\ linking' \in [Server -> 0 .. MaxConnect]
    BY <1>t, <1>6, SMTT(60) DEF Tick, TypeOK, Less, Expiry
  <2> QED
    BY <1>6, <2>2, <2>3 DEF Tick, TypeOK
<1>7. ASSUME UNCHANGED vars PROVE TypeOK'
  BY <1>7 DEF vars, TypeOK
<1> QED
  BY <1>1, <1>2, <1>3, <1>4, <1>5, <1>6, <1>7 DEF Next

\* The timers of bstar.c run down from their limits and every state published
\* is one of the four of the machine (bstar.c:5-20, 155-182).
THEOREM BinaryStarTypes == Spec => []TypeOK
BY TypeInit, TypeNext, PTL DEF Spec
-----------------------------------------------------------------------------
(* The invariant, for a server s and its peer p. *)

\* At most one message is under way to s, and the next one is not published
\* before it was read.
Sequenced(s, p) ==
    /\ channel[s] # <<>> => Up(s) /\ Len(channel[s]) = 1
    /\ channel[s] # <<>> /\ Up(p) =>
           timer[p] >= channel[s][1].left + Heartbeat - MaxDelay

\* No server has the starting state of the other, nor hears of its own.
Named(s, p) == state[s] # StartState(p) /\ ~Told(s, StartState(s))

\* Two servers are not both active, and not both passive.
Differ(s, p) ==
    /\ state[s] = "ACTIVE" => state[p] # "ACTIVE"
    /\ state[s] = "PASSIVE" => state[p] # "PASSIVE"

\* s is not active when it is told of an active peer, not even of one that has
\* crashed since; it reads this before it could hold that peer for dead, and
\* the peer has not become passive meanwhile.
ToldActive(s, p) ==
    Told(s, "ACTIVE") =>
        /\ state[s] # "ACTIVE"
        /\ state[p] # "PASSIVE"
        /\ ~Told(p, "ACTIVE")
        /\ channel[s][1].left < peer_expiry[s] \/ state[s] = "BACKUP"

\* s is not passive when it is told of a passive peer.
ToldPassive(s, p) == Told(s, "PASSIVE") => state[s] # "PASSIVE"

\* A server that becomes active because its peer said that it starts is right:
\* the peer is still starting, or, for the primary, it has become passive by
\* an old message of the primary and will hear nothing else before.
ToldStart(s, p) ==
    Told(s, StartState(p)) =>
        /\ state[s] = "PASSIVE" => state[p] \in {StartState(p), "DOWN"}
        /\ state[s] = "PRIMARY" =>
             \/ state[p] \in {"BACKUP", "DOWN"}
             \/ /\ state[p] = "PASSIVE" /\ channel[p] = <<>>
                /\ timer[s] > channel[s][1].left

\* When s may give p up before it hears of it, then p has just started: s
\* hears of it before p could give s up, and what p has done since its start
\* came from the messages of s.
Fresh(s, p) ==
    Up(s) /\ Up(p) /\ ~Hears(s, p) =>
        /\ HearsIn(s, p) < peer_expiry[p]
        /\ \/ state[p] = StartState(p)
           \/ /\ state[p] = "PASSIVE" /\ state[s] = "ACTIVE"
              /\ channel[p] # <<>> => Told(p, "ACTIVE")
           \/ /\ state[p] = "ACTIVE" /\ state[s] = "BACKUP"
              /\ channel[p] # <<>> => Told(p, "BACKUP")
        /\ Told(p, "ACTIVE") => state[s] = "ACTIVE"
        /\ Told(p, "BACKUP") => state[s] = "BACKUP"

Sound(s, p) ==
    /\ Sequenced(s, p) /\ Named(s, p) /\ Differ(s, p)
    /\ ToldActive(s, p) /\ ToldPassive(s, p) /\ ToldStart(s, p)
    /\ Fresh(s, p)

PairInv ==
    /\ TypeOK
    /\ ~fatal
    /\ \A s \in Server : Sound(s, Peer(s))

-----------------------------------------------------------------------------
(* Every step preserves it. *)

\* The ranges of the variables at s.
Values(s) ==
    /\ state[s] \in State \cup {"DOWN"}
    /\ timer[s] \in Int /\ 0 <= timer[s] /\ timer[s] <= Heartbeat
    /\ peer_expiry[s] \in Int /\ 0 <= peer_expiry[s] /\ peer_expiry[s] <= 2 * Heartbeat
    /\ linking[s] \in Int /\ 0 <= linking[s] /\ linking[s] <= MaxConnect
    /\ channel[s] # <<>> =>
           /\ channel[s][1].state \in State
           /\ channel[s][1].left \in Int
           /\ 0 <= channel[s][1].left /\ channel[s][1].left <= MaxDelay

\* They follow from the types, now
LEMMA ValuesOf == TypeOK => \A s \in Server : Values(s)
<1> SUFFICES ASSUME TypeOK, NEW s \in Server PROVE Values(s)
  BY Zenon
<1>1. ASSUME channel[s] # <<>> PROVE channel[s][1] \in Message
  BY <1>1 DEF TypeOK
<1>2. /\ state[s] \in State \cup {"DOWN"} /\ timer[s] \in 0 .. Heartbeat
      /\ peer_expiry[s] \in 0 .. 2 * Heartbeat /\ linking[s] \in 0 .. MaxConnect
  BY DEF TypeOK, Expiry
<1>3. channel[s] # <<>> => channel[s][1].state \in State /\ channel[s][1].left \in 0 .. MaxDelay
  BY <1>1 DEF Message
<1>4. ASSUME channel[s] # <<>>
      PROVE  /\ channel[s][1].state \in State
             /\ channel[s][1].left \in Int
             /\ 0 <= channel[s][1].left /\ channel[s][1].left <= MaxDelay
  BY <1>3, <1>4, TimeAssumption
<1>5. /\ timer[s] \in Int /\ 0 <= timer[s] /\ timer[s] <= Heartbeat
      /\ peer_expiry[s] \in Int /\ 0 <= peer_expiry[s] /\ peer_expiry[s] <= 2 * Heartbeat
      /\ linking[s] \in Int /\ 0 <= linking[s] /\ linking[s] <= MaxConnect
  BY <1>2, TimeAssumption
<1> QED
  BY <1>2, <1>4, <1>5 DEF Values

\* and in the next state.
LEMMA ValuesNext == (TypeOK => \A s \in Server : Values(s))'
BY ValuesOf, PTL

\* The time until a message is read is a number of ticks.
LEMMA HearsInRange ==
    ASSUME NEW s, NEW p, Values(s), Values(p)
    PROVE  HearsIn(s, p) \in Int /\ 0 <= HearsIn(s, p)
<1> USE TimeAssumption
<1>1. CASE channel[s] # <<>>
  BY <1>1 DEF HearsIn, Values
<1>2. CASE channel[s] = <<>>
  <2>1. /\ timer[p] \in Int /\ 0 <= timer[p]
        /\ HearsIn(s, p) = IF linking[s] <= timer[p] THEN timer[p] + MaxDelay
                           ELSE timer[p] + Heartbeat + MaxDelay
    BY <1>2 DEF HearsIn, Values
  <2>2. CASE linking[s] <= timer[p]
    BY <2>1, <2>2
  <2>3. CASE ~(linking[s] <= timer[p])
    BY <2>1, <2>3
  <2> QED
    BY <2>2, <2>3
<1> QED
  BY <1>1, <1>2

\* Who has just refreshed its peer_expiry hears of a running peer before it passes.
LEMMA SoonHeard ==
    ASSUME Timely, NEW s, NEW p,
           timer'[p] \in Int, timer'[p] <= Heartbeat,
           linking'[s] \in Int, linking'[s] <= MaxConnect,
           channel'[s] = <<>>
    PROVE  HearsIn(s, p)' < 2 * Heartbeat
<1>1. HearsIn(s, p)' = IF linking'[s] <= timer'[p] THEN timer'[p] + MaxDelay
                       ELSE timer'[p] + Heartbeat + MaxDelay
  BY DEF HearsIn
<1>2. CASE linking'[s] <= timer'[p]
  BY <1>1, <1>2, TimeAssumption DEF Timely
<1>3. CASE ~(linking'[s] <= timer'[p])
  BY <1>1, <1>3, TimeAssumption DEF Timely
<1> QED
  BY <1>2, <1>3

\* bstar_new and bstar_start: s is in its starting state and expects to hear of p.
LEMMA StartSound ==
    ASSUME Timely, PairInv, TypeOK', NEW s \in Server, NEW p \in Server,
           p = Peer(s), Start(s)
    PROVE  Sound(s, p)' /\ Sound(p, s)'
<1> USE TimeAssumption DEF Timely
<1>1. /\ p # s /\ s = Peer(p)
      /\ \/ StartState(s) = "PRIMARY" /\ StartState(p) = "BACKUP"
         \/ StartState(s) = "BACKUP" /\ StartState(p) = "PRIMARY"
  BY Pair
<1>2. Values(s) /\ Values(p)
  BY ValuesOf, Zenon DEF PairInv
<1>3. Sound(s, p) /\ Sound(p, s)
  BY <1>1 DEF PairInv
<1>4. /\ state[s] = "DOWN" /\ state'[s] = StartState(s) /\ state'[p] = state[p]
      /\ timer'[s] = Heartbeat /\ timer'[p] = timer[p]
      /\ peer_expiry'[s] = 2 * Heartbeat /\ peer_expiry'[p] = peer_expiry[p]
      /\ channel' = channel
  BY <1>1 DEF Start, PairInv, TypeOK, Up, Expiry
<1>5. Sequenced(s, p)' /\ Sequenced(p, s)'
  BY <1>2, <1>3, <1>4 DEF Sequenced, Sound, Values, Up
<1>6. Named(s, p)' /\ Named(p, s)'
  BY <1>1, <1>2, <1>3, <1>4 DEF Named, Sound, Values, Told
<1>7. Differ(s, p)' /\ Differ(p, s)'
  BY <1>1, <1>2, <1>3, <1>4 DEF Differ, Sound, Values
<1>8. ToldActive(s, p)' /\ ToldActive(p, s)'
  BY <1>1, <1>2, <1>3, <1>4 DEF ToldActive, Sequenced, Sound, Values, Told, Up
<1>9. ToldPassive(s, p)' /\ ToldPassive(p, s)'
  BY <1>1, <1>2, <1>3, <1>4 DEF ToldPassive, Sequenced, Sound, Values, Told, Up
<1>10. ToldStart(s, p)' /\ ToldStart(p, s)'
  BY <1>1, <1>2, <1>3, <1>4 DEF ToldStart, Named, Sequenced, Sound, Values, Told, Up
<1>11. Fresh(s, p)' /\ Fresh(p, s)'
  <2>1. channel[s] = <<>>
    BY <1>3, <1>4 DEF Sequenced, Sound, Up
  <2>2. linking'[s] \in Int /\ linking'[s] <= MaxConnect
        /\ linking'[p] \in Int /\ linking'[p] <= MaxConnect
    <3>1. Values(s)' /\ Values(p)'
      BY ValuesNext, Zenon
    <3> QED
      BY <3>1 DEF Values
  <2>3. HearsIn(s, p)' < 2 * Heartbeat
    <3>1. timer'[p] \in Int /\ timer'[p] <= Heartbeat /\ channel'[s] = <<>>
      BY <1>2, <1>4, <2>1 DEF Values
    <3> QED
      BY <2>2, <3>1, SoonHeard
  <2>4. HearsIn(p, s)' < 2 * Heartbeat
    <3>1. CASE channel[p] # <<>>
      <4>1. HearsIn(p, s)' = channel[p][1].left
        BY <1>4, <3>1 DEF HearsIn
      <4>2. channel[p][1].left \in Int /\ channel[p][1].left <= MaxDelay
        BY <1>2, <3>1 DEF Values
      <4> QED
        BY <4>1, <4>2
    <3>2. CASE channel[p] = <<>>
      BY <1>4, <2>2, <3>2, SoonHeard
    <3> QED
      BY <3>1, <3>2
  <2>5. Fresh(s, p)'
    BY <1>4, <2>3 DEF Fresh, Hears
  <2>6. Fresh(p, s)'
    BY <1>1, <1>4, <2>1, <2>4 DEF Fresh, Told
  <2> QED
    BY <2>5, <2>6
<1> QED
  BY <1>5, <1>6, <1>7, <1>8, <1>9, <1>10, <1>11 DEF Sound

\* The message that p still gets when s ends is the one that was under way.
LEMMA StopLeaves ==
    ASSUME PairInv, NEW s \in Server, Stop(s)
    PROVE  /\ state'[s] = "DOWN" /\ state'[Peer(s)] = state[Peer(s)]
           /\ channel'[s] = <<>>
           /\ channel'[Peer(s)] # <<>> => channel[Peer(s)] # <<>>
           /\ channel'[Peer(s)] # <<>> =>
                  /\ Len(channel'[Peer(s)]) = 1
                  /\ channel'[Peer(s)][1] = channel[Peer(s)][1]
<1>1. PICK k \in 0 .. Len(channel[Peer(s)]) :
          channel' = [channel EXCEPT ![s] = <<>>, ![Peer(s)] = SubSeq(@, 1, k)]
  BY DEF Stop
<1>2. Peer(s) \in Server /\ Peer(s) # s /\ Peer(Peer(s)) = s
  BY Pair
<1>3. /\ channel \in [Server -> Seq(Message)] /\ channel[Peer(s)] \in Seq(Message)
      /\ state \in [Server -> State \cup {"DOWN"}]
  BY <1>2 DEF PairInv, TypeOK
<1>4. channel'[s] = <<>> /\ channel'[Peer(s)] = SubSeq(channel[Peer(s)], 1, k)
  BY <1>1, <1>2, <1>3
<1>5. channel[Peer(s)] # <<>> => Len(channel[Peer(s)]) = 1
  BY <1>2 DEF PairInv, Sound, Sequenced
<1>6. CASE k = 0
  <2>1. SubSeq(channel[Peer(s)], 1, 0) = <<>>
    BY SubSeqEmpty
  <2> QED
    BY <1>2, <1>3, <1>4, <1>6, <2>1 DEF Stop
<1>7. CASE k # 0
  <2>1. channel[Peer(s)] # <<>>
    BY <1>7
  <2>2. k = 1
    <3>1. Len(channel[Peer(s)]) = 1
      BY <1>5, <2>1, Zenon
    <3> QED
      BY <1>7, <3>1
  <2>3. \A i \in 1 .. k : channel[Peer(s)][i] \in Message
    BY <1>3
  <2>4. /\ Len(SubSeq(channel[Peer(s)], 1, 1)) = 1
        /\ SubSeq(channel[Peer(s)], 1, 1)[1] = channel[Peer(s)][1]
    BY <2>2, <2>3, SubSeqProperties
  <2> QED
    BY <1>2, <1>3, <1>4, <2>1, <2>2, <2>4 DEF Stop
<1> QED
  BY <1>6, <1>7

\* A crash leaves nothing to be said about s but its last message.
LEMMA CrashSound ==
    ASSUME Timely, PairInv, NEW s \in Server, NEW p \in Server,
           p = Peer(s), Crash(s)
    PROVE  Sound(s, p)' /\ Sound(p, s)'
<1> USE TimeAssumption DEF Timely
<1>1. /\ p # s /\ s = Peer(p)
      /\ \/ StartState(s) = "PRIMARY" /\ StartState(p) = "BACKUP"
         \/ StartState(s) = "BACKUP" /\ StartState(p) = "PRIMARY"
  BY Pair
<1>2. Values(s) /\ Values(p)
  BY ValuesOf, Zenon DEF PairInv
<1>3. Sound(s, p) /\ Sound(p, s)
  BY <1>1 DEF PairInv
<1>4. /\ state'[s] = "DOWN" /\ state'[p] = state[p]
      /\ timer' = timer /\ peer_expiry' = peer_expiry /\ linking' = linking
      /\ channel'[s] = <<>>
      /\ channel'[p] # <<>> => channel[p] # <<>> /\ Len(channel'[p]) = 1
                               /\ channel'[p][1] = channel[p][1]
  BY StopLeaves DEF Crash
<1>5. Sequenced(s, p)' /\ Sequenced(p, s)'
  BY <1>1, <1>2, <1>3, <1>4 DEF Sequenced, Sound, Values, Up
<1>6. Named(s, p)' /\ Named(p, s)'
  BY <1>1, <1>2, <1>3, <1>4 DEF Named, Sound, Values, Told
<1>7. Differ(s, p)' /\ Differ(p, s)'
  BY <1>1, <1>2, <1>3, <1>4 DEF Differ, Named, Sound, Values
<1>8. ToldActive(s, p)' /\ ToldActive(p, s)'
  BY <1>1, <1>2, <1>3, <1>4 DEF ToldActive, Named, Sequenced, Sound, Values, Told, Up
<1>9. ToldPassive(s, p)' /\ ToldPassive(p, s)'
  BY <1>1, <1>2, <1>3, <1>4 DEF ToldPassive, Named, Sequenced, Sound, Values, Told, Up
<1>10. ToldStart(s, p)' /\ ToldStart(p, s)'
  BY <1>1, <1>2, <1>3, <1>4 DEF ToldStart, Named, Sequenced, Sound, Values, Told, Up
<1>11. Fresh(s, p)' /\ Fresh(p, s)'
  BY <1>1, <1>2, <1>3, <1>4 DEF Fresh, Named, Hears, HearsIn, Sequenced, Sound, Values, Told, Up
<1> QED
  BY <1>5, <1>6, <1>7, <1>8, <1>9, <1>10, <1>11 DEF Sound

\* s_send_state: the message is read in time when the subscription is in place,
\* and the next one is when it is not.
LEMMA SendSound ==
    ASSUME Timely, PairInv, NEW s \in Server, NEW p \in Server,
           p = Peer(s), SendState(s)
    PROVE  Sound(s, p)' /\ Sound(p, s)'
<1> USE TimeAssumption DEF Timely
<1>1. /\ p # s /\ s = Peer(p)
      /\ \/ StartState(s) = "PRIMARY" /\ StartState(p) = "BACKUP"
         \/ StartState(s) = "BACKUP" /\ StartState(p) = "PRIMARY"
  BY Pair
<1>2. Values(s) /\ Values(p)
  BY ValuesOf, Zenon DEF PairInv
<1>3. Sound(s, p) /\ Sound(p, s)
  BY <1>1 DEF PairInv
<1>4. /\ state' = state /\ state[s] # "DOWN" /\ timer[s] = 0
      /\ timer'[s] = Heartbeat /\ timer'[p] = timer[p]
      /\ peer_expiry' = peer_expiry /\ linking' = linking
      /\ channel'[s] = channel[s] /\ channel[p] = <<>>
      /\ \/ /\ state[p] # "DOWN" /\ linking[p] = 0
            /\ channel'[p] # <<>> /\ Len(channel'[p]) = 1
            /\ channel'[p][1].state = state[s] /\ channel'[p][1].left = MaxDelay
         \/ /\ ~(state[p] # "DOWN" /\ linking[p] = 0)
            /\ channel' = channel
  <2> DEFINE m == [state |-> state[s], left |-> MaxDelay]
  <2>1. /\ state' = state /\ state[s] # "DOWN" /\ timer[s] = 0
        /\ timer'[s] = Heartbeat /\ timer'[p] = timer[p]
        /\ peer_expiry' = peer_expiry /\ linking' = linking
    BY <1>1 DEF SendState, PairInv, TypeOK, Up
  <2>2. channel[p] = <<>>
    BY <1>1, <1>2, <1>3, <2>1 DEF Sound, Sequenced, Values, Up
  <2>3. CASE state[p] # "DOWN" /\ linking[p] = 0
    <3>1. channel' = [channel EXCEPT ![p] = Append(channel[p], m)]
      BY <2>3 DEF SendState, Up
    <3>2. Append(channel[p], m) = <<m>>
      BY <2>2
    <3>3. channel'[p] = <<m>> /\ channel'[s] = channel[s]
      BY <1>1, <3>1, <3>2 DEF PairInv, TypeOK
    <3>4. <<m>> # <<>> /\ Len(<<m>>) = 1 /\ <<m>>[1] = m /\ m.state = state[s] /\ m.left = MaxDelay
      OBVIOUS
    <3> QED
      BY <2>1, <2>2, <2>3, <3>3, <3>4
  <2>4. CASE ~(state[p] # "DOWN" /\ linking[p] = 0)
    BY <2>1, <2>2, <2>4 DEF SendState, Up
  <2> QED
    BY <2>3, <2>4
<1>5. Sequenced(s, p)' /\ Sequenced(p, s)'
  BY <1>1, <1>2, <1>3, <1>4 DEF Sequenced, Sound, Values, Up
<1>6. Named(s, p)' /\ Named(p, s)'
  BY <1>1, <1>2, <1>3, <1>4 DEF Named, Sound, Values, Told
<1>7. Differ(s, p)' /\ Differ(p, s)'
  BY <1>1, <1>2, <1>3, <1>4 DEF Differ, Named, Sound, Values
<1>8. ToldActive(s, p)' /\ ToldActive(p, s)'
  <2>1. ToldActive(s, p)'
    BY <1>3, <1>4 DEF ToldActive, Sound, Told
  <2>2. state[s] = "ACTIVE" /\ state[p] # "DOWN" /\ linking[p] = 0
          => MaxDelay < peer_expiry[p] \/ state[p] = "BACKUP"
    BY <1>1, <1>2, <1>3, <1>4 DEF Fresh, Hears, HearsIn, Sound, Values, Up
  <2>3. ToldActive(p, s)'
    BY <1>3, <1>4, <2>2 DEF ToldActive, Differ, Sound, Told
  <2> QED
    BY <2>1, <2>3
<1>9. ToldPassive(s, p)' /\ ToldPassive(p, s)'
  BY <1>1, <1>2, <1>3, <1>4 DEF ToldPassive, Differ, Sound, Told
<1>10. ToldStart(s, p)' /\ ToldStart(p, s)'
  BY <1>1, <1>2, <1>3, <1>4 DEF ToldStart, Named, Sequenced, Sound, Values, Told, Up
<1>11. Fresh(s, p)' /\ Fresh(p, s)'
  <2>1. Fresh(s, p)'
    BY <1>3, <1>4 DEF Fresh, Hears, HearsIn, Sound, Told, Up
  <2>2. state[p] # "DOWN" => HearsIn(p, s)' = HearsIn(p, s)
    <3>1. CASE state[p] # "DOWN" /\ linking[p] = 0
      <4>1. HearsIn(p, s)' = MaxDelay
        BY <1>4, <3>1 DEF HearsIn
      <4>2. HearsIn(p, s) = 0 + MaxDelay
        BY <1>4, <3>1 DEF HearsIn
      <4> QED
        BY <4>1, <4>2
    <3>2. CASE state[p] # "DOWN" /\ linking[p] # 0
      <4>1. 0 < linking[p] /\ linking[p] <= Heartbeat
        BY <1>2, <3>2 DEF Values
      <4>2. HearsIn(p, s)' = Heartbeat + MaxDelay
        BY <1>4, <3>2, <4>1 DEF HearsIn
      <4>3. HearsIn(p, s) = 0 + Heartbeat + MaxDelay
        BY <1>2, <1>4, <3>2, <4>1 DEF HearsIn, Values
      <4> QED
        BY <4>2, <4>3
    <3> QED
      BY <3>1, <3>2
  <2>3. Fresh(p, s)'
    BY <1>3, <1>4, <2>2 DEF Fresh, Hears, Sound, Told, Up
  <2> QED
    BY <2>1, <2>3
<1> QED
  BY <1>5, <1>6, <1>7, <1>8, <1>9, <1>10, <1>11 DEF Sound

\* s_voter_ready: a server that takes over by a request has a peer that is down
\* or has just started.
LEMMA RequestSound ==
    ASSUME Timely, PairInv, NEW s \in Server, NEW p \in Server,
           p = Peer(s), Request(s)
    PROVE  Sound(s, p)' /\ Sound(p, s)'
<1> USE TimeAssumption DEF Timely
<1>1. /\ p # s /\ s = Peer(p)
      /\ \/ StartState(s) = "PRIMARY" /\ StartState(p) = "BACKUP"
         \/ StartState(s) = "BACKUP" /\ StartState(p) = "PRIMARY"
  BY Pair
<1>2. Values(s) /\ Values(p)
  BY ValuesOf, Zenon DEF PairInv
<1>3. Sound(s, p) /\ Sound(p, s)
  BY <1>1 DEF PairInv
<1>4. /\ state[s] # "DOWN" /\ state'[p] = state[p]
      /\ \/ state'[s] = state[s]
         \/ /\ state[s] \in {"PRIMARY", "PASSIVE"} /\ peer_expiry[s] = 0
            /\ state'[s] = "ACTIVE"
      /\ timer' = timer /\ peer_expiry' = peer_expiry /\ linking' = linking
      /\ channel' = channel
  BY <1>1 DEF Request, NextState, Refused, PairInv, TypeOK, Up
<1>s. \/ state' = state
      \/ /\ state'[s] = "ACTIVE" /\ state[s] \in {"PRIMARY", "PASSIVE"}
         /\ ~Told(s, "ACTIVE")
         /\ Up(p) => state[p] = StartState(p) /\ ~Told(p, "BACKUP") /\ Hears(p, s)
  <2>1. CASE state'[s] = state[s]
    BY <1>1, <2>1 DEF Request, PairInv, TypeOK
  <2>2. CASE state[s] \in {"PRIMARY", "PASSIVE"} /\ peer_expiry[s] = 0 /\ state'[s] = "ACTIVE"
    <3>1. 0 <= HearsIn(s, p) /\ 0 <= HearsIn(p, s)
      BY <1>2, HearsInRange
    <3>2. ~Told(s, "ACTIVE")
      BY <1>2, <1>3, <2>2 DEF ToldActive, Sound, Told, Values
    <3>3. Up(p) => state[p] = StartState(p) /\ ~Told(p, "BACKUP") /\ Hears(p, s)
      BY <1>1, <1>2, <1>3, <2>2, <3>1, HearsInRange DEF Fresh, Hears, Sound, Up
    <3> QED
      BY <2>2, <3>2, <3>3
  <2> QED
    BY <1>4, <2>1, <2>2
<1>5. Sequenced(s, p)' /\ Sequenced(p, s)'
  BY <1>1, <1>2, <1>3, <1>4 DEF Sequenced, Sound, Values, Up
<1>6. Named(s, p)' /\ Named(p, s)'
  BY <1>1, <1>2, <1>3, <1>4 DEF Named, Sound, Values, Told
<1>7. Differ(s, p)' /\ Differ(p, s)'
  BY <1>1, <1>3, <1>4, <1>s DEF Differ, Sound, Up
<1>8. ToldActive(s, p)' /\ ToldActive(p, s)'
  BY <1>1, <1>2, <1>3, <1>4 DEF ToldActive, Named, Sequenced, Sound, Values, Told, Up
<1>9. ToldPassive(s, p)' /\ ToldPassive(p, s)'
  BY <1>1, <1>2, <1>3, <1>4 DEF ToldPassive, Named, Sequenced, Sound, Values, Told, Up
<1>10. ToldStart(s, p)' /\ ToldStart(p, s)'
  <2>1. ToldStart(s, p)'
    BY <1>1, <1>3, <1>4, <1>s DEF ToldStart, Named, Sound, Told
  <2>2. ToldStart(p, s)'
    BY <1>1, <1>3, <1>4, <1>s DEF ToldStart, Named, Sound, Told, Up
  <2> QED
    BY <2>1, <2>2
<1>11. Fresh(s, p)' /\ Fresh(p, s)'
  <2>1. HearsIn(s, p)' = HearsIn(s, p) /\ HearsIn(p, s)' = HearsIn(p, s)
    BY <1>4 DEF HearsIn
  <2>2. Fresh(s, p)'
    BY <1>3, <1>4, <1>s, <2>1 DEF Fresh, Hears, Sound, Told, Up
  <2>3. Fresh(p, s)'
    BY <1>3, <1>4, <1>s, <2>1 DEF Fresh, Hears, Sound, Told, Up
  <2> QED
    BY <2>2, <2>3
<1> QED
  BY <1>5, <1>6, <1>7, <1>8, <1>9, <1>10, <1>11 DEF Sound

\* s_recv_state: no state is refused, and whoever becomes active or passive by it
\* is alone in this.
LEMMA RecvSound ==
    ASSUME Timely, PairInv, NEW s \in Server, NEW p \in Server,
           p = Peer(s), RecvState(s)
    PROVE  Sound(s, p)' /\ Sound(p, s)' /\ fatal' = fatal
<1> USE TimeAssumption DEF Timely
<1>1. /\ p # s /\ s = Peer(p)
      /\ \/ StartState(s) = "PRIMARY" /\ StartState(p) = "BACKUP"
         \/ StartState(s) = "BACKUP" /\ StartState(p) = "PRIMARY"
  BY Pair
<1>2. Values(s) /\ Values(p)
  BY ValuesOf, Zenon DEF PairInv
<1>3. Sound(s, p) /\ Sound(p, s)
  BY <1>1 DEF PairInv
<1>4. /\ channel[s] # <<>> /\ state[s] # "DOWN" /\ fatal' = fatal
      /\ timer' = timer /\ linking' = linking
      /\ state'[p] = state[p] /\ peer_expiry'[p] = peer_expiry[p] /\ channel'[p] = channel[p]
      /\ channel'[s] = <<>> /\ peer_expiry'[s] = 2 * Heartbeat
      /\ \/ /\ state[s] = "PRIMARY" /\ Told(s, "BACKUP") /\ state'[s] = "ACTIVE"
         \/ /\ state[s] = "PASSIVE" /\ Told(s, StartState(p)) /\ state'[s] = "ACTIVE"
         \/ /\ state[s] \in {"PRIMARY", "BACKUP"} /\ Told(s, "ACTIVE") /\ state'[s] = "PASSIVE"
         \/ /\ ~Told(s, "ACTIVE") \/ state[s] = "PASSIVE"
            /\ state[s] = "PRIMARY" => ~Told(s, "BACKUP")
            /\ state'[s] = state[s]
  <2> DEFINE event == Head(channel[s]).state
  <2>1. channel[s] # <<>> /\ Head(channel[s]) = channel[s][1] /\ Tail(channel[s]) = <<>>
    <3>1. channel[s] # <<>> /\ Len(channel[s]) = 1 /\ channel[s] \in Seq(Message)
      BY <1>2, <1>3 DEF RecvState, Sound, Sequenced, PairInv, TypeOK
    <3>2. Tail(channel[s]) \in Seq(Message) /\ Len(Tail(channel[s])) = 0
      BY <3>1, HeadTailProperties
    <3>3. Head(channel[s]) = channel[s][1]
      BY <3>1
    <3>4. Tail(channel[s]) = <<>>
      BY <3>2, EmptySeq
    <3> QED
      BY <3>1, <3>3, <3>4
  <2>2. ~Refused(state[s], event, FALSE)
    BY <1>2, <1>3, <2>1 DEF Refused, Sound, ToldActive, ToldPassive, Told, Values, State
  <2>3. /\ state' = [state EXCEPT ![s] = NextState(state[s], event, FALSE)]
        /\ peer_expiry' = [peer_expiry EXCEPT ![s] = Expiry]
        /\ channel' = [channel EXCEPT ![s] = Tail(channel[s])]
        /\ timer' = timer /\ linking' = linking /\ fatal' = fatal
    BY <2>2 DEF RecvState
  <2>4. \/ state[s] = "PRIMARY" /\ event = "BACKUP" /\ NextState(state[s], event, FALSE) = "ACTIVE"
        \/ /\ state[s] = "PASSIVE" /\ event \in {"PRIMARY", "BACKUP"}
           /\ NextState(state[s], event, FALSE) = "ACTIVE"
        \/ /\ state[s] \in {"PRIMARY", "BACKUP"} /\ event = "ACTIVE"
           /\ NextState(state[s], event, FALSE) = "PASSIVE"
        \/ /\ event # "ACTIVE" \/ state[s] \notin {"PRIMARY", "BACKUP"}
           /\ ~(state[s] = "PRIMARY" /\ event = "BACKUP")
           /\ NextState(state[s], event, FALSE) = state[s]
    BY DEF NextState
  <2>5. /\ state'[s] = NextState(state[s], event, FALSE)
        /\ state'[p] = state[p] /\ peer_expiry'[p] = peer_expiry[p] /\ channel'[p] = channel[p]
        /\ channel'[s] = <<>> /\ peer_expiry'[s] = 2 * Heartbeat
    BY <1>1, <2>1, <2>3 DEF PairInv, TypeOK, Expiry
  <2>6. state[s] # "DOWN"
    BY <1>3, <2>1 DEF Sound, Sequenced, Up
  <2> QED
    BY <1>1, <1>2, <1>3, <2>1, <2>3, <2>4, <2>5, <2>6
       DEF Told, Sound, Named, ToldActive, Values, State
<1>5. Sequenced(s, p)' /\ Sequenced(p, s)'
  BY <1>1, <1>2, <1>3, <1>4 DEF Sequenced, Sound, Values, Up
<1>6. Named(s, p)' /\ Named(p, s)'
  BY <1>1, <1>2, <1>3, <1>4 DEF Named, Sound, Values, Told
<1>7. Differ(s, p)' /\ Differ(p, s)'
  BY <1>1, <1>3, <1>4 DEF Differ, ToldActive, ToldStart, Named, Sound
<1>8. ToldActive(s, p)' /\ ToldActive(p, s)'
  BY <1>1, <1>2, <1>3, <1>4 DEF ToldActive, Named, Sequenced, Sound, Values, Told, Up
<1>9. ToldPassive(s, p)' /\ ToldPassive(p, s)'
  BY <1>1, <1>2, <1>3, <1>4 DEF ToldPassive, Named, Sequenced, Sound, Values, Told, Up
<1>10. ToldStart(s, p)' /\ ToldStart(p, s)'
  <2>1. ToldStart(s, p)'
    BY <1>4 DEF ToldStart, Told
  <2>2. ASSUME Told(p, StartState(s))', state'[p] = "PASSIVE"
        PROVE  state'[s] \in {StartState(s), "DOWN"}
    BY <1>1, <1>3, <1>4, <2>2 DEF ToldStart, ToldActive, Named, Sound, Told
  <2>3. ASSUME Told(p, StartState(s))', state'[p] = "PRIMARY"
        PROVE  \/ state'[s] \in {"BACKUP", "DOWN"}
               \/ state'[s] = "PASSIVE" /\ channel'[s] = <<>> /\ timer'[p] > channel'[p][1].left
    <3>1. state[p] = "PRIMARY" /\ Told(p, StartState(s)) /\ Up(p) /\ channel[p] # <<>>
      BY <1>4, <2>3 DEF Told, Up
    <3>2. timer[p] > channel[p][1].left
      <4>1. timer[p] >= channel[s][1].left + Heartbeat - MaxDelay
        BY <1>3, <1>4, <3>1 DEF Sequenced, Sound
      <4>2. /\ channel[s][1].left \in Int /\ 0 <= channel[s][1].left
            /\ channel[p][1].left \in Int /\ channel[p][1].left <= MaxDelay
            /\ timer[p] \in Int
        BY <1>2, <1>4, <3>1 DEF Values
      <4> QED
        BY <4>1, <4>2
    <3>3. state[s] \in {"BACKUP", "DOWN"}
      BY <1>3, <1>4, <3>1 DEF ToldStart, Sound
    <3> QED
      BY <1>4, <3>2, <3>3
  <2>4. ToldStart(p, s)'
    BY <1>4, <2>2, <2>3 DEF ToldStart
  <2> QED
    BY <2>1, <2>4
<1>11. Fresh(s, p)' /\ Fresh(p, s)'
  <2>1. HearsIn(s, p)' < 2 * Heartbeat
    <3>1. timer'[p] \in Int /\ timer'[p] <= Heartbeat
          /\ linking'[s] \in Int /\ linking'[s] <= MaxConnect
      BY <1>2, <1>4 DEF Values
    <3> QED
      BY <1>4, <3>1, SoonHeard
  <2>2. Fresh(s, p)'
    BY <1>4, <2>1 DEF Fresh, Hears
  <2>3. HearsIn(p, s)' = HearsIn(p, s) /\ HearsIn(p, s) \in Int /\ peer_expiry[s] <= peer_expiry'[s]
    BY <1>2, <1>4, HearsInRange DEF HearsIn, Values
  <2>4. Fresh(p, s)'
    BY <1>1, <1>2, <1>3, <1>4, <2>3 DEF Fresh, Hears, Named, Sound, Told, Up, Values
  <2> QED
    BY <2>2, <2>4
<1> QED
  BY <1>4, <1>5, <1>6, <1>7, <1>8, <1>9, <1>10, <1>11 DEF Sound

\* What a tick does at one server.
Ticked(r) ==
    /\ state[r] # "DOWN" => timer[r] > 0 /\ timer'[r] = timer[r] - 1
    /\ peer_expiry'[r] = IF peer_expiry[r] > 0 THEN peer_expiry[r] - 1 ELSE 0
    /\ linking'[r] = IF linking[r] > 0 THEN linking[r] - 1 ELSE 0
    /\ channel[r] = <<>> <=> channel'[r] = <<>>
    /\ channel[r] # <<>> =>
           /\ Len(channel'[r]) = Len(channel[r])
           /\ channel[r][1].left > 0
           /\ channel'[r][1].state = channel[r][1].state
           /\ channel'[r][1].left = channel[r][1].left - 1

\* A tick does this at each.
LEMMA TickTicks ==
    ASSUME TypeOK, TypeOK', NEW r \in Server, Tick
    PROVE  Ticked(r)
<1>1. /\ state[r] # "DOWN" => timer[r] > 0 /\ timer'[r] = timer[r] - 1
      /\ peer_expiry'[r] = IF peer_expiry[r] > 0 THEN peer_expiry[r] - 1 ELSE 0
      /\ linking'[r] = IF linking[r] > 0 THEN linking[r] - 1 ELSE 0
  BY DEF Tick, Up, Less
<1>2. channel[r] \in Seq(Message) /\ channel'[r] \in Seq(Message)
  BY DEF TypeOK
<1>3. channel'[r] = [k \in 1 .. Len(channel[r]) |-> [channel[r][k] EXCEPT !.left = @ - 1]]
  BY DEF Tick
<1>4. Len(channel'[r]) = Len(channel[r])
  BY <1>2, <1>3
<1>5. channel[r] = <<>> <=> channel'[r] = <<>>
  BY <1>2, <1>4
<1>6. ASSUME channel[r] # <<>>
      PROVE  /\ channel[r][1].left > 0
             /\ channel'[r][1].state = channel[r][1].state
             /\ channel'[r][1].left = channel[r][1].left - 1
  <2>1. 1 \in 1 .. Len(channel[r])
    BY <1>2, <1>6
  <2>2. channel[r][1] \in Message
    BY <1>2, <2>1
  <2>3. channel[r][1].left > 0
    BY <2>1 DEF Tick
  <2>4. channel'[r][1] = [channel[r][1] EXCEPT !.left = @ - 1]
    BY <1>3, <2>1
  <2> QED
    BY <2>2, <2>3, <2>4 DEF Message
<1> QED
  BY <1>1, <1>4, <1>5, <1>6 DEF Ticked

\* The time until s hears of p runs down with the clock.
LEMMA HearsInTicks ==
    ASSUME NEW s, NEW p, Values(s), Values(p), Ticked(s), Ticked(p), state[p] # "DOWN"
    PROVE  HearsIn(s, p) > 0 /\ HearsIn(s, p)' = HearsIn(s, p) - 1
<1> USE TimeAssumption
<1>1. CASE channel[s] # <<>>
  BY <1>1 DEF HearsIn, Values, Ticked
<1>2. CASE channel[s] = <<>>
  <2>1. /\ timer[p] \in Int /\ timer[p] > 0 /\ timer'[p] = timer[p] - 1
        /\ linking[s] \in Int /\ 0 <= linking[s]
        /\ linking'[s] = IF linking[s] > 0 THEN linking[s] - 1 ELSE 0
    BY DEF Values, Ticked
  <2>2. HearsIn(s, p) = IF linking[s] <= timer[p] THEN timer[p] + MaxDelay
                        ELSE timer[p] + Heartbeat + MaxDelay
    BY <1>2 DEF HearsIn
  <2>3. HearsIn(s, p)' = IF linking'[s] <= timer'[p] THEN timer'[p] + MaxDelay
                         ELSE timer'[p] + Heartbeat + MaxDelay
    BY <1>2 DEF HearsIn, Ticked
  <2>4. linking'[s] <= timer'[p] <=> linking[s] <= timer[p]
    BY <2>1
  <2>5. CASE linking[s] <= timer[p]
    BY <2>1, <2>2, <2>3, <2>4, <2>5
  <2>6. CASE ~(linking[s] <= timer[p])
    BY <2>1, <2>2, <2>3, <2>4, <2>6
  <2> QED
    BY <2>5, <2>6
<1> QED
  BY <1>1, <1>2

\* A tick keeps all differences between times that still run.
LEMMA TickSound ==
    ASSUME Timely, PairInv, TypeOK', NEW s \in Server, NEW p \in Server,
           p = Peer(s), Tick
    PROVE  Sound(s, p)'
<1> USE TimeAssumption DEF Timely
<1>1. /\ p # s /\ s = Peer(p)
      /\ \/ StartState(s) = "PRIMARY" /\ StartState(p) = "BACKUP"
         \/ StartState(s) = "BACKUP" /\ StartState(p) = "PRIMARY"
  BY Pair
<1>2. Values(s) /\ Values(p)
  BY ValuesOf, Zenon DEF PairInv
<1>3. Sound(s, p) /\ Sound(p, s)
  BY <1>1 DEF PairInv
<1>4. Ticked(s) /\ Ticked(p) /\ state' = state
  <2>1. Ticked(s) /\ Ticked(p)
    BY TickTicks, Zenon DEF PairInv
  <2> QED
    BY <2>1 DEF Tick
<1>5. Sequenced(s, p)'
  <2>1. channel'[s] # <<>> => Up(s)' /\ Len(channel'[s]) = 1
    BY <1>3, <1>4 DEF Sequenced, Sound, Up, Ticked
  <2>2. ASSUME channel'[s] # <<>>, Up(p)'
        PROVE  timer'[p] >= channel'[s][1].left + Heartbeat - MaxDelay
    <3>1. timer[p] >= channel[s][1].left + Heartbeat - MaxDelay
      BY <1>3, <1>4, <2>2 DEF Sequenced, Sound, Up, Ticked
    <3>2. timer'[p] = timer[p] - 1 /\ channel'[s][1].left = channel[s][1].left - 1
      BY <1>4, <2>2 DEF Up, Ticked
    <3>3. timer[p] \in Int /\ channel[s][1].left \in Int
      BY <1>2, <1>4, <2>2 DEF Values, Ticked
    <3> QED
      BY <3>1, <3>2, <3>3
  <2> QED
    BY <2>1, <2>2 DEF Sequenced
<1>6. Named(s, p)'
  BY <1>1, <1>2, <1>3, <1>4 DEF Named, Sound, Told, Ticked
<1>7. Differ(s, p)'
  BY <1>1, <1>2, <1>3, <1>4 DEF Differ, Sound
<1>8. ToldActive(s, p)'
  <2>1. ASSUME Told(s, "ACTIVE"), channel[s][1].left < peer_expiry[s]
        PROVE  channel'[s][1].left < peer_expiry'[s]
    <3>1. /\ channel[s][1].left \in Int /\ peer_expiry[s] \in Int
          /\ channel[s][1].left > 0 /\ channel'[s][1].left = channel[s][1].left - 1
          /\ peer_expiry'[s] = IF peer_expiry[s] > 0 THEN peer_expiry[s] - 1 ELSE 0
      BY <1>2, <1>4, <2>1 DEF Values, Told, Ticked
    <3> QED
      BY <2>1, <3>1
  <2> QED
    BY <1>3, <1>4, <2>1 DEF ToldActive, Sound, Told, Ticked
<1>9. ToldPassive(s, p)'
  BY <1>1, <1>2, <1>3, <1>4 DEF ToldPassive, Named, Sequenced, Sound, Values, Told, Up, Ticked
<1>10. ToldStart(s, p)'
  <2>1. ASSUME Told(s, StartState(p)), state[s] = "PRIMARY", timer[s] > channel[s][1].left
        PROVE  timer'[s] > channel'[s][1].left
    <3>1. /\ channel[s][1].left \in Int /\ timer[s] \in Int
          /\ timer'[s] = timer[s] - 1 /\ channel'[s][1].left = channel[s][1].left - 1
      BY <1>2, <1>4, <2>1 DEF Values, Told, Ticked
    <3> QED
      BY <2>1, <3>1
  <2> QED
    BY <1>3, <1>4, <2>1 DEF ToldStart, Sound, Told, Ticked
<1>11. Fresh(s, p)'
  <2>1. ASSUME Up(p) PROVE HearsIn(s, p) > 0 /\ HearsIn(s, p)' = HearsIn(s, p) - 1
    BY <1>2, <1>4, <2>1, HearsInTicks DEF Up
  <2>2. HearsIn(s, p) \in Int /\ peer_expiry[s] \in Int /\ peer_expiry[p] \in Int
    BY <1>2, HearsInRange DEF Values
  <2>3. /\ peer_expiry'[s] = IF peer_expiry[s] > 0 THEN peer_expiry[s] - 1 ELSE 0
        /\ peer_expiry'[p] = IF peer_expiry[p] > 0 THEN peer_expiry[p] - 1 ELSE 0
    BY <1>4 DEF Ticked
  <2>4. Up(p) /\ Hears(s, p) => Hears(s, p)'
    BY <2>1, <2>2, <2>3 DEF Hears
  <2>5. Up(p) /\ HearsIn(s, p) < peer_expiry[p] => HearsIn(s, p)' < peer_expiry'[p]
    BY <2>1, <2>2, <2>3
  <2>6. (channel[p] = <<>> <=> channel'[p] = <<>>) /\ \A x : Told(p, x)' <=> Told(p, x)
    BY <1>4 DEF Told, Ticked
  <2> QED
    BY <1>3, <1>4, <2>4, <2>5, <2>6 DEF Fresh, Sound, Up
<1> QED
  BY <1>5, <1>6, <1>7, <1>8, <1>9, <1>10, <1>11 DEF Sound

\* The invariant holds initially,
LEMMA PairInit == Init => PairInv
<1> SUFFICES ASSUME Init PROVE PairInv
  OBVIOUS
<1>1. TypeOK
  BY TypeInit
<1>2. ASSUME NEW s \in Server PROVE Sound(s, Peer(s))
  <2>1. Peer(s) \in Server /\ StartState(Peer(s)) # "DOWN"
    BY DEF Server, Peer, StartState
  <2>2. state[s] = "DOWN" /\ state[Peer(s)] = "DOWN" /\ channel[s] = <<>>
    BY <2>1 DEF Init
  <2> QED
    BY <2>1, <2>2 DEF Sound, Sequenced, Named, Differ, ToldActive, ToldPassive, ToldStart, Fresh,
                      Told, Up
<1> QED
  BY <1>1, <1>2 DEF PairInv, Init

\* and every step preserves it.
LEMMA PairNext ==
    ASSUME Timely, PairInv, [Next]_vars
    PROVE  PairInv'
<1>1. TypeOK'
  BY TypeNext DEF PairInv
<1>2. ASSUME NEW s \in Server, Sound(s, Peer(s))', Sound(Peer(s), s)'
      PROVE  \A r \in Server : Sound(r, Peer(r))'
  BY <1>2, Pair
<1>3. ASSUME NEW s \in Server, Start(s) PROVE PairInv'
  BY <1>1, <1>2, <1>3, Pair, StartSound DEF PairInv, Start
<1>4. ASSUME NEW s \in Server, Crash(s) PROVE PairInv'
  BY <1>1, <1>2, <1>4, Pair, CrashSound DEF PairInv, Crash
<1>5. ASSUME NEW s \in Server, SendState(s) PROVE PairInv'
  BY <1>1, <1>2, <1>5, Pair, SendSound DEF PairInv, SendState
<1>6. ASSUME NEW s \in Server, RecvState(s) PROVE PairInv'
  <2>1. fatal' = fatal
    BY <1>1, <1>6, Pair, RecvSound
  <2> QED
    BY <1>1, <1>2, <1>6, <2>1, Pair, RecvSound DEF PairInv
<1>7. ASSUME NEW s \in Server, Request(s) PROVE PairInv'
  BY <1>1, <1>2, <1>7, Pair, RequestSound DEF PairInv, Request
<1>8. ASSUME Tick PROVE PairInv'
  BY <1>1, <1>8, Pair, TickSound DEF PairInv, Tick
<1>9. ASSUME UNCHANGED vars PROVE PairInv'
  BY <1>9 DEF vars, PairInv, TypeOK, Sound, Sequenced, Named, Differ, ToldActive, ToldPassive,
              ToldStart, Fresh, Hears, HearsIn, Told, Up
<1> QED
  BY <1>3, <1>4, <1>5, <1>6, <1>7, <1>8, <1>9 DEF Next

-----------------------------------------------------------------------------
(* The theorems. *)

\* "Two actives would mean split-brain": in no order of starts, crashes,
\* restarts, requests and messages are both servers active, when the times are
\* Timely (bstar.c:52-152, 155-191).
THEOREM OneActive == Timely => (Spec => []NoSplitBrain)
<1> SUFFICES ASSUME Timely PROVE Spec => []NoSplitBrain
  OBVIOUS
<1>1. PairInv => NoSplitBrain
  BY DEF PairInv, Sound, Differ, NoSplitBrain, Server, Peer
<1>2. PairInv /\ [Next]_vars => PairInv'
  BY PairNext
<1> QED
  BY PairInit, <1>1, <1>2, PTL DEF Spec

\* The branches of s_execute_fsm for dual actives and dual passives are never
\* taken, not even for a message that is out of date (bstar.c:106-133).
THEOREM NoDualState == Timely => (Spec => []NoFatal)
<1> SUFFICES ASSUME Timely PROVE Spec => []NoFatal
  OBVIOUS
<1>1. PairInv => NoFatal
  BY DEF PairInv, NoFatal
<1>2. PairInv /\ [Next]_vars => PairInv'
  BY PairNext
<1> QED
  BY PairInit, <1>1, <1>2, PTL DEF Spec
=============================================================================
