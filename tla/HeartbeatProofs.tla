-------------------------- MODULE HeartbeatProofs --------------------------
(***************************************************************************)
(* Theorems about Majordomo with its clocks, for every value of the        *)
(* constants.  What is proved of Majordomo holds with clocks as well: a    *)
(* timed step is a step of Majordomo, except that a worker gives up when   *)
(* its clock says so, without a budget, and that a tick may expire several *)
(* workers at once.  And if messages are fast enough for the two           *)
(* livenesses, neither side ever gives up the other.                       *)
(***************************************************************************)
EXTENDS MDHeartbeat, MajordomoProofs

SafeInv == IInv /\ PlacesInv /\ RepliesInv

LEMMA GiveUpSafe ==
    ASSUME SafeInv, NEW w \in Worker, WorkerGiveUp(w),
           UNCHANGED <<brokerVars, clientVars, faults>>
    PROVE  SafeInv'
<1>1. NetTypeOK /\ BrokerInv /\ WorkerInv /\ ClientInv /\ PlacesInv /\ RepliesInv
  BY DEF SafeInv, IInv
<1>2. UNCHANGED brokerVars /\ UNCHANGED clientVars /\ UNCHANGED <<requests, clientVars>>
  BY DEF brokerVars
<1>3. NetTypeOK' /\ WorkerInv'
  BY <1>1, WorkerInvStep
<1>4. IInv'
  BY <1>1, <1>2, <1>3, Untouched DEF SafeInv, IInv
<1>5. PlacesInv'
  BY <1>1, <1>2, WorkerPlaces
<1>6. RepliesInv'
  BY <1>1, <1>2, WorkerReplies
<1> QED BY <1>4, <1>5, <1>6 DEF SafeInv

LEMMA TickSafe ==
    ASSUME SafeInv, Tick
    PROVE  SafeInv'
<1>1. NetTypeOK /\ BrokerInv /\ WorkerInv /\ ClientInv /\ PlacesInv /\ RepliesInv
  BY DEF SafeInv, IInv
<1>2. /\ UNCHANGED <<netVars, known, service, waiting, swaiting, requests, nworkers,
                     brokerPc, current, workerVars, clientVars, faults>>
      /\ expired' = expired \cup {i \in Range(waiting) : expiry'[i] = 0}
  BY DEF Tick
<1>3. IInv'
  <2>1. NetTypeOK'
    BY <1>1, <1>2 DEF netVars, NetTypeOK
  <2>2. expired' \subseteq Identity
    BY <1>1, <1>2 DEF BrokerInv, BrokerTypeOK, Range
  <2>3. BrokerInv'
    BY <1>1, <1>2, <2>2 DEF BrokerInv, BrokerTypeOK, KnownHaveService, DispatchTarget,
                            WorkConserving
  <2>4. UNCHANGED workerVars /\ UNCHANGED clientVars /\ UNCHANGED faults
    BY <1>2
  <2> QED BY <1>1, <2>1, <2>3, <2>4, Untouched DEF SafeInv, IInv
<1>4. PlacesInv'
  BY <1>1, <1>2, QuietPlaces DEF workerVars
<1>5. RepliesInv'
  BY <1>1, <1>2, StillReplies DEF netVars, workerVars
<1> QED BY <1>3, <1>4, <1>5 DEF SafeInv

LEMMA TimedSafe == SafeInv /\ [TimedNext]_timedVars => SafeInv'
<1> SUFFICES ASSUME SafeInv, [TimedNext]_timedVars PROVE SafeInv'
  OBVIOUS
<1>1. ASSUME [Next]_vars
      PROVE  SafeInv'
  BY <1>1, NextIInv, NextPlaces, NextReplies DEF SafeInv
<1>2. CASE TimedBroker
  BY <1>1, <1>2 DEF TimedBroker, Next
<1>3. CASE BrokerPollAgain \/ UNCHANGED timedVars
  BY <1>1, <1>3 DEF BrokerPollAgain, timedVars
<1>4. CASE \E w \in Worker : TimedWorker(w)
  BY <1>1, <1>4, GiveUpSafe DEF TimedWorker, Next
<1>5. CASE \E c \in Client : TimedClient(c)
  BY <1>1, <1>5 DEF TimedClient, Next
<1>6. CASE TimedFault
  <2>1. Fault
    BY <1>6 DEF TimedFault, Fault
  <2> QED BY <1>1, <2>1 DEF Next
<1>7. CASE Tick
  BY <1>7, TickSafe
<1> QED BY <1>2, <1>3, <1>4, <1>5, <1>6, <1>7 DEF TimedNext

-----------------------------------------------------------------------------
(* The clocks' types. *)

\* A step of worker w moves no other worker.
LEMMA OtherWorkers ==
    ASSUME WorkerTypeOK, NEW w \in Worker,
           \/ WorkerNext(w)  \/ WorkerStart(w)
           \/ WorkerGiveUp(w) \/ WorkerCrash(w) \/ WorkerLeave(w)
    PROVE  \A v \in Worker \ {w} : /\ workerPc'[v] = workerPc[v]
                                   /\ liveness'[v] = liveness[v]
BY DEF WorkerTypeOK, WorkerNext, WorkerStart, WorkerGiveUp, WorkerCrash, WorkerLeave,
       WorkerTakeRequest, WorkerTakeHeartbeat, WorkerTakeDisconnect, WorkerPollTimeout,
       WorkerReconnect, WorkerSendReply, Connect

LEMMA MaxOfZero == \A a \in Int : Max({0, a}) = IF a > 0 THEN a ELSE 0
<1> TAKE a \in Int
<1> DEFINE m == IF a > 0 THEN a ELSE 0
<1>1. m \in {0, a} /\ m >= 0 /\ m >= a
  OBVIOUS
<1>2. \A x \in {0, a} : x >= 0 /\ x >= a => x = m
  OBVIOUS
<1> QED BY <1>1, <1>2 DEF Max

\* What is overdue is there.
LEMMA DeliveredType ==
    ASSUME NetTypeOK, NetTypeOK', Delivered,
           \A ch \in Channel : overdue[ch] \in 0 .. Len(Content(ch))
    PROVE  \A ch \in Channel : overdue'[ch] \in 0 .. Len(Content(ch))'
<1> DEFINE left(due, old, new) ==
          IF Len(new) < Len(old) THEN Max({0, due - (Len(old) - Len(new))}) ELSE due
<1>1. SUFFICES ASSUME NEW ch \in Channel PROVE overdue'[ch] \in 0 .. Len(Content(ch))'
  OBVIOUS
<1>2. /\ ch[1] \in Identity /\ overdue[ch] \in 0 .. Len(Content(ch))
      /\ Len(Content(ch)) \in Nat /\ Len(Content(ch))' \in Nat
  BY DEF Channel, Content, NetTypeOK
<1>3. overdue'[ch] = left(overdue[ch], Content(ch), Content(ch)')
  BY DEF Delivered, Content
<1> PICK due, old, new \in Int : due = overdue[ch] /\ old = Len(Content(ch)) /\ new = Len(Content(ch))'
  BY <1>2
<1>4. due \in 0 .. old /\ new >= 0
  BY <1>2
<1>5. CASE new < old
  <2>1. overdue'[ch] = Max({0, due - (old - new)})
    BY <1>3, <1>5
  <2>2. overdue'[ch] = IF due - (old - new) > 0 THEN due - (old - new) ELSE 0
    BY <2>1, MaxOfZero
  <2>3. overdue'[ch] \in 0 .. new
    BY <1>4, <1>5, <2>2
  <2> QED BY <2>3
<1>6. CASE ~ (new < old)
  <2>1. overdue'[ch] = due
    BY <1>3, <1>6
  <2> QED BY <1>4, <1>6, <2>1
<1> QED BY <1>5, <1>6

LEMMA ClockTypeInit ==
    ASSUME TimedInit
    PROVE  ClockTypeOK
<1>1. \A ch \in Channel : overdue[ch] = 0 /\ Len(Content(ch)) \in Nat
  <2>1. NetTypeOK
    BY InitIInv DEF TimedInit, IInv
  <2> QED BY <2>1 DEF TimedInit, ClockInit, Channel, Content, NetTypeOK
<1>2. workerPoll \in [Worker -> Nat] /\ workerBeat \in [Worker -> -1 .. Interval]
  BY ClockAssumption DEF TimedInit, ClockInit
<1>3. expiry \in [Identity -> 0 .. Expiry]
  <2>1. Expiry \in Nat
    BY ClockAssumption DEF Expiry
  <2> QED BY <2>1 DEF TimedInit, ClockInit
<1>4. \A w \in Worker : workerPc[w] = "recv" /\ workerPoll[w] = Interval
  BY DEF TimedInit, Init, ClockInit, WorkerInit
<1> QED BY <1>1, <1>2, <1>3, <1>4, ClockAssumption DEF ClockTypeOK, TimedInit, ClockInit

LEMMA ClockTypeStep ==
    ASSUME SafeInv, SafeInv', ClockTypeOK, [TimedNext]_timedVars
    PROVE  ClockTypeOK'
<1>1. NetTypeOK /\ NetTypeOK' /\ WorkerTypeOK
  BY DEF SafeInv, IInv, WorkerInv
<1>2. Expiry \in Nat
  BY ClockAssumption DEF Expiry
<1>3. ASSUME Delivered
      PROVE  \A ch \in Channel : overdue'[ch] \in 0 .. Len(Content(ch))'
  BY <1>1, <1>3, DeliveredType DEF ClockTypeOK
<1>4. CASE TimedBroker
  <2>1. brokerPoll' \in 0 .. Interval /\ brokerBeat' \in -1 .. Interval
    BY <1>4, ClockAssumption DEF TimedBroker, ClockTypeOK
  <2>2. expiry' \in [Identity -> 0 .. Expiry]
    BY <1>2, <1>4 DEF TimedBroker, ClockTypeOK
  <2>3. workerPc' = workerPc /\ workerPoll' = workerPoll /\ workerBeat' = workerBeat
    BY <1>4 DEF TimedBroker, BrokerStep, workerVars
  <2> QED BY <1>3, <1>4, <2>1, <2>2, <2>3 DEF ClockTypeOK, TimedBroker
<1>5. CASE BrokerPollAgain
  BY <1>5, ClockAssumption
     DEF BrokerPollAgain, vars, netVars, workerVars, ClockTypeOK, Content
<1>6. ASSUME NEW w \in Worker, TimedWorker(w)
      PROVE  ClockTypeOK'
  <2>1. \A v \in Worker \ {w} : workerPc'[v] = workerPc[v]
    BY <1>1, <1>6, OtherWorkers DEF TimedWorker, WorkerStep
  <2>2. workerPoll' = [workerPoll EXCEPT ![w] = Pause(w)]
    BY <1>6 DEF TimedWorker
  <2>3. workerPoll' \in [Worker -> Nat]
    BY <2>2, ClockAssumption DEF Pause, ClockTypeOK
  <2>4. ASSUME NEW v \in Worker
        PROVE  /\ workerPc'[v] = "recv" => workerPoll'[v] <= Interval
               /\ workerPc'[v] = "sleep" => workerPoll'[v] <= ReconnectDelay
    <3>1. CASE v = w
      <4>1. workerPoll'[v] = IF workerPc'[v] = "sleep" THEN ReconnectDelay ELSE Interval
        BY <2>2, <3>1 DEF Pause, ClockTypeOK
      <4> QED BY <4>1, ClockAssumption
    <3>2. CASE v # w
      <4>1. workerPoll'[v] = workerPoll[v]
        BY <2>2, <3>2 DEF ClockTypeOK
      <4> QED BY <2>1, <3>2, <4>1 DEF ClockTypeOK
    <3> QED BY <3>1, <3>2
  <2>5. workerBeat' \in [Worker -> -1 .. Interval]
    <3>1. \/ workerBeat' = [workerBeat EXCEPT ![w] = Interval]
          \/ workerBeat' = [workerBeat EXCEPT ![w] = workerBeat[w]]
      BY <1>6 DEF TimedWorker
    <3> QED BY <3>1, ClockAssumption DEF ClockTypeOK
  <2>6. UNCHANGED <<brokerPoll, brokerBeat, expiry>> /\ Delivered
    BY <1>6 DEF TimedWorker
  <2> QED BY <1>3, <2>3, <2>4, <2>5, <2>6 DEF ClockTypeOK
<1>7. ASSUME NEW c \in Client, TimedClient(c)
      PROVE  ClockTypeOK'
  <2>1. workerPc' = workerPc /\ Delivered
    BY <1>7 DEF TimedClient, ClientStep, workerVars
  <2> QED BY <1>3, <1>7, <2>1 DEF ClockTypeOK, TimedClient
<1>8. CASE TimedFault
  <2>1. /\ brokerPoll' \in 0 .. Interval /\ brokerBeat' \in -1 .. Interval
        /\ expiry' = expiry /\ workerPoll' = workerPoll /\ workerBeat' = workerBeat
        /\ Delivered
    BY <1>8, ClockAssumption DEF TimedFault, ClockTypeOK
  <2>2. \A v \in Worker : workerPc'[v] \in {workerPc[v], "stopped"}
    BY <1>1, <1>8 DEF TimedFault, WorkerCrash, WorkerTypeOK, workerVars
  <2> QED BY <1>3, <2>1, <2>2 DEF ClockTypeOK
<1>9. CASE Tick
  <2>1. \A n \in Int, low \in Int : Down(n, low) = IF n > low THEN n - 1 ELSE low
    BY DEF Down
  <2>2. /\ workerPc' = workerPc /\ toBroker' = toBroker /\ toPeer' = toPeer
        /\ overdue' = [ch \in Channel |-> Len(Content(ch))]
    BY <1>9 DEF Tick, workerVars, netVars
  <2>3. \A ch \in Channel : overdue'[ch] \in 0 .. Len(Content(ch))'
    <3>1. \A ch \in Channel : Content(ch)' = Content(ch) /\ Len(Content(ch)) \in Nat
      BY <1>1, <2>2 DEF Content, Channel, NetTypeOK
    <3> QED BY <2>2, <3>1
  <2>4. brokerPoll' \in 0 .. Interval /\ brokerBeat' \in -1 .. Interval
    <3>1. /\ brokerPoll > 0 /\ brokerPoll' = brokerPoll - 1
          /\ brokerBeat' = IF brokerBeat > -1 THEN brokerBeat - 1 ELSE -1
      BY <1>9 DEF Tick, Down
    <3>2. brokerPoll \in 0 .. Interval /\ brokerBeat \in -1 .. Interval /\ Interval \in Nat
      BY ClockAssumption DEF ClockTypeOK
    <3> QED BY <3>1, <3>2
  <2>5. expiry' \in [Identity -> 0 .. Expiry]
    BY <1>2, <1>9, <2>1 DEF Tick, ClockTypeOK
  <2>6. workerBeat' \in [Worker -> -1 .. Interval]
    BY <1>9, <2>1, ClockAssumption DEF Tick, ClockTypeOK
  <2>7. /\ workerPoll' \in [Worker -> Nat]
        /\ \A w \in Worker : workerPoll'[w] <= workerPoll[w]
    BY <1>9, <2>1 DEF Tick, ClockTypeOK
  <2> QED BY <2>2, <2>3, <2>4, <2>5, <2>6, <2>7, ClockAssumption DEF ClockTypeOK
<1>10. CASE UNCHANGED timedVars
  BY <1>10 DEF timedVars, clockVars, vars, netVars, workerVars, ClockTypeOK, Content
<1> QED BY <1>4, <1>5, <1>6, <1>7, <1>8, <1>9, <1>10 DEF TimedNext

LEMMA TimedSpecClocks == TimedSpec => [](SafeInv /\ ClockTypeOK)
<1>1. TimedInit => SafeInv /\ ClockTypeOK
  BY InitIInv, InitPlaces, InitReplies, ClockTypeInit DEF TimedInit, SafeInv
<1>2. SafeInv /\ ClockTypeOK /\ [TimedNext]_timedVars => (SafeInv /\ ClockTypeOK)'
  BY TimedSafe, ClockTypeStep
<1> QED BY <1>1, <1>2, PTL DEF TimedSpec

\* The clocks stay in their ranges: a poll is never longer than its interval,
\* an expiry never more than HEARTBEAT_EXPIRY ahead, and what is overdue in a
\* channel is there.
THEOREM ClocksTyped == TimedSpec => []ClockTypeOK
BY TimedSpecClocks, PTL

\* With clocks the broker, the workers and the clients are as safe as without:
\* the additional steps, a worker that gives up when its liveness is used up
\* and a tick that expires several workers at once, break nothing.
THEOREM TimedSafety ==
    TimedSpec => [](/\ TypeOK /\ WorkConserving /\ ListsAgree /\ WorkerCount
                    /\ OnePermission /\ NoDuplicate)
<1>1. SafeInv => TypeOK /\ WorkConserving
  BY DEF SafeInv, IInv, TypeOK, BrokerInv, WorkerInv, ClientInv
<1>2. SafeInv => ListsAgree /\ WorkerCount
  BY DEF SafeInv, PlacesInv, Counted
<1>3. SafeInv => OnePermission
  BY PermitsAreOne DEF SafeInv
<1>4. SafeInv => NoDuplicate
  BY ExchangesAreOne DEF SafeInv
<1> QED BY <1>1, <1>2, <1>3, <1>4, TimedSpecClocks, PTL

\* And a client still takes only the reply to the call it made.
THEOREM TimedReplies == ~ KeepSession => (TimedSpec => []ReplyMatches)
<1> SUFFICES ASSUME ~ KeepSession PROVE TimedSpec => []ReplyMatches
  OBVIOUS
<1>1. SafeInv => ReplyMatches
  BY RepliesAreRight DEF SafeInv
<1> QED BY <1>1, TimedSpecClocks, PTL

-----------------------------------------------------------------------------
(***************************************************************************)
(* Nobody gives up a peer that lives.  A worker in mdwrk_recv has more     *)
(* time left than the broker needs to be heard, and a worker in the        *)
(* waiting list more than it needs itself.  Who may expect a heartbeat is  *)
(* known from the permission, which is never lost: the worker is idle, or  *)
(* its READY or REPLY will make it so, or a REQUEST is on its way.         *)
(***************************************************************************)

\* Nothing fails, and the livenesses bear twice the interval, once for the wait
\* until heartbeat_at and once for the poll that is under way then, and the
\* time messages take: one way, or to the broker and back.
Timely ==
    /\ MaxFaults = 0
    /\ 2 * (Interval + MaxDelay) < Liveness * Interval
    /\ 2 * Interval + MaxDelay < BrokerLiveness * Interval

Sock(w) == <<w, 1>>
In(i) == <<i, "in">>
Out(i) == <<i, "out">>

\* Ticks until the k-th message of a channel is taken, if its reader listens.
Delay(ch, k) == IF k <= overdue[ch] THEN 0 ELSE MaxDelay

\* Ticks until the next heartbeat round of the broker, and of worker w: the
\* first loop that finds heartbeat_at passed.
BrokerDue == IF brokerBeat >= 0 THEN brokerBeat + Interval ELSE brokerPoll
WorkerDue(w) == IF workerBeat[w] >= 0 THEN workerBeat[w] + Interval ELSE workerPoll[w]

\* Ticks until worker w gives the broker up, if it hears nothing.
Patience(w) == (liveness[w] - 1) * Interval + workerPoll[w]

\* Worker w lives on its first socket, and nobody has taken leave.
Settled(w) ==
    LET i == Sock(w) IN
       /\ session[w] = 1 /\ i \in open
       /\ workerPc[w] \in {"recv", "app"}
       /\ workerPc[w] = "app" => liveness[w] = Liveness
       /\ \A k \in 1 .. Len(toBroker[i]) : toBroker[i][k].cmd # "DISCONNECT"
       /\ \A k \in 1 .. Len(toPeer[i]) : toPeer[i][k].cmd # "DISCONNECT"

\* It registers with its first message, and once.
Greeted(w) ==
    LET i == Sock(w) IN
       IF i \in known
       THEN \A k \in 1 .. Len(toBroker[i]) : toBroker[i][k].cmd # "READY"
       ELSE toBroker[i] # <<>> /\ Head(toBroker[i]).cmd = "READY"

\* The permission of a worker in mdwrk_recv is somewhere else.
Permitted(w) ==
    LET i == Sock(w) IN
       workerPc[w] = "recv" => Told(i) # {} \/ i \in Range(waiting) \/ Asked(i) # {}

\* The broker is heard before the worker's patience ends.
BrokerHeard(w) ==
    LET i == Sock(w) IN
       workerPc[w] = "recv" =>
         /\ Patience(w) > 0
         /\ toPeer[i] # <<>> => Patience(w) > Delay(Out(i), 1)
         /\ toPeer[i] = <<>> /\ i \in Range(waiting) => Patience(w) > BrokerDue + MaxDelay
         /\ toPeer[i] = <<>> =>
               \A k \in Told(i) : Patience(w) > Delay(In(i), k) + 2 * Interval + MaxDelay

\* The worker is heard before its expiry, and is not expired.
WorkerHeard(w) ==
    LET i == Sock(w) IN
       i \in Range(waiting) =>
         /\ i \notin expired
         /\ toBroker[i] # <<>> => expiry[i] > Delay(In(i), 1)
         /\ toBroker[i] = <<>> => expiry[i] > WorkerDue(w) + MaxDelay

Alive(w) == Settled(w) /\ Greeted(w) /\ Permitted(w) /\ BrokerHeard(w) /\ WorkerHeard(w)

\* Outside a dispatch no service is being dispatched.
NoRound == brokerPc \in {"poll", "heartbeat"} => current = NoService

AliveInv == NoRound /\ \A w \in Worker : Alive(w)

ClockInv == SafeInv /\ ClockTypeOK

-----------------------------------------------------------------------------
(* Types and bounds of what the clocks show for one worker. *)

LEMMA SockOf ==
    ASSUME NEW w \in Worker
    PROVE  /\ Sock(w) \in Identity /\ Sock(w) \in WorkerSocket /\ Sock(w)[1] = w
           /\ In(Sock(w)) \in Channel /\ Out(Sock(w)) \in Channel
           /\ \A v \in Worker : Sock(v) = Sock(w) => v = w
BY NetAssumption DEF Sock, In, Out, Channel, Identity, WorkerSocket, Peer

LEMMA ClockNumbers ==
    ASSUME ClockInv, NEW w \in Worker, Settled(w)
    PROVE  LET i == Sock(w) IN
           /\ Interval \in Nat \ {0} /\ MaxDelay \in {0, 1}
           /\ BrokerDue \in 0 .. 2 * Interval
           /\ workerPc[w] = "recv" => WorkerDue(w) \in 0 .. 2 * Interval
           /\ workerPoll[w] \in Nat /\ workerBeat[w] \in -1 .. Interval
           /\ brokerPoll \in 0 .. Interval /\ brokerBeat \in -1 .. Interval
           /\ liveness[w] \in 0 .. Liveness /\ Liveness \in Nat \ {0}
           /\ Patience(w) \in Int
           /\ Expiry \in Nat /\ expiry[i] \in 0 .. Expiry
           /\ overdue[In(i)] \in 0 .. Len(toBroker[i])
           /\ overdue[Out(i)] \in 0 .. Len(toPeer[i])
           /\ toBroker[i] \in Seq(PeerMessage) /\ toPeer[i] \in Seq(BrokerMessage)
           /\ toBroker[i] \in Seq(FromWorker(w))
           /\ Conn(w) = i
<1> DEFINE i == Sock(w)
<1>1. /\ i \in Identity /\ i \in WorkerSocket /\ i[1] = w
      /\ In(i) \in Channel /\ Out(i) \in Channel
  BY SockOf
<1>2. /\ Interval \in Nat \ {0} /\ MaxDelay \in {0, 1} /\ Liveness \in Nat \ {0}
      /\ BrokerLiveness \in Nat
  BY ClockAssumption, WorkerAssumption
<1>3. /\ brokerPoll \in 0 .. Interval /\ brokerBeat \in -1 .. Interval
      /\ workerPoll[w] \in Nat /\ workerBeat[w] \in -1 .. Interval
      /\ expiry[i] \in 0 .. Expiry
      /\ workerPc[w] = "recv" => workerPoll[w] <= Interval
  BY <1>1 DEF ClockInv, ClockTypeOK
<1>4. liveness[w] \in 0 .. Liveness
  BY DEF ClockInv, SafeInv, IInv, WorkerInv, WorkerTypeOK
<1>5. Patience(w) \in Int
  <2>1. \A a \in Int, b \in Int, c \in Int : (a - 1) * b + c \in Int
    OBVIOUS
  <2> QED BY <1>2, <1>3, <1>4, <2>1 DEF Patience
<1>6. Expiry \in Nat
  BY <1>2 DEF Expiry
<1>7. BrokerDue \in 0 .. 2 * Interval
  BY <1>2, <1>3 DEF BrokerDue
<1>8. workerPc[w] = "recv" => WorkerDue(w) \in 0 .. 2 * Interval
  BY <1>2, <1>3 DEF WorkerDue
<1>9. /\ overdue[In(i)] \in 0 .. Len(toBroker[i])
      /\ overdue[Out(i)] \in 0 .. Len(toPeer[i])
  <2>1. Content(In(i)) = toBroker[i] /\ Content(Out(i)) = toPeer[i]
    BY DEF Content, In, Out
  <2> QED BY <1>1, <2>1 DEF ClockInv, ClockTypeOK
<1>10. toBroker[i] \in Seq(PeerMessage) /\ toPeer[i] \in Seq(BrokerMessage)
  BY <1>1 DEF ClockInv, SafeInv, IInv, NetTypeOK
<1>11. toBroker[i] \in Seq(FromWorker(w))
  BY <1>1 DEF ClockInv, SafeInv, PlacesInv, Roles
<1>12. Conn(w) = i
  BY DEF Settled, Conn, Sock
<1> QED BY <1>1, <1>2, <1>3, <1>4, <1>5, <1>6, <1>7, <1>8, <1>9, <1>10, <1>11, <1>12

\* Messages are taken from the front of a channel and added at its end.
LEMMA DueKept ==
    ASSUME ClockInv, ClockInv', Delivered, NEW i \in Identity
    PROVE  /\ \/ toBroker'[i] = toBroker[i]
              \/ \E m : toBroker'[i] = Append(toBroker[i], m)
              => overdue'[In(i)] = overdue[In(i)]
           /\ \/ toPeer'[i] = toPeer[i]
              \/ \E m : toPeer'[i] = Append(toPeer[i], m)
              => overdue'[Out(i)] = overdue[Out(i)]
<1>1. /\ toBroker[i] \in Seq(PeerMessage) /\ toPeer[i] \in Seq(BrokerMessage)
      /\ toBroker'[i] \in Seq(PeerMessage) /\ toPeer'[i] \in Seq(BrokerMessage)
      /\ In(i) \in Channel /\ Out(i) \in Channel
  BY DEF ClockInv, SafeInv, IInv, NetTypeOK, In, Out, Channel
<1>2. \/ toBroker'[i] = toBroker[i]
      \/ \E m : toBroker'[i] = Append(toBroker[i], m)
      => ~ (Len(toBroker'[i]) < Len(toBroker[i]))
  BY <1>1, LenProperties
<1>3. \/ toPeer'[i] = toPeer[i]
      \/ \E m : toPeer'[i] = Append(toPeer[i], m)
      => ~ (Len(toPeer'[i]) < Len(toPeer[i]))
  BY <1>1, LenProperties
<1>4. ~ (Len(toBroker'[i]) < Len(toBroker[i])) => overdue'[In(i)] = overdue[In(i)]
  BY <1>1 DEF Delivered, In
<1>5. ~ (Len(toPeer'[i]) < Len(toPeer[i])) => overdue'[Out(i)] = overdue[Out(i)]
  BY <1>1 DEF Delivered, Out
<1> QED BY <1>2, <1>3, <1>4, <1>5

LEMMA DueTaken ==
    ASSUME ClockInv, ClockInv', Delivered, NEW i \in Identity
    PROVE  /\ toBroker[i] # <<>> /\ toBroker'[i] = Tail(toBroker[i])
              => overdue'[In(i)] = IF overdue[In(i)] > 0 THEN overdue[In(i)] - 1 ELSE 0
           /\ toPeer[i] # <<>> /\ toPeer'[i] = Tail(toPeer[i])
              => overdue'[Out(i)] = IF overdue[Out(i)] > 0 THEN overdue[Out(i)] - 1 ELSE 0
<1>1. /\ toBroker[i] \in Seq(PeerMessage) /\ toPeer[i] \in Seq(BrokerMessage)
      /\ In(i) \in Channel /\ Out(i) \in Channel
      /\ overdue[In(i)] \in Int /\ overdue[Out(i)] \in Int
  <2>1. /\ toBroker[i] \in Seq(PeerMessage) /\ toPeer[i] \in Seq(BrokerMessage)
        /\ In(i) \in Channel /\ Out(i) \in Channel
    BY DEF ClockInv, SafeInv, IInv, NetTypeOK, In, Out, Channel
  <2>2. Content(In(i)) = toBroker[i] /\ Content(Out(i)) = toPeer[i]
    BY DEF Content, In, Out
  <2> QED BY <2>1, <2>2 DEF ClockInv, ClockTypeOK
<1>2. \A a \in Int : Max({0, a}) = IF a > 0 THEN a ELSE 0
  BY MaxOfZero
<1>3. ASSUME NEW S, NEW list \in Seq(S), list # <<>>
      PROVE  Len(Tail(list)) < Len(list) /\ Len(list) - Len(Tail(list)) = 1
  BY <1>3, HeadTailProperties, EmptySeq
<1>4. toBroker[i] # <<>> /\ toBroker'[i] = Tail(toBroker[i])
      => overdue'[In(i)] = Max({0, overdue[In(i)] - 1})
  BY <1>1, <1>3 DEF Delivered, In
<1>5. toPeer[i] # <<>> /\ toPeer'[i] = Tail(toPeer[i])
      => overdue'[Out(i)] = Max({0, overdue[Out(i)] - 1})
  BY <1>1, <1>3 DEF Delivered, Out
<1> QED BY <1>1, <1>2, <1>4, <1>5

\* A worker that listens and for which nothing is under way has time left.
LEMMA TimeLeft ==
    ASSUME ClockInv, NEW w \in Worker, Alive(w), workerPc[w] = "recv", toPeer[Sock(w)] = <<>>
    PROVE  Patience(w) > MaxDelay
<1>1. Asked(Sock(w)) = {}
  BY SpotsEmpty DEF Asked
<1>2. Told(Sock(w)) # {} \/ Sock(w) \in Range(waiting)
  BY <1>1 DEF Alive, Permitted
<1>3. /\ Interval \in Nat /\ MaxDelay \in {0, 1} /\ Patience(w) \in Int
      /\ BrokerDue \in 0 .. 2 * Interval
  BY ClockNumbers DEF Alive
<1>4. CASE Sock(w) \in Range(waiting)
  <2>1. Patience(w) > BrokerDue + MaxDelay
    BY <1>4 DEF Alive, BrokerHeard
  <2> QED BY <1>3, <2>1
<1>5. CASE Told(Sock(w)) # {}
  <2>1. PICK k \in Told(Sock(w)) : Patience(w) > Delay(In(Sock(w)), k) + 2 * Interval + MaxDelay
    BY <1>5 DEF Alive, BrokerHeard
  <2>2. Delay(In(Sock(w)), k) \in {0, MaxDelay}
    BY DEF Delay
  <2> QED BY <1>3, <2>1, <2>2
<1> QED BY <1>2, <1>4, <1>5

-----------------------------------------------------------------------------
\* At most one message more is on its way to socket i, and no DISCONNECT.
Sent(i) ==
    \/ toPeer'[i] = toPeer[i]
    \/ \E m \in BrokerMessage :
          m.cmd # "DISCONNECT" /\ toPeer'[i] = Append(toPeer[i], m)

\* A step that at most sends worker w something, and brings the broker's next
\* round no further away unless it has just been there.
LEMMA StillAlive ==
    ASSUME ClockInv, ClockInv', NEW w \in Worker, NEW i, i = Sock(w), Alive(w),
           workerPc'[w] = workerPc[w], liveness'[w] = liveness[w],
           workerPoll'[w] = workerPoll[w], workerBeat'[w] = workerBeat[w],
           session'[w] = session[w], i \in open',
           toBroker'[i] = toBroker[i],
           overdue'[In(i)] = overdue[In(i)], overdue'[Out(i)] = overdue[Out(i)],
           i \in known' <=> i \in known, i \in expired' => i \in expired,
           expiry'[i] = expiry[i],
           Sent(i),
           i \in Range(waiting') => i \in Range(waiting),
           BrokerDue' <= BrokerDue \/ (i \in Range(waiting') => toPeer'[i] # <<>>),
           Permitted(w)'
    PROVE  Alive(w)'
<1>1. /\ Settled(w) /\ Greeted(w) /\ BrokerHeard(w) /\ WorkerHeard(w)
  BY DEF Alive
<1>2. toPeer[i] \in Seq(BrokerMessage) /\ toPeer'[i] \in Seq(BrokerMessage)
  BY <1>1, ClockNumbers, SockOf DEF ClockInv, SafeInv, IInv, NetTypeOK
<1>0. PICK m \in BrokerMessage :
        /\ toPeer'[i] = toPeer[i] \/ toPeer'[i] = Append(toPeer[i], m)
        /\ m.cmd # "DISCONNECT"
  <2>1. Heartbeat \in BrokerMessage /\ Heartbeat.cmd # "DISCONNECT"
    BY DEF BrokerMessage, Heartbeat
  <2> QED BY <2>1 DEF Sent
<1>3. Settled(w)'
  <2>1. ASSUME NEW k \in 1 .. Len(toPeer'[i])
        PROVE  toPeer'[i][k].cmd # "DISCONNECT"
    <3>1. CASE toPeer'[i] = toPeer[i]
      BY <1>1, <3>1 DEF Settled
    <3>2. CASE toPeer'[i] = Append(toPeer[i], m)
      BY <1>0, <1>1, <1>2, <3>2 DEF Settled
    <3> QED BY <1>0, <3>1, <3>2
  <2> QED BY <1>1, <2>1 DEF Settled
<1>4. Greeted(w)'
  BY <1>1 DEF Greeted
<1>5. Told(i)' = Told(i)
  BY DEF Told
<1>6. Patience(w)' = Patience(w) /\ WorkerDue(w)' = WorkerDue(w)
  BY DEF Patience, WorkerDue
<1>7. \A k : /\ Delay(In(i), k)' = Delay(In(i), k)
             /\ Delay(Out(i), k)' = Delay(Out(i), k)
  BY DEF Delay, In, Out
<1>8. WorkerHeard(w)'
  BY <1>1, <1>6, <1>7 DEF WorkerHeard
<1>9. BrokerHeard(w)'
  <2>1. SUFFICES ASSUME workerPc[w] = "recv" PROVE BrokerHeard(w)'
    BY DEF BrokerHeard
  <2>2. /\ Interval \in Nat /\ MaxDelay \in {0, 1} /\ Patience(w) \in Int
        /\ BrokerDue \in 0 .. 2 * Interval /\ overdue[Out(i)] \in 0 .. Len(toPeer[i])
    BY <1>1, ClockNumbers
  <2>3. BrokerDue' \in Int
    <3>1. brokerBeat' \in Int /\ brokerPoll' \in Int
      BY DEF ClockInv, ClockTypeOK
    <3> QED BY <2>2, <3>1 DEF BrokerDue
  <2>4. CASE toPeer'[i] = <<>>
    <3>1. toPeer[i] = <<>>
      BY <1>0, <1>2, <2>4
    <3>2. i \in Range(waiting') => Patience(w) > BrokerDue + MaxDelay /\ BrokerDue' <= BrokerDue
      BY <1>1, <2>1, <2>4, <3>1 DEF BrokerHeard
    <3>3. i \in Range(waiting') => Patience(w) > BrokerDue' + MaxDelay
      BY <2>2, <2>3, <3>2
    <3> QED BY <1>1, <1>5, <1>6, <1>7, <2>1, <2>4, <3>1, <3>3 DEF BrokerHeard
  <2>5. CASE toPeer'[i] # <<>>
    <3>1. Patience(w) > Delay(Out(i), 1)
      <4>1. CASE toPeer[i] # <<>>
        BY <1>1, <2>1, <4>1 DEF BrokerHeard
      <4>2. CASE toPeer[i] = <<>>
        <5>1. Patience(w) > MaxDelay
          BY <2>1, <4>2, TimeLeft
        <5>2. Delay(Out(i), 1) \in {0, MaxDelay}
          BY DEF Delay
        <5> QED BY <2>2, <5>1, <5>2
      <4> QED BY <4>1, <4>2
    <3> QED BY <1>1, <1>6, <1>7, <2>1, <2>5, <3>1 DEF BrokerHeard
  <2> QED BY <2>4, <2>5
<1> QED BY <1>3, <1>4, <1>8, <1>9 DEF Alive

\* What was asked of a worker stays asked when something is sent to it.
LEMMA StillAsked ==
    ASSUME NetTypeOK, NEW i \in Identity, Sent(i), Asked(i) # {}
    PROVE  Asked(i)' # {}
<1>1. CASE toPeer'[i] = toPeer[i]
  BY <1>1 DEF Asked
<1>2. ASSUME NEW m \in BrokerMessage, toPeer'[i] = Append(toPeer[i], m)
      PROVE  Asked(i)' # {}
  <2>1. toPeer[i] \in Seq(BrokerMessage)
    BY DEF NetTypeOK
  <2>2. Spots(toPeer[i], Request) \subseteq Spots(Append(toPeer[i], m), Request)
    BY <2>1, SpotsAppend
  <2> QED BY <1>2, <2>2 DEF Asked
<1> QED BY <1>1, <1>2 DEF Sent

-----------------------------------------------------------------------------
(* The broker's steps. *)

LEMMA NoRoundStep ==
    ASSUME NoRound, TimedNext
    PROVE  NoRound'
<1>1. CASE TimedBroker
  <2>1. BrokerNext
    BY <1>1 DEF TimedBroker, BrokerStep
  <2>2. ASSUME NEW i \in Identity, BrokerMessageIn(i)
        PROVE  NoRound'
    BY <2>2 DEF NoRound, BrokerMessageIn, WorkerReady, WorkerReply, WorkerHeartbeat,
            WorkerRefuse, WorkerDisconnect, ClientMmi, ClientRequest, WorkerWaiting,
            StartDispatch, EndOfLoop
  <2> QED BY <2>1, <2>2 DEF NoRound, BrokerNext, BrokerPollTimeout, PurgeHead, PurgeDone,
             Dispatch, DispatchDone, EndOfLoop, HeartbeatRound
<1>2. CASE TimedFault
  BY <1>2 DEF NoRound, TimedFault, BrokerRestart, brokerVars
<1>3. CASE ~ TimedBroker /\ ~ TimedFault
  BY <1>3 DEF NoRound, TimedNext, BrokerPollAgain, TimedWorker, TimedClient, Tick, vars,
     brokerVars, WorkerStep, ClientStep
<1> QED BY <1>1, <1>2, <1>3

\* The broker's loop goes round without bringing the next heartbeat round any
\* further away, and leaves the workers' clocks alone.
LEMMA BrokerClocks ==
    ASSUME ClockInv, NoRound', TimedBroker
    PROVE  /\ workerPc' = workerPc /\ liveness' = liveness /\ held' = held
           /\ workerPoll' = workerPoll /\ workerBeat' = workerBeat
           /\ session' = session /\ open' = open
           /\ brokerPc # "heartbeat" => BrokerDue' = BrokerDue
<1>1. /\ BrokerNext /\ UNCHANGED <<workerVars, clientVars, faults>>
      /\ UNCHANGED <<workerPoll, workerBeat>>
  BY DEF TimedBroker, BrokerStep
<1>2. session' = session /\ open' = open
  BY <1>1 DEF BrokerNext, BrokerMessageIn, BrokerPollTimeout, PurgeHead, PurgeDone,
              Dispatch, DispatchDone, HeartbeatRound, netVars
<1>3. ASSUME brokerPc # "heartbeat"
      PROVE  BrokerDue' = BrokerDue
  <2>1. brokerBeat' = brokerBeat
    BY <1>3 DEF TimedBroker
  <2>2. CASE brokerPc' # "poll"
    BY <2>1, <2>2 DEF TimedBroker, BrokerDue
  <2>3. CASE brokerPc' = "poll"
    <3>1. brokerPc \in {"poll", "dispatch"}
      <4>1. (\E i \in Identity : BrokerMessageIn(i)) => brokerPc = "poll"
        BY DEF BrokerMessageIn
      <4>2. PurgeHead \/ PurgeDone => brokerPc' # "poll"
        BY DEF PurgeHead, PurgeDone
      <4>3. HeartbeatRound => brokerPc = "heartbeat"
        BY DEF HeartbeatRound
      <4> QED BY <1>1, <1>3, <2>3, <4>1, <4>2, <4>3
                 DEF BrokerNext, BrokerPollTimeout, Dispatch, DispatchDone
    <3>2. brokerBeat >= 0
      BY <2>3, <3>1 DEF TimedBroker, NoRound
    <3> QED BY <2>1, <3>2 DEF BrokerDue
  <2> QED BY <2>2, <2>3
<1> QED BY <1>1, <1>2, <1>3 DEF workerVars

\* A step of the broker that takes nothing from worker w, and takes it out of
\* the waiting list only with a request.
LEMMA BrokerStillAlive ==
    ASSUME ClockInv, ClockInv', NoRound', TimedBroker,
           NEW w \in Worker, NEW i, i = Sock(w), Alive(w),
           toBroker'[i] = toBroker[i], Sent(i),
           i \in known' <=> i \in known, i \in expired' => i \in expired,
           i \in Range(waiting') => i \in Range(waiting),
           i \in Range(waiting) => i \in Range(waiting') \/ Asked(i)' # {},
           brokerPc = "heartbeat" => (i \in Range(waiting') => toPeer'[i] # <<>>)
    PROVE  Alive(w)'
<1>1. i \in Identity
  BY SockOf
<1>2. /\ workerPc' = workerPc /\ liveness' = liveness
      /\ workerPoll' = workerPoll /\ workerBeat' = workerBeat
      /\ session' = session /\ open' = open
      /\ brokerPc # "heartbeat" => BrokerDue' = BrokerDue
  BY BrokerClocks
<1>3. overdue'[In(i)] = overdue[In(i)] /\ overdue'[Out(i)] = overdue[Out(i)]
  BY <1>1, DueKept DEF TimedBroker, Sent
<1>4. expiry'[i] = expiry[i]
  BY <1>1 DEF TimedBroker
<1>5. Permitted(w)'
  <2>1. Told(i)' = Told(i)
    BY DEF Told
  <2>2. Asked(i) # {} => Asked(i)' # {}
    BY <1>1, StillAsked DEF ClockInv, SafeInv, IInv
  <2> QED BY <1>2, <2>1, <2>2 DEF Alive, Permitted
<1>6. BrokerDue' <= BrokerDue \/ (i \in Range(waiting') => toPeer'[i] # <<>>)
  <2>1. BrokerDue \in Int
    BY ClockNumbers DEF Alive
  <2> QED BY <1>2, <2>1
<1>7. i \in open'
  BY <1>2 DEF Alive, Settled
<1> QED BY <1>2, <1>3, <1>4, <1>5, <1>6, <1>7, StillAlive

\* The message of another socket: its sender is told or the client of the reply.
LEMMA OtherRead ==
    ASSUME ClockInv, NEW j \in Identity, NEW i \in Identity \ {j}, BrokerMessageIn(j)
    PROVE  /\ toBroker'[i] = toBroker[i] /\ Sent(i)
           /\ i \in known' <=> i \in known
           /\ i \in expired' => i \in expired
           /\ i \in Range(waiting') <=> i \in Range(waiting)
<1> DEFINE m == Head(toBroker[j])
<1>1. NetTypeOK /\ BrokerTypeOK /\ ListsAgree /\ waiting \in Seq(Identity)
  BY DEF ClockInv, SafeInv, IInv, BrokerInv, BrokerTypeOK, PlacesInv
<1>2. toBroker'[i] = toBroker[i]
  BY <1>1 DEF BrokerMessageIn, NetTypeOK
<1>3. \/ WorkerReady(j, m) \/ WorkerReply(j, m) \/ WorkerHeartbeat(j, m)
      \/ WorkerRefuse(j, m) \/ WorkerDisconnect(j, m)
      \/ ClientMmi(j, m) \/ ClientRequest(j, m)
  BY DEF BrokerMessageIn
<1>4. ASSUME toPeer' = toPeer PROVE Sent(i)
  BY <1>4 DEF Sent
<1>5. ASSUME NEW a, Routed(j, a) PROVE Sent(i)
  BY <1>1, <1>5 DEF Sent, Routed, NetTypeOK
<1>6. Range(Append(waiting, j)) = Range(waiting) \cup {j}
  BY <1>1, BeforeAppend
<1>7. ASSUME WorkerDelete(j)
      PROVE  /\ i \in known' <=> i \in known
             /\ i \in expired' => i \in expired
             /\ i \in Range(waiting') <=> i \in Range(waiting)
  BY <1>1, <1>7, DeleteLists DEF WorkerDelete
<1>8. CASE WorkerReady(j, m)
  BY <1>2, <1>4, <1>6, <1>8 DEF WorkerReady, WorkerWaiting
<1>9. CASE WorkerReply(j, m)
  <2>1. toBroker[j] # <<>> /\ j \in known
    BY <1>9 DEF BrokerMessageIn, WorkerReply
  <2>2. m \in PeerMessage
    BY <1>1, <2>1 DEF NetTypeOK
  <2> DEFINE a == [cmd |-> "ANSWER", svc |-> service[j], tag |-> m.tag]
  <2>3. a \in BrokerMessage /\ a.cmd # "DISCONNECT" /\ Routed(m.client, a)
    <3>1. m.cmd = "REPLY" /\ m.tag \in Tag
      BY <1>9, <2>2, PeerMessageFrames DEF WorkerReply
    <3>2. service[j] \in ServiceName
      BY <2>1 DEF ClockInv, SafeInv, IInv, BrokerInv, KnownHaveService
    <3>3. a \in Answer
      BY <3>1, <3>2 DEF Answer
    <3> QED BY <1>9, <3>3 DEF WorkerReply, BrokerMessage
  <2>4. Sent(i)
    BY <1>1, <2>3 DEF Sent, Routed, NetTypeOK
  <2> QED BY <1>2, <1>6, <1>9, <2>4 DEF WorkerReply, WorkerWaiting
<1>10. CASE WorkerHeartbeat(j, m)
  BY <1>2, <1>4, <1>10 DEF WorkerHeartbeat
<1>11. CASE WorkerRefuse(j, m)
  BY <1>2, <1>5, <1>7, <1>11 DEF WorkerRefuse
<1>12. CASE WorkerDisconnect(j, m)
  BY <1>2, <1>4, <1>7, <1>12 DEF WorkerDisconnect
<1>13. CASE ClientMmi(j, m)
  BY <1>2, <1>5, <1>13 DEF ClientMmi
<1>14. CASE ClientRequest(j, m)
  BY <1>2, <1>4, <1>14 DEF ClientRequest
<1> QED BY <1>3, <1>8, <1>9, <1>10, <1>11, <1>12, <1>13, <1>14

\* The broker knows living workers only, by their first sockets.
LEMMA KnownSockets ==
    ASSUME ClockInv, \A w \in Worker : Alive(w), NEW i \in known
    PROVE  \E w \in Worker : i = Sock(w) /\ i \in Identity
<1>1. i \in WorkerSocket
  BY DEF ClockInv, SafeInv, PlacesInv, KnownAreWorkers
<1>2. i[1] \in Worker /\ i[2] \in 1 .. MaxSession /\ i = <<i[1], i[2]>> /\ i \in Identity
  BY <1>1, Sockets DEF WorkerSocket
<1>3. session[i[1]] = 1
  BY <1>2 DEF Alive, Settled
<1>4. ~ (i[2] > 1)
  BY <1>2, <1>3 DEF ClockInv, SafeInv, PlacesInv, SocketsInOrder
<1>5. i = Sock(i[1])
  BY <1>2, <1>4, NetAssumption DEF Sock
<1> QED BY <1>2, <1>5

\* The purge finds nobody.
LEMMA NothingToPurge ==
    ASSUME ClockInv, \A w \in Worker : Alive(w)
    PROVE  Range(waiting) \cap expired = {}
<1>1. SUFFICES ASSUME NEW i \in Range(waiting) PROVE i \notin expired
  OBVIOUS
<1>2. i \in known
  BY DEF ClockInv, SafeInv, PlacesInv, ListsAgree
<1>3. PICK w \in Worker : i = Sock(w)
  BY <1>2, KnownSockets
<1> QED BY <1>3 DEF Alive, WorkerHeard

\* The steps of the loop between two messages.
LEMMA LoopAlive ==
    ASSUME ClockInv, ClockInv', NoRound', TimedBroker, \A v \in Worker : Alive(v),
           NEW w \in Worker, ~ \E j \in Identity : BrokerMessageIn(j)
    PROVE  Alive(w)'
<1> DEFINE i == Sock(w)
<1>0. i \in Identity /\ Alive(w) /\ i \in open
  BY SockOf DEF Alive, Settled
<1>1. NetTypeOK /\ BrokerTypeOK /\ ListsAgree /\ DispatchTarget /\ waiting \in Seq(Identity)
  BY DEF ClockInv, SafeInv, IInv, BrokerInv, BrokerTypeOK, PlacesInv
<1>2. ASSUME UNCHANGED <<netVars, known, expired, waiting>>, brokerPc # "heartbeat"
      PROVE  Alive(w)'
  BY <1>0, <1>2, BrokerStillAlive DEF netVars, Sent
<1>3. CASE BrokerPollTimeout
  BY <1>2, <1>3 DEF BrokerPollTimeout
<1>4. ~ PurgeHead
  <2>1. SUFFICES ASSUME waiting # <<>>, Head(waiting) \in expired PROVE FALSE
    BY DEF PurgeHead, HeadExpired
  <2>2. Head(waiting) \in Range(waiting)
    BY <1>1, <2>1 DEF Range
  <2> QED BY <2>1, <2>2, NothingToPurge
<1>5. CASE PurgeDone
  BY <1>2, <1>5 DEF PurgeDone
<1>6. CASE Dispatch
  <2> DEFINE h == Head(swaiting[current])
             r == Head(requests[current])
             q == [cmd |-> "REQUEST", client |-> r.client, tag |-> r.tag]
  <2>1. h \in Range(waiting) /\ Range(waiting') = Range(waiting) \ {h}
    BY <1>1, <1>6, DispatchLists
  <2>2. /\ brokerPc = "dispatch" /\ Routed(h, q) /\ requests[current] # <<>>
        /\ UNCHANGED <<session, open, toBroker, known, expired>>
    BY <1>6 DEF Dispatch
  <2>3. r \in Queued
    BY <1>1, <2>2 DEF DispatchTarget, BrokerTypeOK
  <2>4. q \in Request /\ q \in BrokerMessage /\ q.cmd # "DISCONNECT"
    BY <2>3 DEF Queued, Request, BrokerMessage
  <2>5. Sent(i)
    BY <1>0, <1>1, <2>2, <2>4 DEF Sent, Routed, NetTypeOK
  <2>6. i \in Range(waiting) => i \in Range(waiting') \/ Asked(i)' # {}
    <3>1. SUFFICES ASSUME i = h PROVE Asked(i)' # {}
      BY <2>1
    <3>2. toPeer'[i] = Append(toPeer[i], q) /\ toPeer[i] \in Seq(BrokerMessage)
      <4>1. Routed(i, q)
        BY <2>2, <3>1
      <4> HIDE DEF q, i
      <4> QED BY <1>0, <1>1, <4>1 DEF Routed, NetTypeOK
    <3>3. Spots(Append(toPeer[i], q), Request) # {}
      <4> HIDE DEF q, i
      <4>1. Spots(Append(toPeer[i], q), Request) =
              Spots(toPeer[i], Request) \cup (IF q \in Request THEN {Len(toPeer[i]) + 1} ELSE {})
        BY <2>4, <3>2, SpotsAppend
      <4> QED BY <2>4, <4>1
    <3> QED BY <3>2, <3>3 DEF Asked
  <2> QED BY <1>0, <2>1, <2>2, <2>5, <2>6, BrokerStillAlive
<1>7. CASE DispatchDone
  BY <1>2, <1>7 DEF DispatchDone
<1>8. CASE HeartbeatRound
  <2>1. /\ UNCHANGED <<session, open, toBroker, known, expired, waiting>>
        /\ toPeer'[i] = IF i \in Range(waiting) \cap open /\ Len(toPeer[i]) < MaxInFlight
                        THEN Append(toPeer[i], Heartbeat) ELSE toPeer[i]
    BY <1>0, <1>8 DEF HeartbeatRound
  <2>2. Heartbeat \in BrokerMessage /\ Heartbeat.cmd # "DISCONNECT"
    BY DEF BrokerMessage, Heartbeat
  <2>3. Sent(i)
    BY <2>1, <2>2 DEF Sent
  <2>4. i \in Range(waiting') => toPeer'[i] # <<>>
    <3>1. toPeer[i] \in Seq(BrokerMessage) /\ MaxInFlight > 0
      BY <1>0, <1>1, NetAssumption DEF NetTypeOK
    <3>2. toPeer[i] = <<>> => Len(toPeer[i]) = 0
      OBVIOUS
    <3>3. Append(toPeer[i], Heartbeat) # <<>>
      BY <2>2, <3>1
    <3> HIDE DEF i
    <3> QED BY <1>0, <2>1, <3>1, <3>2, <3>3
  <2> QED BY <1>0, <2>1, <2>3, <2>4, BrokerStillAlive
<1> QED BY <1>3, <1>4, <1>5, <1>6, <1>7, <1>8 DEF TimedBroker, BrokerStep, BrokerNext

\* What the message of worker w itself does to the broker: a READY or a REPLY
\* brings its socket into the waiting list, a HEARTBEAT does not.
OwnRead(w, i, m) ==
    /\ toBroker[i] # <<>> /\ m = Head(toBroker[i])
    /\ toBroker'[i] = Tail(toBroker[i])
    /\ m \in FromWorker(w)
    /\ m.cmd \in {"READY", "REPLY", "HEARTBEAT"}
    /\ m.cmd = "READY" <=> i \notin known
    /\ i \in known' /\ i \notin expired'
    /\ Sent(i)
    /\ m.cmd = "HEARTBEAT" => (i \in Range(waiting') <=> i \in Range(waiting))
    /\ m.cmd # "HEARTBEAT" => i \in Range(waiting')

LEMMA OwnReadIs ==
    ASSUME ClockInv, NEW w \in Worker, Settled(w), Greeted(w),
           NEW i, i = Sock(w), BrokerMessageIn(i)
    PROVE  OwnRead(w, i, Head(toBroker[i]))
<1> DEFINE m == Head(toBroker[i])
<1>1. NetTypeOK /\ BrokerTypeOK /\ ListsAgree /\ waiting \in Seq(Identity) /\ i \in Identity
  BY SockOf DEF ClockInv, SafeInv, IInv, BrokerInv, BrokerTypeOK, PlacesInv
<1>2. toBroker[i] # <<>> /\ toBroker'[i] = Tail(toBroker[i])
  BY <1>1 DEF BrokerMessageIn, NetTypeOK
<1>3. /\ toBroker[i] \in Seq(FromWorker(w)) /\ toBroker[i] \in Seq(PeerMessage)
      /\ Len(toBroker[i]) \in Nat
  BY ClockNumbers
<1>4. m = toBroker[i][1] /\ 1 \in 1 .. Len(toBroker[i])
  BY <1>2, <1>3
<1>5. m \in FromWorker(w) /\ m \in PeerMessage
  BY <1>2, <1>3
<1>6. m.cmd \in {"READY", "REPLY", "HEARTBEAT", "DISCONNECT"}
  BY <1>5 DEF FromWorker, Greeting, Reply, Heartbeat, Disconnect
<1>7. m.cmd # "DISCONNECT"
  BY <1>4 DEF Settled
<1>8. m.cmd = "READY" <=> i \notin known
  BY <1>4 DEF Greeted
<1>9. WorkerReady(i, m) \/ WorkerReply(i, m) \/ WorkerHeartbeat(i, m)
  BY <1>6, <1>7, <1>8 DEF BrokerMessageIn, WorkerRefuse, WorkerDisconnect, ClientMmi,
                          ClientRequest
<1>10. Range(Append(waiting, i)) = Range(waiting) \cup {i}
  BY <1>1, BeforeAppend
<1>11. CASE WorkerReady(i, m)
  <2>1. toPeer' = toPeer /\ m.cmd = "READY" /\ i \in known' /\ i \notin expired'
        /\ waiting' = Append(waiting, i)
    BY <1>11 DEF WorkerReady, WorkerWaiting
  <2> QED BY <1>2, <1>5, <1>8, <1>10, <2>1 DEF OwnRead, Sent
<1>12. CASE WorkerReply(i, m)
  <2> DEFINE a == [cmd |-> "ANSWER", svc |-> service[i], tag |-> m.tag]
  <2>1. /\ m.cmd = "REPLY" /\ i \in known /\ i \in known' /\ i \notin expired'
        /\ waiting' = Append(waiting, i) /\ Routed(m.client, a)
    BY <1>12 DEF WorkerReply, WorkerWaiting
  <2>2. a \in BrokerMessage /\ a.cmd # "DISCONNECT"
    <3>1. m.tag \in Tag
      BY <1>5, <2>1, PeerMessageFrames
    <3>2. service[i] \in ServiceName
      BY <2>1 DEF ClockInv, SafeInv, IInv, BrokerInv, KnownHaveService
    <3>3. a \in Answer
      BY <3>1, <3>2 DEF Answer
    <3> QED BY <3>3 DEF BrokerMessage
  <2>3. Sent(i)
    BY <1>1, <2>1, <2>2 DEF Sent, Routed, NetTypeOK
  <2> QED BY <1>2, <1>5, <1>10, <2>1, <2>3 DEF OwnRead
<1>13. CASE WorkerHeartbeat(i, m)
  <2>1. toPeer' = toPeer /\ m.cmd = "HEARTBEAT" /\ i \in known /\ i \in known'
        /\ i \notin expired' /\ waiting' = waiting
    BY <1>13 DEF WorkerHeartbeat
  <2> QED BY <1>2, <1>5, <2>1 DEF OwnRead, Sent
<1> QED BY <1>9, <1>11, <1>12, <1>13

\* The permission moves up by one place when a HEARTBEAT is read before it, and
\* is gone when it is read itself.
LEMMA ToldRead ==
    ASSUME NEW w \in Worker, NEW i, NEW m, OwnRead(w, i, m),
           toBroker[i] \in Seq(FromWorker(w)), AtMostOne(Told(i))
    PROVE  /\ Told(i) \subseteq 1 .. Len(toBroker[i])
           /\ m.cmd = "HEARTBEAT" => /\ 1 \notin Told(i)
                                     /\ \A k \in Told(i) : k - 1 \in Told(i)'
           /\ m.cmd # "HEARTBEAT" => 1 \in Told(i) /\ Told(i)' = {}
           /\ \A k \in Told(i)' : k + 1 \in Told(i)
           /\ m.cmd = "READY" => \A k \in 1 .. Len(toBroker'[i]) : toBroker'[i][k].cmd # "READY"
<1>1. /\ Len(toBroker[i]) \in Nat \ {0} /\ Len(toBroker'[i]) = Len(toBroker[i]) - 1
      /\ \A k \in 1 .. Len(toBroker'[i]) : toBroker'[i][k] = toBroker[i][k + 1]
      /\ m = toBroker[i][1]
  BY HeadTailProperties, EmptySeq DEF OwnRead
<1>2. \A a \in FromWorker(w) : a \in Ready \cup Reply <=> a.cmd \in {"READY", "REPLY"}
  <2>1. Greeting(w) \in Ready
    BY WorkerAssumption DEF Greeting, Ready
  <2> QED BY <2>1 DEF FromWorker, Greeting, Reply, Ready, Heartbeat, Disconnect
<1>3. \A k \in 1 .. Len(toBroker'[i]) : k + 1 \in Told(i) <=> k \in Told(i)'
  BY <1>1 DEF Told, Spots
<1>4. Told(i)' \subseteq 1 .. Len(toBroker'[i]) /\ Told(i) \subseteq 1 .. Len(toBroker[i])
  BY DEF Told, Spots
<1>5. \A k \in Told(i)' : k + 1 \in Told(i)
  BY <1>3, <1>4
<1>6. 1 \in Told(i) <=> m.cmd # "HEARTBEAT"
  <2>1. 1 \in Told(i) <=> m \in Ready \cup Reply
    BY <1>1 DEF Told, Spots
  <2> QED BY <1>2, <2>1 DEF OwnRead
<1>7. ASSUME NEW k \in Told(i), 1 \notin Told(i)
      PROVE  k - 1 \in Told(i)'
  <2>1. k \in Int /\ k - 1 \in 1 .. Len(toBroker'[i])
    BY <1>1, <1>4, <1>7
  <2> QED BY <1>3, <2>1
<1>8. 1 \in Told(i) => Told(i)' = {}
  <2>1. SUFFICES ASSUME 1 \in Told(i), NEW k \in Told(i)' PROVE FALSE
    OBVIOUS
  <2>2. k + 1 \in Told(i) /\ k \in Nat \ {0}
    BY <1>1, <1>4, <1>5
  <2> QED BY <2>1, <2>2 DEF AtMostOne
<1>9. m.cmd = "READY" => \A k \in 1 .. Len(toBroker'[i]) : toBroker'[i][k].cmd # "READY"
  <2>1. SUFFICES ASSUME m.cmd = "READY", NEW k \in 1 .. Len(toBroker'[i]) 
                 PROVE  toBroker'[i][k].cmd # "READY"
    OBVIOUS
  <2>2. Told(i)' = {}
    BY <1>6, <1>8, <2>1
  <2>3. toBroker'[i][k] \in FromWorker(w) /\ toBroker'[i][k] \notin Ready \cup Reply
    <3>1. toBroker'[i][k] \in FromWorker(w)
      BY <1>1
    <3> QED BY <2>2, <3>1 DEF Told, Spots
  <2> QED BY <1>2, <2>3
<1> QED BY <1>4, <1>5, <1>6, <1>7, <1>8, <1>9

\* What the two livenesses must bear, in the form in which it is used.
LEMMA TimelyNumbers ==
    ASSUME Timely
    PROVE  /\ 2 * Interval + MaxDelay < Expiry
           /\ Expiry \in Nat
           /\ Liveness * Interval \in Nat
           /\ 2 * Interval + 2 * MaxDelay < Liveness * Interval
           /\ (Liveness - 1) * Interval + Interval = Liveness * Interval
<1>1. /\ Interval \in Nat \ {0} /\ MaxDelay \in {0, 1} /\ Liveness \in Nat \ {0}
      /\ BrokerLiveness \in Nat
  BY ClockAssumption, WorkerAssumption
<1>2. \A a, b \in Nat : a * b = b * a /\ a * b \in Nat /\ (a - 1) * b + b = a * b
  OBVIOUS
<1>3. Expiry = BrokerLiveness * Interval /\ Expiry \in Nat
  BY <1>1, <1>2 DEF Expiry
<1>4. Liveness * Interval \in Nat /\ (Liveness - 1) * Interval + Interval = Liveness * Interval
  BY <1>1, <1>2
<1>5. 2 * (Interval + MaxDelay) = 2 * Interval + 2 * MaxDelay
  BY <1>1
<1> QED BY <1>3, <1>4, <1>5 DEF Timely

\* The broker reads a message of worker w: it now waits for the next one for a
\* whole expiry, and a worker just made idle waits for the next round.
LEMMA ReadAlive ==
    ASSUME ClockInv, ClockInv', NoRound', Timely, TimedBroker,
           NEW w \in Worker, Alive(w), BrokerMessageIn(Sock(w))
    PROVE  Alive(w)'
<1> PICK i : i = Sock(w)
  OBVIOUS
<1> PICK m : m = Head(toBroker[i])
  OBVIOUS
<1>1. i \in Identity /\ i \in WorkerSocket
  BY SockOf
<1>2. Settled(w) /\ Greeted(w) /\ Permitted(w) /\ BrokerHeard(w) /\ WorkerHeard(w)
  BY DEF Alive
<1>3. OwnRead(w, i, m)
  BY <1>2, OwnReadIs
<1>4. /\ workerPc' = workerPc /\ liveness' = liveness /\ held' = held
      /\ workerPoll' = workerPoll /\ workerBeat' = workerBeat
      /\ session' = session /\ open' = open /\ BrokerDue' = BrokerDue
  BY BrokerClocks DEF BrokerMessageIn
<1>5. /\ Interval \in Nat \ {0} /\ MaxDelay \in {0, 1}
      /\ BrokerDue \in 0 .. 2 * Interval
      /\ workerPc[w] = "recv" => WorkerDue(w) \in 0 .. 2 * Interval
      /\ Patience(w) \in Int /\ Expiry \in Nat
      /\ overdue[In(i)] \in 0 .. Len(toBroker[i])
      /\ overdue[Out(i)] \in 0 .. Len(toPeer[i])
      /\ toBroker[i] \in Seq(PeerMessage) /\ toPeer[i] \in Seq(BrokerMessage)
      /\ toBroker[i] \in Seq(FromWorker(w)) /\ Conn(w) = i
  BY <1>2, ClockNumbers
<1>6. /\ overdue'[In(i)] = IF overdue[In(i)] > 0 THEN overdue[In(i)] - 1 ELSE 0
      /\ overdue'[Out(i)] = overdue[Out(i)]
  BY <1>1, <1>3, DueKept, DueTaken DEF TimedBroker, OwnRead, Sent
<1>7. /\ Len(toBroker[i]) \in Nat \ {0} /\ Len(toBroker'[i]) = Len(toBroker[i]) - 1
      /\ \A k \in 1 .. Len(toBroker'[i]) : /\ toBroker'[i][k] = toBroker[i][k + 1]
                                           /\ k + 1 \in 1 .. Len(toBroker[i])
      /\ m = toBroker[i][1]
  BY <1>3, <1>5, HeadTailProperties, EmptySeq DEF OwnRead
<1>8. expiry'[i] = Expiry
  <2>1. toBroker'[i] # toBroker[i]
    BY <1>7
  <2> QED BY <1>1, <1>3, <2>1 DEF TimedBroker, OwnRead
<1>9. Permit(i) /\ Permit(i)'
  BY <1>1 DEF ClockInv, SafeInv, PlacesInv, Permits
<1>10. /\ Told(i) \subseteq 1 .. Len(toBroker[i])
       /\ m.cmd = "HEARTBEAT" => 1 \notin Told(i) /\ \A k \in Told(i) : k - 1 \in Told(i)'
       /\ m.cmd # "HEARTBEAT" => 1 \in Told(i) /\ Told(i)' = {}
       /\ \A k \in Told(i)' : k + 1 \in Told(i)
       /\ m.cmd = "READY" => \A k \in 1 .. Len(toBroker'[i]) : toBroker'[i][k].cmd # "READY"
  BY <1>3, <1>5, <1>9, ToldRead DEF Permit
<1>11. Patience(w)' = Patience(w) /\ WorkerDue(w)' = WorkerDue(w)
  BY <1>4 DEF Patience, WorkerDue
<1>12. Settled(w)'
  <2>1. ASSUME NEW k \in 1 .. Len(toBroker'[i])
        PROVE  toBroker'[i][k].cmd # "DISCONNECT"
    BY <1>2, <1>7 DEF Settled
  <2>2. ASSUME NEW k \in 1 .. Len(toPeer'[i])
        PROVE  toPeer'[i][k].cmd # "DISCONNECT"
    <3>1. CASE toPeer'[i] = toPeer[i]
      BY <1>2, <3>1 DEF Settled
    <3>2. ASSUME NEW a \in BrokerMessage, a.cmd # "DISCONNECT", toPeer'[i] = Append(toPeer[i], a)
          PROVE  toPeer'[i][k].cmd # "DISCONNECT"
      BY <1>2, <1>5, <3>2 DEF Settled
    <3> QED BY <1>3, <3>1, <3>2 DEF OwnRead, Sent
  <2> QED BY <1>2, <1>4, <2>1, <2>2 DEF Settled
<1>13. Greeted(w)'
  <2>1. ASSUME NEW k \in 1 .. Len(toBroker'[i])
        PROVE  toBroker'[i][k].cmd # "READY"
    <3>1. CASE m.cmd = "READY"
      BY <1>10, <3>1
    <3>2. CASE m.cmd # "READY"
      BY <1>2, <1>3, <1>7, <3>2 DEF Greeted, OwnRead
    <3> QED BY <3>1, <3>2
  <2> QED BY <1>3, <2>1 DEF Greeted, OwnRead
<1>14. Permitted(w)'
  <2>1. SUFFICES ASSUME workerPc[w] = "recv", i \notin Range(waiting')
                 PROVE  Told(i)' # {} \/ Asked(i)' # {}
    BY <1>4 DEF Permitted
  <2>2. m.cmd = "HEARTBEAT" /\ i \notin Range(waiting)
    BY <1>3, <2>1 DEF OwnRead
  <2>3. CASE Told(i) # {}
    BY <1>10, <2>2, <2>3
  <2>4. CASE Asked(i) # {}
    BY <1>1, <1>3, <2>4, StillAsked DEF OwnRead, ClockInv, SafeInv, IInv
  <2> QED BY <1>2, <2>1, <2>2, <2>3, <2>4 DEF Permitted
<1>15. BrokerHeard(w)'
  <2>1. SUFFICES ASSUME workerPc[w] = "recv" PROVE BrokerHeard(w)'
    BY <1>4 DEF BrokerHeard
  <2>2. Patience(w) > 0
    BY <1>2, <2>1 DEF BrokerHeard
  <2>3. toPeer'[i] # <<>> => Patience(w) > Delay(Out(i), 1)'
    <3>1. Delay(Out(i), 1)' = Delay(Out(i), 1) /\ Delay(Out(i), 1) \in {0, MaxDelay}
      BY <1>6 DEF Delay, Out
    <3>2. CASE toPeer[i] # <<>>
      BY <1>2, <2>1, <3>1, <3>2 DEF BrokerHeard
    <3>3. CASE toPeer[i] = <<>>
      <4>1. Patience(w) > MaxDelay
        BY <2>1, <3>3, TimeLeft
      <4> QED BY <1>5, <2>2, <3>1, <4>1
    <3> QED BY <3>2, <3>3
  <2>4. ASSUME toPeer'[i] = <<>>
        PROVE  /\ i \in Range(waiting') => Patience(w) > BrokerDue' + MaxDelay
               /\ \A k \in Told(i)' : Patience(w) > Delay(In(i), k)' + 2 * Interval + MaxDelay
    <3>1. toPeer[i] = <<>>
      BY <1>3, <1>5, <2>4 DEF OwnRead, Sent
    <3>2. \A k \in Told(i) : Patience(w) > Delay(In(i), k) + 2 * Interval + MaxDelay
      BY <1>2, <2>1, <3>1 DEF BrokerHeard
    <3>3. ASSUME i \in Range(waiting')
          PROVE  Patience(w) > BrokerDue' + MaxDelay
      <4>1. CASE m.cmd = "HEARTBEAT"
        BY <1>2, <1>3, <1>4, <2>1, <3>1, <3>3, <4>1 DEF BrokerHeard, OwnRead
      <4>2. CASE m.cmd # "HEARTBEAT"
        <5>1. Patience(w) > Delay(In(i), 1) + 2 * Interval + MaxDelay
          BY <1>10, <3>2, <4>2
        <5>2. Delay(In(i), 1) \in {0, MaxDelay}
          BY DEF Delay
        <5> QED BY <1>4, <1>5, <5>1, <5>2
      <4> QED BY <4>1, <4>2
    <3>4. ASSUME NEW k \in Told(i)'
          PROVE  Patience(w) > Delay(In(i), k)' + 2 * Interval + MaxDelay
      <4>1. k + 1 \in Told(i) /\ k + 1 \in 1 .. Len(toBroker[i]) /\ k \in 1 .. Len(toBroker'[i])
        BY <1>10 DEF Told, Spots
      <4>2. Delay(In(i), k)' = Delay(In(i), k + 1)
        <5>1. k \in Nat \ {0} /\ overdue[In(i)] \in Nat
          BY <1>5, <1>7, <4>1
        <5>2. k <= overdue'[In(i)] <=> k + 1 <= overdue[In(i)]
          BY <1>6, <5>1
        <5> QED BY <5>2 DEF Delay, In
      <4> QED BY <3>2, <4>1, <4>2
    <3> QED BY <3>3, <3>4
  <2> QED BY <1>4, <1>11, <2>1, <2>2, <2>3, <2>4 DEF BrokerHeard
<1>16. WorkerHeard(w)'
  <2>1. SUFFICES ASSUME i \in Range(waiting') PROVE WorkerHeard(w)'
    BY DEF WorkerHeard
  <2>2. workerPc[w] = "recv"
    <3>1. ~ Busy(i)'
      BY <1>9, <2>1 DEF Permit
    <3>2. Conn(w)' = i
      BY <1>4, <1>5 DEF Conn
    <3>3. held[w] = Nothing
      BY <1>4, <3>1, <3>2 DEF Busy
    <3>4. workerPc[w] # "app"
      BY <3>3 DEF ClockInv, SafeInv, IInv, WorkerInv, BusyHolds
    <3> QED BY <1>2, <3>4 DEF Settled
  <2>3. Expiry > 2 * Interval + MaxDelay
    BY <1>5, TimelyNumbers
  <2>4. Delay(In(i), 1)' \in {0, MaxDelay}
    BY DEF Delay
  <2>5. Expiry > Delay(In(i), 1)' /\ Expiry > WorkerDue(w) + MaxDelay
    BY <1>5, <2>2, <2>3, <2>4
  <2> QED BY <1>3, <1>8, <1>11, <2>5 DEF WorkerHeard, OwnRead
<1> QED BY <1>12, <1>13, <1>14, <1>15, <1>16 DEF Alive

LEMMA BrokerAlive ==
    ASSUME ClockInv, ClockInv', NoRound', Timely, TimedBroker, \A v \in Worker : Alive(v),
           NEW w \in Worker
    PROVE  Alive(w)'
<1>1. CASE ~ \E j \in Identity : BrokerMessageIn(j)
  BY <1>1, LoopAlive
<1>2. CASE BrokerMessageIn(Sock(w))
  BY <1>2, ReadAlive
<1>3. ASSUME NEW j \in Identity, j # Sock(w), BrokerMessageIn(j)
      PROVE  Alive(w)'
  <2>1. Sock(w) \in Identity \ {j} /\ brokerPc # "heartbeat"
    BY <1>3, SockOf DEF BrokerMessageIn
  <2> QED BY <1>3, <2>1, OtherRead, BrokerStillAlive
<1> QED BY <1>1, <1>2, <1>3

(* The steps of the peers. *)

\* A peer's step leaves the sockets of the others alone.
Undisturbed(i) ==
    /\ toBroker'[i] = toBroker[i] /\ toPeer'[i] = toPeer[i]
    /\ session'[i[1]] = session[i[1]]
    /\ i \in open => i \in open'

LEMMA NetElsewhere ==
    ASSUME NetTypeOK, NEW p \in Peer, NEW i \in Identity, i[1] # p, NEW m
    PROVE  /\ Send(p, m) => toBroker'[i] = toBroker[i]
           /\ Take(p) => toPeer'[i] = toPeer[i]
           /\ Reopen(p, m) => Undisturbed(i)
<1>1. Conn(p) # i /\ i[1] \in Peer /\ session[p] \in Nat
  BY ConnOf, Sockets
<1>2. Send(p, m) => toBroker'[i] = toBroker[i]
  BY <1>1 DEF Send, NetTypeOK
<1>3. Take(p) => toPeer'[i] = toPeer[i]
  BY <1>1 DEF Take, NetTypeOK
<1>4. ASSUME Reopen(p, m)
      PROVE  Undisturbed(i)
  <2> DEFINE fresh == <<p, session[p] + 1>>
  <2>1. fresh # i
    OBVIOUS
  <2>2. PICK k \in 0 .. Len(toBroker[Conn(p)]) :
          toBroker' = [toBroker EXCEPT ![Conn(p)] = SubSeq(@, 1, k), ![fresh] = <<m>>]
    BY <1>4 DEF Reopen
  <2>3. /\ session' = [session EXCEPT ![p] = @ + 1]
        /\ open' = (open \ {Conn(p)}) \cup {fresh}
        /\ toPeer' = [toPeer EXCEPT ![Conn(p)] = <<>>]
    BY <1>4 DEF Reopen
  <2>4. toBroker'[i] = toBroker[i]
    BY <1>1, <2>1, <2>2 DEF NetTypeOK
  <2>5. toPeer'[i] = toPeer[i] /\ session'[i[1]] = session[i[1]]
    BY <1>1, <2>3 DEF NetTypeOK
  <2> QED BY <1>1, <2>3, <2>4, <2>5 DEF Undisturbed
<1> QED BY <1>2, <1>3, <1>4

LEMMA OthersUndisturbed ==
    ASSUME NetTypeOK, NEW w \in Worker, NEW i, i = Sock(w)
    PROVE  /\ \A v \in Worker \ {w} :
                WorkerNext(v) \/ WorkerStart(v) \/ WorkerGiveUp(v) => Undisturbed(i)
           /\ \A c \in Client : ClientNext(c) => Undisturbed(i)
<1>1. i \in Identity /\ i[1] = w /\ \A p \in Peer \ {w} : i[1] # p
  BY SockOf
<1>2. /\ \A v \in Worker \ {w} : v \in Peer \ {w}
      /\ \A c \in Client : c \in Peer \ {w}
  BY NetAssumption DEF Peer
<1>3. ASSUME UNCHANGED <<session, open, toPeer>>, NEW p \in Peer \ {w},
             toBroker' = toBroker \/ \E m : Send(p, m)
      PROVE  Undisturbed(i)
  BY <1>1, <1>3, NetElsewhere DEF Undisturbed
<1>4. ASSUME UNCHANGED <<session, open>>, NEW p \in Peer \ {w}, Take(p),
             toBroker' = toBroker \/ \E m : Send(p, m)
      PROVE  Undisturbed(i)
  BY <1>1, <1>4, NetElsewhere DEF Undisturbed
<1>5. ASSUME NEW v \in Worker \ {w}, WorkerNext(v) \/ WorkerStart(v) \/ WorkerGiveUp(v)
      PROVE  Undisturbed(i)
  <2>1. CASE WorkerTakeRequest(v) \/ WorkerTakeHeartbeat(v)
    BY <1>2, <1>4, <2>1 DEF WorkerTakeRequest, WorkerTakeHeartbeat, MaybeHeartbeat
  <2>2. CASE WorkerPollTimeout(v) \/ WorkerSendReply(v) \/ WorkerGiveUp(v)
    BY <1>2, <1>3, <2>2 DEF WorkerPollTimeout, WorkerSendReply, WorkerGiveUp, MaybeHeartbeat,
                            netVars
  <2>3. CASE WorkerTakeDisconnect(v) \/ WorkerReconnect(v) \/ WorkerStart(v)
    <3>1. Reopen(v, Greeting(v))
      BY <2>3 DEF WorkerTakeDisconnect, WorkerReconnect, WorkerStart, Connect
    <3> QED BY <1>1, <1>2, <3>1, NetElsewhere
  <2> QED BY <1>5, <2>1, <2>2, <2>3 DEF WorkerNext
<1>6. ASSUME NEW c \in Client, ClientNext(c)
      PROVE  Undisturbed(i)
  <2>1. CASE ClientCall(c)
    BY <1>2, <1>3, <2>1 DEF ClientCall
  <2>2. CASE ClientReply(c)
    BY <1>2, <1>4, <2>2 DEF ClientReply
  <2>3. CASE ClientRetry(c)
    <3>1. Reopen(c, call[c])
      BY <2>3 DEF ClientRetry
    <3> QED BY <1>1, <1>2, <3>1, NetElsewhere
  <2>4. CASE ClientAbandon(c)
    BY <2>4 DEF ClientAbandon, netVars, Undisturbed
  <2> QED BY <1>6, <2>1, <2>2, <2>3, <2>4 DEF ClientNext
<1> QED BY <1>5, <1>6

\* So nothing changes for worker w.
LEMMA ElsewhereAlive ==
    ASSUME ClockInv, ClockInv', NEW w \in Worker, NEW i, i = Sock(w), Alive(w),
           Undisturbed(i), Delivered,
           UNCHANGED <<known, expired, waiting, brokerPoll, brokerBeat, expiry>>,
           workerPc'[w] = workerPc[w], liveness'[w] = liveness[w],
           workerPoll'[w] = workerPoll[w], workerBeat'[w] = workerBeat[w]
    PROVE  Alive(w)'
<1>1. i \in Identity /\ i[1] = w /\ Settled(w)
  BY SockOf DEF Alive
<1>2. overdue'[In(i)] = overdue[In(i)] /\ overdue'[Out(i)] = overdue[Out(i)]
  BY <1>1, DueKept DEF Undisturbed
<1>3. Permitted(w)'
  BY DEF Alive, Permitted, Undisturbed, Told, Asked
<1>4. BrokerDue' <= BrokerDue
  <2>1. BrokerDue' = BrokerDue
    BY DEF BrokerDue
  <2>2. BrokerDue \in Int
    BY <1>1, ClockNumbers
  <2> QED BY <2>1, <2>2
<1>5. /\ session'[w] = session[w] /\ i \in open' /\ Sent(i)
      /\ toBroker'[i] = toBroker[i]
  BY <1>1 DEF Undisturbed, Settled, Sent
<1> QED BY <1>2, <1>3, <1>4, <1>5, StillAlive

\* What mdwrk_recv does at the end of its loop: it polls again for a whole
\* interval, and either sends its heartbeat or had time until heartbeat_at.
LEMMA LoopedWorker ==
    ASSUME ClockInv, NEW w \in Worker, NEW i, i = Sock(w), Settled(w), TimedWorker(w),
           workerPc[w] = "recv", UNCHANGED <<workerPc, session>>, MaybeHeartbeat(w)
    PROVE  /\ workerPoll'[w] = Interval
           /\ \/ /\ toBroker'[i] = Append(toBroker[i], Heartbeat)
              \/ /\ toBroker'[i] = toBroker[i]
                 /\ workerBeat[w] >= 0 /\ workerBeat'[w] = workerBeat[w]
<1>1. Conn(w) = i /\ i \in Identity /\ toBroker[i] \in Seq(PeerMessage)
  BY ClockNumbers, SockOf
<1>2. \/ toBroker'[i] = Append(toBroker[i], Heartbeat)
      \/ toBroker'[i] = toBroker[i]
  BY <1>1 DEF MaybeHeartbeat, Send, ClockInv, SafeInv, IInv, NetTypeOK
<1>3. workerPoll'[w] = Interval
  BY DEF TimedWorker, Pause, ClockInv, ClockTypeOK
<1>4. CASE toBroker'[i] = toBroker[i]
  <2>1. workerBeat[w] >= 0 /\ workerBeat' = [workerBeat EXCEPT ![w] = workerBeat[w]]
    BY <1>1, <1>4 DEF TimedWorker
  <2> QED BY <1>3, <1>4, <2>1 DEF ClockInv, ClockTypeOK
<1> QED BY <1>2, <1>3, <1>4

\* The worker's own loop keeps it heard by the broker.
LEMMA LoopedHeard ==
    ASSUME ClockInv, ClockInv', NEW w \in Worker, NEW i, i = Sock(w), Settled(w), WorkerHeard(w),
           workerPc[w] = "recv", overdue'[In(i)] = overdue[In(i)],
           UNCHANGED <<expired, waiting, expiry>>,
           \/ toBroker'[i] = Append(toBroker[i], Heartbeat)
           \/ /\ toBroker'[i] = toBroker[i]
              /\ workerBeat[w] >= 0 /\ workerBeat'[w] = workerBeat[w]
    PROVE  WorkerHeard(w)'
<1>1. SUFFICES ASSUME i \in Range(waiting) PROVE WorkerHeard(w)'
  BY DEF WorkerHeard
<1>2. /\ i \notin expired
      /\ toBroker[i] # <<>> => expiry[i] > Delay(In(i), 1)
      /\ toBroker[i] = <<>> => expiry[i] > WorkerDue(w) + MaxDelay
  BY <1>1 DEF WorkerHeard
<1>3. /\ MaxDelay \in {0, 1} /\ WorkerDue(w) \in 0 .. 2 * Interval /\ Interval \in Nat
      /\ expiry[i] \in 0 .. Expiry /\ Expiry \in Nat
      /\ toBroker[i] \in Seq(PeerMessage)
  BY ClockNumbers
<1>4. Delay(In(i), 1)' = Delay(In(i), 1) /\ Delay(In(i), 1) \in {0, MaxDelay}
  BY DEF Delay, In
<1>5. CASE toBroker'[i] = Append(toBroker[i], Heartbeat)
  <2>1. toBroker'[i] # <<>>
    BY <1>3, <1>5
  <2>2. expiry[i] > Delay(In(i), 1)
    BY <1>2, <1>3, <1>4
  <2> QED BY <1>2, <1>4, <2>1, <2>2 DEF WorkerHeard
<1>6. CASE /\ toBroker'[i] = toBroker[i]
           /\ workerBeat[w] >= 0 /\ workerBeat'[w] = workerBeat[w]
  <2>1. WorkerDue(w)' = WorkerDue(w)
    BY <1>6 DEF WorkerDue
  <2> QED BY <1>2, <1>4, <1>6, <2>1 DEF WorkerHeard
<1> QED BY <1>5, <1>6

\* With all its attempts left and a whole poll before it, a worker has time
\* for everything the broker may need.
LEMMA FreshPatience ==
    ASSUME ClockInv, ClockInv', Timely, NEW w \in Worker, NEW i, i = Sock(w), Settled(w),
           UNCHANGED <<brokerPoll, brokerBeat>>,
           liveness'[w] = Liveness, workerPoll'[w] = Interval
    PROVE  BrokerHeard(w)'
<1>1. /\ Interval \in Nat \ {0} /\ MaxDelay \in {0, 1} /\ Liveness \in Nat \ {0}
      /\ BrokerDue \in 0 .. 2 * Interval
  BY ClockNumbers
<1>2. Patience(w)' = Liveness * Interval
  BY TimelyNumbers DEF Patience
<1>3. /\ Liveness * Interval > 2 * Interval + 2 * MaxDelay
      /\ Liveness * Interval \in Nat
  BY <1>1, TimelyNumbers
<1>4. BrokerDue' = BrokerDue
  BY DEF BrokerDue
<1>5. /\ \A k : Delay(In(i), k)' \in {0, MaxDelay}
      /\ Delay(Out(i), 1)' \in {0, MaxDelay}
  BY DEF Delay
<1> PICK p : p = Liveness * Interval
  OBVIOUS
<1>6. \A d \in {0, MaxDelay} : /\ p > 0 /\ p > d
                               /\ p > BrokerDue + MaxDelay
                               /\ p > d + 2 * Interval + MaxDelay
  BY <1>1, <1>3
<1> QED BY <1>2, <1>4, <1>5, <1>6 DEF BrokerHeard

\* Its requests wait behind the message that is taken.
LEMMA AskedLater ==
    ASSUME NetTypeOK, NEW i \in Identity, toPeer[i] # <<>>, Head(toPeer[i]).cmd # "REQUEST",
           toPeer'[i] = Tail(toPeer[i]), Asked(i) # {}
    PROVE  Asked(i)' # {}
<1>1. PICK k \in 1 .. Len(toPeer[i]) : toPeer[i][k] \in Request
  BY DEF Asked, Spots
<1>2. /\ Len(toPeer[i]) \in Nat \ {0} /\ Len(toPeer'[i]) = Len(toPeer[i]) - 1
      /\ \A n \in 1 .. Len(toPeer'[i]) : toPeer'[i][n] = toPeer[i][n + 1]
      /\ Head(toPeer[i]) = toPeer[i][1]
  BY HeadTailProperties, EmptySeq DEF NetTypeOK
<1>3. k # 1
  BY <1>1, <1>2 DEF Request
<1>4. k - 1 \in 1 .. Len(toPeer'[i]) /\ toPeer'[i][k - 1] = toPeer[i][k]
  BY <1>2, <1>3
<1> QED BY <1>1, <1>4 DEF Asked, Spots

\* A step of worker w itself.
LEMMA OwnAlive ==
    ASSUME ClockInv, ClockInv', Timely, NEW w \in Worker, Alive(w), TimedWorker(w)
    PROVE  Alive(w)'
<1> PICK i : i = Sock(w)
  OBVIOUS
<1>1. i \in Identity /\ i \in WorkerSocket
  BY SockOf
<1>2. Settled(w) /\ Greeted(w) /\ Permitted(w) /\ BrokerHeard(w) /\ WorkerHeard(w)
  BY DEF Alive
<1>3. /\ Interval \in Nat \ {0} /\ MaxDelay \in {0, 1}
      /\ BrokerDue \in 0 .. 2 * Interval
      /\ Patience(w) \in Int /\ liveness[w] \in 0 .. Liveness
      /\ workerPoll[w] \in Nat /\ workerBeat[w] \in -1 .. Interval
      /\ toBroker[i] \in Seq(PeerMessage) /\ toPeer[i] \in Seq(BrokerMessage)
      /\ Conn(w) = i
  BY <1>2, ClockNumbers
<1>4. NetTypeOK /\ WorkerTypeOK /\ BusyHolds /\ Permit(i) /\ Permit(i)' /\ PlacesInv
  BY <1>1 DEF ClockInv, SafeInv, IInv, WorkerInv, PlacesInv, Permits
<1>5. UNCHANGED <<known, expired, waiting, brokerPoll, brokerBeat, expiry>> /\ Delivered
  BY DEF TimedWorker, WorkerStep, brokerVars
<1>6. WorkerNext(w) \/ WorkerStart(w) \/ WorkerGiveUp(w)
  BY DEF TimedWorker, WorkerStep
<1>7. ASSUME toPeer[i] # <<>>
      PROVE  /\ Head(toPeer[i]) = toPeer[i][1] /\ Head(toPeer[i]).cmd # "DISCONNECT"
             /\ Len(Tail(toPeer[i])) = Len(toPeer[i]) - 1
             /\ \A k \in 1 .. Len(Tail(toPeer[i])) :
                   Tail(toPeer[i])[k] = toPeer[i][k + 1] /\ k + 1 \in 1 .. Len(toPeer[i])
             /\ \A k \in 1 .. Len(Tail(toPeer[i])) : Tail(toPeer[i])[k].cmd # "DISCONNECT"
  <2>1. /\ Len(toPeer[i]) \in Nat \ {0} /\ Len(Tail(toPeer[i])) = Len(toPeer[i]) - 1
        /\ \A k \in 1 .. Len(Tail(toPeer[i])) : Tail(toPeer[i])[k] = toPeer[i][k + 1]
        /\ Head(toPeer[i]) = toPeer[i][1]
    BY <1>3, <1>7, HeadTailProperties, EmptySeq
  <2>2. \A k \in 1 .. Len(Tail(toPeer[i])) : k + 1 \in 1 .. Len(toPeer[i])
    BY <2>1
  <2>3. \A k \in 1 .. Len(toPeer[i]) : toPeer[i][k].cmd # "DISCONNECT"
    BY <1>2 DEF Settled
  <2>4. 1 \in 1 .. Len(toPeer[i])
    BY <2>1
  <2> QED BY <2>1, <2>2, <2>3, <2>4
<1>8. ASSUME NEW m \in PeerMessage, m.cmd # "DISCONNECT", m.cmd # "READY",
             toBroker'[i] = Append(toBroker[i], m)
      PROVE  /\ \A k \in 1 .. Len(toBroker'[i]) : toBroker'[i][k].cmd # "DISCONNECT"
             /\ Greeted(w)'
  <2>1. /\ Len(toBroker'[i]) = Len(toBroker[i]) + 1 /\ Len(toBroker[i]) \in Nat
        /\ \A k \in 1 .. Len(toBroker[i]) : toBroker'[i][k] = toBroker[i][k]
        /\ toBroker'[i][Len(toBroker[i]) + 1] = m
    BY <1>3, <1>8, AppendProperties
  <2>2. \A k \in 1 .. Len(toBroker'[i]) :
           k \in 1 .. Len(toBroker[i]) \/ k = Len(toBroker[i]) + 1
    BY <2>1
  <2>3. \A k \in 1 .. Len(toBroker'[i]) : toBroker'[i][k].cmd # "DISCONNECT"
    BY <1>2, <1>8, <2>1, <2>2 DEF Settled
  <2>4. Greeted(w)'
    <3>1. CASE i \in known
      BY <1>2, <1>5, <1>8, <2>1, <2>2, <3>1 DEF Greeted
    <3>2. CASE i \notin known
      <4>1. toBroker[i] # <<>> /\ Head(toBroker[i]).cmd = "READY"
        BY <1>2, <3>2 DEF Greeted
      <4>2. toBroker'[i] # <<>> /\ Head(toBroker'[i]) = Head(toBroker[i])
        BY <1>3, <1>8, <4>1
      <4> QED BY <1>5, <3>2, <4>1, <4>2 DEF Greeted
    <3> QED BY <3>1, <3>2
  <2> QED BY <2>3, <2>4
<1>9. ASSUME WorkerTakeRequest(w)
      PROVE  Alive(w)'
  <2>1. /\ UNCHANGED <<session, open, toBroker>> /\ toPeer[i] # <<>>
        /\ workerPc' = [workerPc EXCEPT ![w] = "app"]
        /\ liveness' = [liveness EXCEPT ![w] = Liveness]
        /\ toPeer' = [toPeer EXCEPT ![i] = Tail(@)]
        /\ TakeCommand(w, "REQUEST") /\ Take(w)
    BY <1>3, <1>9 DEF WorkerTakeRequest, TakeCommand, Take, Inbox
  <2>2. workerPc'[w] = "app" /\ liveness'[w] = Liveness /\ toPeer'[i] = Tail(toPeer[i])
    BY <1>1, <1>4, <2>1 DEF WorkerTypeOK, NetTypeOK
  <2>3. Asked(i) # {}
    BY <1>3, <1>4, <2>1, TakePlaces
  <2>4. Settled(w)'
    BY <1>2, <1>7, <2>1, <2>2 DEF Settled
  <2>5. Greeted(w)' /\ Permitted(w)' /\ BrokerHeard(w)'
    BY <1>2, <1>5, <2>1, <2>2 DEF Greeted, Permitted, BrokerHeard
  <2>6. WorkerHeard(w)'
    BY <1>4, <1>5, <2>3 DEF WorkerHeard, Permit
  <2> QED BY <2>4, <2>5, <2>6 DEF Alive
<1>10. ASSUME WorkerTakeHeartbeat(w)
       PROVE  Alive(w)'
  <2>1. /\ UNCHANGED <<session, open, workerPc>> /\ toPeer[i] # <<>> /\ workerPc[w] = "recv"
        /\ Head(toPeer[i]).cmd = "HEARTBEAT"
        /\ liveness' = [liveness EXCEPT ![w] = Liveness]
        /\ toPeer' = [toPeer EXCEPT ![i] = Tail(@)]
        /\ MaybeHeartbeat(w)
    BY <1>3, <1>10 DEF WorkerTakeHeartbeat, TakeCommand, Take, Inbox
  <2>2. liveness'[w] = Liveness /\ toPeer'[i] = Tail(toPeer[i])
    BY <1>1, <1>4, <2>1 DEF WorkerTypeOK, NetTypeOK
  <2>3. /\ workerPoll'[w] = Interval
        /\ \/ toBroker'[i] = Append(toBroker[i], Heartbeat)
           \/ /\ toBroker'[i] = toBroker[i]
              /\ workerBeat[w] >= 0 /\ workerBeat'[w] = workerBeat[w]
    BY <1>2, <2>1, LoopedWorker
  <2>4. overdue'[In(i)] = overdue[In(i)]
    BY <1>1, <1>5, <2>3, DueKept
  <2>5. Heartbeat \in PeerMessage /\ Heartbeat.cmd = "HEARTBEAT"
    BY DEF PeerMessage, Heartbeat
  <2>6. /\ \A k \in 1 .. Len(toBroker'[i]) : toBroker'[i][k].cmd # "DISCONNECT"
        /\ Greeted(w)'
    <3>1. CASE toBroker'[i] = toBroker[i]
      BY <1>2, <1>5, <3>1 DEF Settled, Greeted
    <3>2. CASE toBroker'[i] = Append(toBroker[i], Heartbeat)
      BY <1>8, <2>5, <3>2
    <3> QED BY <2>3, <3>1, <3>2
  <2>7. Settled(w)'
    BY <1>2, <1>7, <2>1, <2>2, <2>6 DEF Settled
  <2>8. Permitted(w)'
    <3>1. Told(i)' = Told(i)
      BY <1>3, <1>4, <2>1, MaybeHeartbeatQuiet
    <3>2. Asked(i) # {} => Asked(i)' # {}
      BY <1>1, <1>4, <2>1, <2>2, AskedLater
    <3> QED BY <1>2, <1>5, <2>1, <3>1, <3>2 DEF Permitted
  <2>9. BrokerHeard(w)'
    BY <1>2, <1>5, <2>2, <2>3, FreshPatience
  <2>10. WorkerHeard(w)'
    BY <1>2, <1>5, <2>1, <2>3, <2>4, LoopedHeard
  <2> QED BY <2>6, <2>7, <2>8, <2>9, <2>10 DEF Alive
<1>11. ASSUME WorkerPollTimeout(w)
       PROVE  Alive(w)'
  <2>1. /\ UNCHANGED <<session, open, workerPc, toPeer>> /\ workerPc[w] = "recv"
        /\ liveness' = [liveness EXCEPT ![w] = @ - 1] /\ MaybeHeartbeat(w)
    BY <1>11 DEF WorkerPollTimeout
  <2>2. liveness'[w] = liveness[w] - 1 /\ workerPoll[w] = 0
    BY <1>4, <2>1 DEF WorkerTypeOK, TimedWorker
  <2>3. /\ workerPoll'[w] = Interval
        /\ \/ toBroker'[i] = Append(toBroker[i], Heartbeat)
           \/ /\ toBroker'[i] = toBroker[i]
              /\ workerBeat[w] >= 0 /\ workerBeat'[w] = workerBeat[w]
    BY <1>2, <2>1, LoopedWorker
  <2>4. overdue'[In(i)] = overdue[In(i)] /\ overdue'[Out(i)] = overdue[Out(i)]
    BY <1>1, <1>5, <2>1, <2>3, DueKept
  <2>5. Heartbeat \in PeerMessage /\ Heartbeat.cmd = "HEARTBEAT"
    BY DEF PeerMessage, Heartbeat
  <2>6. /\ \A k \in 1 .. Len(toBroker'[i]) : toBroker'[i][k].cmd # "DISCONNECT"
        /\ Greeted(w)'
    <3>1. CASE toBroker'[i] = toBroker[i]
      BY <1>2, <1>5, <3>1 DEF Settled, Greeted
    <3>2. CASE toBroker'[i] = Append(toBroker[i], Heartbeat)
      BY <1>8, <2>5, <3>2
    <3> QED BY <2>3, <3>1, <3>2
  <2>7. Settled(w)'
    BY <1>2, <2>1, <2>6 DEF Settled
  <2>8. Told(i)' = Told(i) /\ Asked(i)' = Asked(i)
    BY <1>3, <1>4, <2>1, MaybeHeartbeatQuiet DEF Asked
  <2>9. Permitted(w)'
    BY <1>2, <1>5, <2>1, <2>8 DEF Permitted
  <2>10. BrokerHeard(w)'
    <3>1. Patience(w)' = Patience(w)
      <4>1. \A a, b \in Int : (a - 1 - 1) * b + b = (a - 1) * b + 0
        OBVIOUS
      <4> QED BY <1>3, <2>2, <2>3, <4>1 DEF Patience
    <3>2. BrokerDue' = BrokerDue
      BY <1>5 DEF BrokerDue
    <3>3. /\ \A k : Delay(In(i), k)' = Delay(In(i), k)
          /\ Delay(Out(i), 1)' = Delay(Out(i), 1)
      BY <2>4 DEF Delay, In, Out
    <3> QED BY <1>2, <1>5, <2>1, <2>8, <3>1, <3>2, <3>3 DEF BrokerHeard
  <2>11. WorkerHeard(w)'
    BY <1>2, <1>5, <2>1, <2>3, <2>4, LoopedHeard
  <2> QED BY <2>6, <2>7, <2>9, <2>10, <2>11 DEF Alive
<1>12. ~ WorkerGiveUp(w)
  <2>1. SUFFICES ASSUME WorkerGiveUp(w) PROVE FALSE
    OBVIOUS
  <2>2. workerPc[w] = "recv" /\ liveness[w] = 1 /\ toPeer' = toPeer
    BY <2>1 DEF WorkerGiveUp, netVars
  <2>3. workerPoll[w] = 0
    BY <2>2 DEF TimedWorker
  <2>4. Patience(w) = 0
    <3>1. \A b \in Int : (1 - 1) * b + 0 = 0
      OBVIOUS
    <3> QED BY <1>3, <2>2, <2>3, <3>1 DEF Patience
  <2> QED BY <1>2, <2>2, <2>4 DEF BrokerHeard
<1>13. ASSUME WorkerSendReply(w)
       PROVE  Alive(w)'
  <2> DEFINE m == [cmd |-> "REPLY", client |-> held[w].client, tag |-> held[w].tag]
  <2>1. /\ UNCHANGED <<session, open, toPeer, liveness>> /\ workerPc[w] = "app"
        /\ workerPc' = [workerPc EXCEPT ![w] = "recv"]
        /\ toBroker' = [toBroker EXCEPT ![i] = Append(@, m)]
    BY <1>3, <1>13 DEF WorkerSendReply, Send
  <2>2. workerPc'[w] = "recv" /\ toBroker'[i] = Append(toBroker[i], m) /\ liveness'[w] = Liveness
    BY <1>1, <1>2, <1>4, <2>1 DEF WorkerTypeOK, NetTypeOK, Settled
  <2>3. held[w] # Nothing
    BY <1>4, <2>1 DEF BusyHolds
  <2>4. m \in Reply /\ m \in PeerMessage /\ m.cmd = "REPLY"
    <3>1. held[w] \in [client : Identity, tag : Tag]
      BY <1>4, <2>3 DEF WorkerTypeOK
    <3> QED BY <3>1 DEF Reply, PeerMessage
  <2>5. Busy(i)
    BY <1>3, <2>3 DEF Busy
  <2>6. workerPoll'[w] = Interval
    BY <2>2 DEF TimedWorker, Pause, ClockInv, ClockTypeOK
  <2>7. Settled(w)' /\ Greeted(w)'
    BY <1>2, <1>8, <2>1, <2>2, <2>4 DEF Settled
  <2>8. Permitted(w)'
    <3>1. Spots(Append(toBroker[i], m), Ready \cup Reply) # {}
      <4> HIDE DEF m
      <4>1. Spots(Append(toBroker[i], m), Ready \cup Reply) =
              Spots(toBroker[i], Ready \cup Reply)
                \cup (IF m \in Ready \cup Reply THEN {Len(toBroker[i]) + 1} ELSE {})
        BY <1>3, <2>4, SpotsAppend
      <4> QED BY <2>4, <4>1
    <3> QED BY <2>2, <3>1 DEF Permitted, Told
  <2>9. BrokerHeard(w)'
    BY <1>2, <1>5, <2>2, <2>6, FreshPatience
  <2>10. WorkerHeard(w)'
    BY <1>4, <1>5, <2>5 DEF WorkerHeard, Permit
  <2> QED BY <2>7, <2>8, <2>9, <2>10 DEF Alive
<1>14. ~ WorkerTakeDisconnect(w) /\ ~ WorkerReconnect(w) /\ ~ WorkerStart(w)
  BY <1>2, <1>3, <1>7 DEF WorkerTakeDisconnect, WorkerReconnect, WorkerStart, TakeCommand,
                          Inbox, Settled
<1> QED BY <1>6, <1>9, <1>10, <1>11, <1>12, <1>13, <1>14 DEF WorkerNext

LEMMA PeersAlive ==
    ASSUME ClockInv, ClockInv', Timely, NEW w \in Worker, Alive(w),
           \/ \E v \in Worker : TimedWorker(v)
           \/ \E c \in Client : TimedClient(c)
    PROVE  Alive(w)'
<1>1. NetTypeOK /\ WorkerTypeOK
  BY DEF ClockInv, SafeInv, IInv, WorkerInv
<1>2. CASE TimedWorker(w)
  BY <1>2, OwnAlive
<1>3. ASSUME NEW v \in Worker \ {w}, TimedWorker(v)
      PROVE  Alive(w)'
  <2>1. WorkerNext(v) \/ WorkerStart(v) \/ WorkerGiveUp(v)
    BY <1>3 DEF TimedWorker, WorkerStep
  <2>2. Undisturbed(Sock(w))
    BY <1>1, <2>1, OthersUndisturbed
  <2>3. workerPc'[w] = workerPc[w] /\ liveness'[w] = liveness[w]
    BY <1>1, <2>1, OtherWorkers
  <2>4. workerPoll'[w] = workerPoll[w] /\ workerBeat'[w] = workerBeat[w]
    BY <1>3 DEF TimedWorker, ClockInv, ClockTypeOK
  <2>5. UNCHANGED <<known, expired, waiting, brokerPoll, brokerBeat, expiry>> /\ Delivered
    BY <1>3 DEF TimedWorker, WorkerStep, brokerVars
  <2> QED BY <2>2, <2>3, <2>4, <2>5, ElsewhereAlive
<1>4. ASSUME NEW c \in Client, TimedClient(c)
      PROVE  Alive(w)'
  <2>1. /\ ClientNext(c) /\ Delivered
        /\ UNCHANGED <<known, expired, waiting, brokerPoll, brokerBeat, expiry>>
        /\ UNCHANGED <<workerPc, liveness, workerPoll, workerBeat>>
    BY <1>4 DEF TimedClient, ClientStep, brokerVars, workerVars
  <2>2. Undisturbed(Sock(w))
    BY <1>1, <2>1, OthersUndisturbed
  <2> QED BY <2>1, <2>2, ElsewhereAlive
<1> QED BY <1>2, <1>3, <1>4

LEMMA TickAlive ==
    ASSUME ClockInv, ClockInv', Tick, NEW w \in Worker, Alive(w)
    PROVE  Alive(w)'
<1> PICK i : i = Sock(w)
  OBVIOUS
<1>1. i \in Identity /\ i \in WorkerSocket /\ In(i) \in Channel /\ Out(i) \in Channel
  BY SockOf
<1>2. Settled(w) /\ Greeted(w) /\ Permitted(w) /\ BrokerHeard(w) /\ WorkerHeard(w)
  BY DEF Alive
<1>3. /\ Interval \in Nat \ {0} /\ MaxDelay \in {0, 1}
      /\ BrokerDue \in 0 .. 2 * Interval
      /\ workerPc[w] = "recv" => WorkerDue(w) \in 0 .. 2 * Interval
      /\ workerPoll[w] \in Nat /\ workerBeat[w] \in -1 .. Interval
      /\ brokerPoll \in 0 .. Interval /\ brokerBeat \in -1 .. Interval
      /\ liveness[w] \in 0 .. Liveness /\ Liveness \in Nat \ {0}
      /\ Patience(w) \in Int
      /\ Expiry \in Nat /\ expiry[i] \in 0 .. Expiry
      /\ toBroker[i] \in Seq(PeerMessage) /\ toPeer[i] \in Seq(BrokerMessage)
      /\ Conn(w) = i
  BY <1>2, ClockNumbers
<1>4. /\ UNCHANGED <<session, open, toBroker, toPeer, known, waiting, workerPc, liveness, held>>
      /\ brokerPoll > 0 /\ brokerPoll' = brokerPoll - 1
      /\ workerPc[w] \in {"recv", "sleep"} => workerPoll[w] > 0
  BY DEF Tick, netVars, workerVars
<1>5. /\ brokerBeat' = IF brokerBeat > -1 THEN brokerBeat - 1 ELSE -1
      /\ workerPoll'[w] = IF workerPoll[w] > 0 THEN workerPoll[w] - 1 ELSE 0
      /\ workerBeat'[w] = IF workerBeat[w] > -1 THEN workerBeat[w] - 1 ELSE -1
      /\ expiry'[i] = IF expiry[i] > 0 THEN expiry[i] - 1 ELSE 0
  BY <1>1 DEF Tick, Down
<1>6. Content(In(i)) = toBroker[i] /\ Content(Out(i)) = toPeer[i]
  BY DEF Content, In, Out
<1>7. overdue'[In(i)] = Len(toBroker[i]) /\ overdue'[Out(i)] = Len(toPeer[i])
  BY <1>1, <1>6 DEF Tick
<1>8. /\ overdue[In(i)] = 0 /\ (MaxDelay = 0 => toBroker[i] = <<>>)
      /\ workerPc[w] = "recv" => overdue[Out(i)] = 0 /\ (MaxDelay = 0 => toPeer[i] = <<>>)
  <2>1. Listening(In(i)) /\ (workerPc[w] = "recv" => Listening(Out(i)))
    BY <1>1, SockOf DEF Listening, In, Out
  <2> QED BY <1>1, <1>6, <2>1 DEF Tick
<1>9. expired' = expired \cup {j \in Range(waiting) : expiry'[j] = 0}
  BY DEF Tick
<1>10. Settled(w)' /\ Greeted(w)' /\ Permitted(w)'
  BY <1>2, <1>4 DEF Settled, Greeted, Permitted, Told, Asked
<1>0. /\ Interval \in Int /\ Interval > 0 /\ MaxDelay \in Int /\ MaxDelay >= 0
      /\ Patience(w) \in Int /\ BrokerDue \in Int /\ expiry[i] \in Int /\ expiry[i] >= 0
      /\ workerPc[w] = "recv" => WorkerDue(w) \in Int
  <2>1. /\ Interval \in Nat \ {0} /\ MaxDelay \in {0, 1} /\ Patience(w) \in Int
        /\ Expiry \in Nat /\ expiry[i] \in 0 .. Expiry
    BY <1>3
  <2>2. Interval \in Int /\ Interval > 0 /\ MaxDelay \in Int /\ MaxDelay >= 0
    BY <2>1
  <2>3. expiry[i] \in Int /\ expiry[i] >= 0
    BY <2>1
  <2>4. 0 .. 2 * Interval \subseteq Int
    BY <2>1
  <2>5. BrokerDue \in Int /\ (workerPc[w] = "recv" => WorkerDue(w) \in Int)
    BY <1>3, <2>4
  <2> QED BY <2>1, <2>2, <2>3, <2>5
<1>11. BrokerDue' <= BrokerDue - 1 /\ BrokerDue' \in Int /\ BrokerDue >= 1
  <2>1. /\ brokerPoll \in Int /\ brokerPoll <= Interval /\ brokerPoll > 0
        /\ brokerPoll' = brokerPoll - 1
        /\ brokerBeat \in Int /\ brokerBeat >= -1
    BY <1>3, <1>4
  <2>2. brokerBeat' = IF brokerBeat > -1 THEN brokerBeat - 1 ELSE -1
    BY <1>5
  <2> QED BY <1>0, <2>1, <2>2 DEF BrokerDue
<1>12. /\ Len(toBroker[i]) \in Nat /\ (toBroker[i] # <<>> => Len(toBroker[i]) >= 1)
       /\ Len(toPeer[i]) \in Nat /\ (toPeer[i] # <<>> => Len(toPeer[i]) >= 1)
  BY <1>3, EmptySeq
<1>13. /\ toBroker[i] # <<>> => MaxDelay = 1 /\ Delay(In(i), 1)' = 0 /\ Delay(In(i), 1) = 1
       /\ workerPc[w] = "recv" /\ toPeer[i] # <<>>
          => MaxDelay = 1 /\ Delay(Out(i), 1)' = 0 /\ Delay(Out(i), 1) = 1
  BY <1>3, <1>7, <1>8, <1>12 DEF Delay, In, Out
<1>14. ASSUME NEW k \in Told(i)
       PROVE  MaxDelay = 1 /\ Delay(In(i), k)' = 0 /\ Delay(In(i), k) = 1
  <2>1. k \in 1 .. Len(toBroker[i])
    BY DEF Told, Spots
  <2>2. k \in Int /\ 1 <= k /\ k <= Len(toBroker[i]) /\ toBroker[i] # <<>>
    BY <1>12, <2>1
  <2> QED BY <1>3, <1>7, <1>8, <2>2 DEF Delay, In
<1>15. ASSUME workerPc[w] = "recv"
       PROVE  Patience(w)' = Patience(w) - 1 /\ WorkerDue(w) >= 1
              /\ WorkerDue(w)' <= WorkerDue(w) - 1 /\ WorkerDue(w)' \in Int
  <2>1. workerPoll'[w] = workerPoll[w] - 1 /\ workerPoll[w] > 0
    BY <1>3, <1>4, <1>5, <1>15
  <2>2. Patience(w)' = Patience(w) - 1
    <3>1. (liveness[w] - 1) * Interval \in Int
      BY <1>3
    <3> PICK a : a = (liveness[w] - 1) * Interval
      OBVIOUS
    <3>2. Patience(w) = a + workerPoll[w] /\ Patience(w)' = a + (workerPoll[w] - 1)
      BY <1>4, <2>1 DEF Patience
    <3>3. a \in Int /\ workerPoll[w] \in Int
      BY <1>3, <3>1, SMTT(60)
    <3> QED BY <3>2, <3>3
  <2>3. workerPoll[w] <= Interval
    BY <1>15 DEF ClockInv, ClockTypeOK
  <2>4. /\ workerPoll[w] \in Int /\ workerBeat[w] \in Int /\ workerBeat[w] >= -1
        /\ workerBeat'[w] = IF workerBeat[w] > -1 THEN workerBeat[w] - 1 ELSE -1
    BY <1>3, <1>5
  <2>5. WorkerDue(w) >= 1 /\ WorkerDue(w)' <= WorkerDue(w) - 1 /\ WorkerDue(w)' \in Int
    BY <1>0, <2>1, <2>3, <2>4 DEF WorkerDue
  <2> QED BY <2>2, <2>5
<1>16. BrokerHeard(w)'
  <2>1. SUFFICES ASSUME workerPc[w] = "recv" PROVE BrokerHeard(w)'
    BY <1>4 DEF BrokerHeard
  <2>2. CASE toPeer[i] # <<>>
    <3>1. Patience(w) > 1
      BY <1>2, <1>13, <2>1, <2>2 DEF BrokerHeard
    <3>2. Patience(w)' > 0
      BY <1>3, <1>15, <2>1, <3>1
    <3> QED BY <1>4, <1>13, <2>1, <2>2, <3>2 DEF BrokerHeard
  <2>3. CASE toPeer[i] = <<>>
    <3>1. ASSUME NEW k \in Told(i)
          PROVE  /\ Patience(w)' > 0
                 /\ Patience(w)' > Delay(In(i), k)' + 2 * Interval + MaxDelay
      <4>1. Patience(w) > Delay(In(i), k) + 2 * Interval + MaxDelay
        BY <1>2, <2>1, <2>3 DEF BrokerHeard
      <4>2. Patience(w)' = Patience(w) - 1
        BY <1>15, <2>1
      <4> QED BY <1>0, <1>14, <4>1, <4>2
    <3>2. ASSUME i \in Range(waiting)
          PROVE  Patience(w)' > 0 /\ Patience(w)' > BrokerDue' + MaxDelay
      <4>1. Patience(w) > BrokerDue + MaxDelay
        BY <1>2, <2>1, <2>3, <3>2 DEF BrokerHeard
      <4>2. Patience(w)' = Patience(w) - 1
        BY <1>15, <2>1
      <4> QED BY <1>0, <1>11, <4>1, <4>2
    <3>3. Patience(w)' > 0
      <4>1. Asked(i) = {}
        BY <2>3, SpotsEmpty DEF Asked
      <4>2. Told(i) # {} \/ i \in Range(waiting)
        BY <1>2, <2>1, <4>1 DEF Permitted
      <4> QED BY <3>1, <3>2, <4>2
    <3>4. Told(i)' = Told(i)
      BY <1>4 DEF Told
    <3> QED BY <1>4, <2>1, <2>3, <3>1, <3>2, <3>3, <3>4 DEF BrokerHeard
  <2> QED BY <2>2, <2>3
<1>17. WorkerHeard(w)'
  <2>1. SUFFICES ASSUME i \in Range(waiting) PROVE WorkerHeard(w)'
    BY <1>4 DEF WorkerHeard
  <2>2. workerPc[w] = "recv"
    <3>1. ~ Busy(i)
      BY <1>1, <2>1 DEF ClockInv, SafeInv, PlacesInv, Permits, Permit
    <3>2. held[w] = Nothing
      BY <1>3, <3>1 DEF Busy
    <3> QED BY <1>2, <3>2 DEF Settled, ClockInv, SafeInv, IInv, WorkerInv, BusyHolds
  <2>3. expiry[i] >= 2
    <3>1. CASE toBroker[i] # <<>>
      BY <1>2, <1>3, <1>13, <2>1, <3>1 DEF WorkerHeard
    <3>2. CASE toBroker[i] = <<>>
      <4>1. expiry[i] > WorkerDue(w) + MaxDelay
        BY <1>2, <2>1, <3>2 DEF WorkerHeard
      <4>2. WorkerDue(w) >= 1 /\ WorkerDue(w) \in Int
        BY <1>0, <1>15, <2>2
      <4> QED BY <1>0, <4>1, <4>2
    <3> QED BY <3>1, <3>2
  <2>4. expiry'[i] = expiry[i] - 1 /\ expiry'[i] > 0
    BY <1>3, <1>5, <2>3
  <2>5. i \notin expired'
    BY <1>2, <1>9, <2>1, <2>4 DEF WorkerHeard
  <2>6. toBroker[i] = <<>> => expiry'[i] > WorkerDue(w)' + MaxDelay
    <3>1. toBroker[i] = <<>> => expiry[i] > WorkerDue(w) + MaxDelay
      BY <1>2, <2>1 DEF WorkerHeard
    <3>2. /\ WorkerDue(w)' <= WorkerDue(w) - 1 /\ WorkerDue(w)' \in Int
          /\ WorkerDue(w) \in Int
      BY <1>0, <1>15, <2>2
    <3> QED BY <1>0, <2>4, <3>1, <3>2
  <2> QED BY <1>4, <1>13, <2>4, <2>5, <2>6 DEF WorkerHeard
<1> QED BY <1>10, <1>16, <1>17 DEF Alive

LEMMA InitAlive ==
    ASSUME TimedInit, Timely, ClockInv
    PROVE  AliveInv
<1>1. NoRound /\ waiting = <<>> /\ known = {}
  BY DEF TimedInit, Init, BrokerInit, NoRound
<1>2. SUFFICES ASSUME NEW w \in Worker PROVE Alive(w)
  BY <1>1 DEF AliveInv
<1> PICK i : i = Sock(w)
  OBVIOUS
<1>3. i \in Identity /\ i[1] = w /\ i[2] = 1 /\ w \in Peer /\ Greeting(w) \in Ready
  BY SockOf, WorkerAssumption DEF Sock, Peer, Greeting, Ready
<1>4. /\ session[w] = 1 /\ i \in open
      /\ workerPc[w] = "recv" /\ liveness[w] = Liveness
      /\ toBroker[i] = <<Greeting(w)>> /\ toPeer[i] = <<>>
  BY <1>3 DEF TimedInit, Init, NetInit, WorkerInit, Sock
<1>5. /\ Len(toBroker[i]) = 1 /\ toBroker[i][1] = Greeting(w) /\ Len(toPeer[i]) = 0
      /\ Head(toBroker[i]) = Greeting(w) /\ toBroker[i] # <<>>
  BY <1>4
<1>6. Greeting(w).cmd = "READY"
  BY DEF Greeting
<1>7. Settled(w)
  BY <1>4, <1>5, <1>6 DEF Settled
<1>8. Greeted(w)
  BY <1>1, <1>5, <1>6 DEF Greeted
<1>9. Told(i) = {1}
  BY <1>3, <1>5 DEF Told, Spots
<1>10. Permitted(w)
  BY <1>9 DEF Permitted
<1>11. i \notin Range(waiting)
  BY <1>1 DEF Range
<1>12. BrokerHeard(w)
  <2>1. /\ Interval \in Nat \ {0} /\ MaxDelay \in {0, 1} /\ Liveness \in Nat \ {0}
    BY <1>7, ClockNumbers
  <2>2. workerPoll[w] = Interval
    BY DEF TimedInit, ClockInit
  <2>3. Patience(w) = Liveness * Interval
    BY <1>4, <2>2, TimelyNumbers DEF Patience
  <2>4. Patience(w) > 2 * Interval + 2 * MaxDelay /\ Patience(w) \in Nat
    BY <2>3, TimelyNumbers
  <2>5. Delay(In(i), 1) \in {0, MaxDelay}
    BY DEF Delay
  <2>6. Patience(w) > 0 /\ Patience(w) > Delay(In(i), 1) + 2 * Interval + MaxDelay
    BY <2>1, <2>4, <2>5
  <2> QED BY <1>4, <1>9, <1>11, <2>6 DEF BrokerHeard
<1>13. WorkerHeard(w)
  BY <1>11 DEF WorkerHeard
<1> QED BY <1>7, <1>8, <1>10, <1>12, <1>13 DEF Alive

LEMMA NextAlive ==
    ASSUME ClockInv, ClockInv', Timely, AliveInv, [TimedNext]_timedVars
    PROVE  AliveInv'
<1>1. CASE UNCHANGED timedVars
  BY <1>1 DEF timedVars, clockVars, vars, netVars, brokerVars, workerVars, AliveInv, NoRound,
     Alive, Settled, Greeted, Permitted, Told, Asked, BrokerHeard, WorkerHeard, Delay,
     BrokerDue, WorkerDue, Patience
<1>2. CASE TimedNext
  <2>1. NoRound'
    BY <1>2, NoRoundStep DEF AliveInv
  <2>2. SUFFICES ASSUME NEW w \in Worker PROVE Alive(w)'
    BY <2>1 DEF AliveInv
  <2>3. \A v \in Worker : Alive(v)
    BY DEF AliveInv
  <2>4. CASE TimedBroker
    BY <2>1, <2>3, <2>4, BrokerAlive
  <2>5. CASE BrokerPollAgain
    <3> PICK i : i = Sock(w)
      OBVIOUS
    <3>1. /\ UNCHANGED vars /\ UNCHANGED <<brokerBeat, expiry, workerPoll, workerBeat, overdue>>
          /\ brokerBeat >= 0
      BY <2>5 DEF BrokerPollAgain
    <3>2. BrokerDue' = BrokerDue /\ BrokerDue \in Int
      BY <2>3, <3>1, ClockNumbers DEF BrokerDue, Alive
    <3>3. /\ UNCHANGED <<workerPc, liveness, workerPoll, workerBeat, session, open, toBroker,
                         toPeer, overdue, known, expired, expiry, waiting>>
      BY <3>1 DEF vars, netVars, brokerVars, workerVars
    <3>4. Permitted(w)'
      BY <2>3, <3>3 DEF Alive, Permitted, Told, Asked
    <3>5. i \in open /\ Sent(i)
      BY <2>3, <3>3 DEF Alive, Settled, Sent
    <3>6. BrokerDue' <= BrokerDue
      BY <3>2
    <3> QED BY <2>3, <3>3, <3>4, <3>5, <3>6, StillAlive
  <2>6. CASE (\E v \in Worker : TimedWorker(v)) \/ (\E c \in Client : TimedClient(c))
    BY <2>3, <2>6, PeersAlive
  <2>7. ~ TimedFault
    BY DEF TimedFault, Timely, ClockInv, SafeInv, IInv
  <2>8. CASE Tick
    BY <2>3, <2>8, TickAlive
  <2> QED BY <1>2, <2>4, <2>5, <2>6, <2>7, <2>8 DEF TimedNext
<1> QED BY <1>1, <1>2

LEMMA TimelySpecAlive == Timely => (TimedSpec => [](ClockInv /\ AliveInv))
<1> SUFFICES ASSUME Timely PROVE TimedSpec => [](ClockInv /\ AliveInv)
  OBVIOUS
<1>1. TimedInit /\ ClockInv => AliveInv
  BY InitAlive
<1>2. ClockInv /\ ClockInv' /\ AliveInv /\ [TimedNext]_timedVars => AliveInv'
  BY NextAlive
<1>3. TimedSpec => []ClockInv
  BY TimedSpecClocks DEF ClockInv
<1> QED BY <1>1, <1>2, <1>3, PTL DEF TimedSpec

\* A worker is given up, or gives up, only when something failed: mdwrk_recv
\* comes to `--self->liveness == 0` only if the broker was silent for
\* Liveness polls, and before that the round that heartbeat_at and the poll
\* under way allow has come, or the answer to what the worker sent.
THEOREM NobodyGivenUp == Timely => (TimedSpec => []NoFalseAlarm)
<1> SUFFICES ASSUME Timely PROVE TimedSpec => []NoFalseAlarm
  OBVIOUS
<1>1. AliveInv => NoFalseAlarm
  BY DEF AliveInv, Alive, Settled, NoFalseAlarm
<1> QED BY <1>1, TimelySpecAlive, PTL

\* s_broker_purge and the DISCONNECTs of the broker take out no worker that
\* lives: each heartbeat arrives before the expiry the last message set.
THEOREM NobodyPurged == Timely => (TimedSpec => NoFalsePurge)
<1> SUFFICES ASSUME Timely PROVE TimedSpec => NoFalsePurge
  OBVIOUS
<1>1. ClockInv /\ AliveInv /\ [TimedNext]_timedVars => [known \subseteq known']_timedVars
  <2>1. SUFFICES ASSUME ClockInv, AliveInv, TimedNext, NEW i \in known PROVE i \in known'
    OBVIOUS
  <2>2. \A w \in Worker : Alive(w)
    BY <2>1 DEF AliveInv
  <2>3. PICK w \in Worker : i = Sock(w) /\ i \in Identity
    BY <2>1, <2>2, KnownSockets
  <2>4. CASE TimedBroker
    <3>1. ASSUME NEW j \in Identity, BrokerMessageIn(j)
          PROVE  i \in known'
      <4>1. CASE j = i
        BY <2>1, <2>2, <2>3, <3>1, <4>1, OwnReadIs DEF OwnRead, Alive
      <4>2. CASE j # i
        BY <2>1, <2>3, <3>1, <4>2, OtherRead
      <4> QED BY <4>1, <4>2
    <3>2. ~ PurgeHead
      <4>1. waiting \in Seq(Identity)
        BY <2>1 DEF ClockInv, SafeInv, IInv, BrokerInv, BrokerTypeOK
      <4>2. waiting # <<>> => Head(waiting) \in Range(waiting)
        BY <4>1 DEF Range
      <4> QED BY <2>1, <2>2, <4>2, NothingToPurge DEF PurgeHead, HeadExpired
    <3> QED BY <2>1, <2>4, <3>1, <3>2 DEF TimedBroker, BrokerStep, BrokerNext,
               BrokerPollTimeout, PurgeDone, Dispatch, DispatchDone, HeartbeatRound
  <2>5. ~ TimedFault
    BY <2>1 DEF TimedFault, Timely, ClockInv, SafeInv, IInv
  <2>6. CASE ~ TimedBroker
    <3>1. UNCHANGED known
      BY <2>1, <2>5, <2>6 DEF TimedNext, BrokerPollAgain, TimedWorker, TimedClient, Tick,
         vars, brokerVars, WorkerStep, ClientStep
    <3> QED BY <2>1, <3>1
  <2> QED BY <2>4, <2>6
<1> QED BY <1>1, TimelySpecAlive, PTL DEF NoFalsePurge, TimedSpec

=============================================================================
