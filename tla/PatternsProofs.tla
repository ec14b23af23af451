--------------------------- MODULE PatternsProofs ---------------------------
(***************************************************************************)
(* Proofs about the small programs of Programs, each for any number of its *)
(* clients, workers, messages and chunks: the brokers and examples of the  *)
(* guide's patterns, the server of the NOM protocol with its self-test,    *)
(* and the transfer of a file.  Then that a behaviour of Programs is one   *)
(* of each program's own, so that what is proved of a program alone holds  *)
(* whichever of them is started.                                           *)
(***************************************************************************)
EXTENDS Programs, ProgramsProofs, BrokersProofs

----------------------------------------------------------------------------
(* The broker of router2request, which counts the workers it fired.        *)

FireSpec == FireInit /\ [][FireNext]_fireVars

\* The workers that were told to go.
Gone == {w \in Hand : hand[w] = "finished" \/ order[w] = "Fired!"}

Orders == {"none", "Work Harder", "Fired!"}

\* A worker that is at the desk waits there once, and has no answer on its way; who has one
\* waits for it; the count is of those that were told to go.
Dismissed ==
    /\ desk \in Seq(Hand) /\ workers_fired \in 0 .. Cardinality(Hand)
    /\ hand \in [Hand -> {"asks", "waits", "works", "finished"}]
    /\ order \in [Hand -> Orders]
    /\ Once(desk)
    /\ \A w \in Hand : In(desk, w) => hand[w] = "waits" /\ order[w] = "none"
    /\ \A w \in Hand : order[w] # "none" => hand[w] = "waits"
    /\ workers_fired = Cardinality(Gone)

FireInv == FireTypeOK /\ Dismissed

\* No worker has asked for work, and none was fired.
LEMMA FireBegins == FireInit => FireInv
<1> SUFFICES ASSUME FireInit PROVE FireTypeOK /\ Dismissed
  BY DEF FireInv
<1>1. Gone = {}
  BY DEF FireInit, Gone
<1>2. Cardinality(Gone) = 0
  BY <1>1, FS_EmptySet
<1>3. Cardinality(Hand) \in Nat
  BY HandAssumption, FS_CardinalityType
<1>4. /\ desk \in Seq(Hand) /\ hand \in [Hand -> {"asks", "waits", "works", "finished"}]
      /\ order \in [Hand -> Orders]
  BY DEF FireInit, Orders
<1>5. workers_fired \in 0 .. Cardinality(Hand)
  BY <1>3 DEF FireInit
<1>6. Dismissed
  BY <1>2, <1>4, <1>5 DEF FireInit, Dismissed, Once, In
<1>7. late \in BOOLEAN /\ home \in BOOLEAN
  BY DEF FireInit
<1>8. FireTypeOK
  BY <1>4, <1>5, <1>7 DEF FireTypeOK, Orders
<1> QED BY <1>6, <1>8

\* Two sets that differ in one member at most.
LEMMA SameBut ==
    ASSUME NEW S, NEW A, NEW B, NEW v \in S, A \subseteq S, B \subseteq S, v \notin A,
           \A w \in S : w # v => (w \in B <=> w \in A)
    PROVE  (v \in B => B = A \cup {v}) /\ (v \notin B => B = A)
OBVIOUS

\* The broker answers the first worker at its desk, and counts the one it fires.
LEMMA AnswerKeeps ==
    ASSUME Dismissed, desk # <<>>, NEW answer \in Orders,
           order' = [order EXCEPT ![Head(desk)] = answer], desk' = Tail(desk), UNCHANGED hand,
           \/ answer = "Fired!" /\ workers_fired' = workers_fired + 1
           \/ answer # "Fired!" /\ workers_fired' = workers_fired
    PROVE  Dismissed'
<1> DEFINE v == Head(desk)
<1>1. /\ \A w : In(desk', w) <=> In(desk, w) /\ w # v
      /\ In(desk, v) /\ v \in Hand /\ Once(desk') /\ desk' \in Seq(Hand)
  <2>1. desk \in Seq(Hand) /\ Once(desk)
    BY DEF Dismissed
  <2> QED BY <2>1, TailIn
<1>2. order' = [order EXCEPT ![v] = answer]
  OBVIOUS
<1> HIDE DEF v
<1>3. hand[v] = "waits" /\ order[v] = "none"
  BY <1>1 DEF Dismissed
<1>4. /\ order' \in [Hand -> Orders] /\ order'[v] = answer
      /\ \A w \in Hand \ {v} : order'[w] = order[w]
  BY <1>1, <1>2 DEF Dismissed
<1>5. /\ \A w \in Hand : In(desk', w) => hand'[w] = "waits" /\ order'[w] = "none"
      /\ \A w \in Hand : order'[w] # "none" => hand'[w] = "waits"
  <2>1. \A w \in Hand : In(desk', w) => hand'[w] = "waits" /\ order'[w] = "none"
    BY <1>1, <1>4 DEF Dismissed
  <2>2. \A w \in Hand : order'[w] # "none" => hand'[w] = "waits"
    BY <1>3, <1>4 DEF Dismissed
  <2> QED BY <2>1, <2>2
<1>6. workers_fired' = Cardinality(Gone') /\ workers_fired' \in 0 .. Cardinality(Hand)
  <2>1. IsFiniteSet(Hand) /\ Gone \subseteq Hand /\ Gone' \subseteq Hand
    BY HandAssumption DEF Gone
  <2>2. IsFiniteSet(Gone) /\ Cardinality(Gone) \in Nat /\ workers_fired = Cardinality(Gone)
    BY <2>1, FS_Subset, FS_CardinalityType DEF Dismissed
  <2>3. /\ answer = "Fired!" => Gone' = Gone \cup {v}
        /\ answer # "Fired!" => Gone' = Gone
    <3>1. \A w \in Hand : w # v => (w \in Gone' <=> w \in Gone)
      BY <1>4 DEF Gone
    <3>2. v \in Gone' <=> answer = "Fired!"
      BY <1>1, <1>3, <1>4 DEF Gone
    <3>3. v \notin Gone
      BY <1>3 DEF Gone
    <3>4. (v \in Gone' => Gone' = Gone \cup {v}) /\ (v \notin Gone' => Gone' = Gone)
      BY <1>1, <2>1, <3>1, <3>3, SameBut
    <3> QED BY <3>2, <3>4
  <2>4. v \notin Gone
    BY <1>3 DEF Gone
  <2>5. workers_fired' = Cardinality(Gone')
    <3>1. Cardinality(Gone \cup {v}) = Cardinality(Gone) + 1
      BY <2>2, <2>4, FS_AddElement
    <3> HIDE DEF Gone
    <3>3. CASE answer = "Fired!"
      BY <2>2, <2>3, <3>1, <3>3
    <3>4. CASE answer # "Fired!"
      BY <2>2, <2>3, <3>4
    <3> QED BY <3>3, <3>4
  <2>6. Cardinality(Gone') <= Cardinality(Hand) /\ Cardinality(Gone') \in Nat /\ Cardinality(Hand) \in Nat
    BY <2>1, FS_Subset, FS_CardinalityType
  <2>7. Cardinality(Gone') \in 0 .. Cardinality(Hand)
    BY <2>6
  <2> QED BY <2>5, <2>7
<1> QED BY <1>1, <1>4, <1>5, <1>6 DEF Dismissed

\* A worker asks, is answered or works; none of it changes who was told to go.
LEMMA HandKeeps ==
    ASSUME Dismissed, NEW w \in Hand, Ask(w) \/ Obey(w) \/ Work(w)
    PROVE  Dismissed'
<1>0. /\ desk \in Seq(Hand) /\ Once(desk) /\ hand \in [Hand -> {"asks", "waits", "works", "finished"}]
      /\ order \in [Hand -> Orders]
  BY DEF Dismissed
<1>1. Gone' = Gone
  <2>1. CASE Ask(w)
    BY <1>0, <2>1 DEF Dismissed, Gone, Ask
  <2>2. CASE Obey(w)
    <3>1. \A v \in Hand \ {w} : hand'[v] = hand[v] /\ order'[v] = order[v]
      BY <1>0, <2>2 DEF Obey
    <3>2. /\ hand'[w] = IF order[w] = "Fired!" THEN "finished" ELSE "works"
          /\ order'[w] = "none" /\ hand[w] = "waits"
      BY <1>0, <2>2 DEF Obey
    <3> QED BY <3>1, <3>2 DEF Gone
  <2>3. CASE Work(w)
    BY <1>0, <2>3 DEF Dismissed, Gone, Work
  <2> QED BY <2>1, <2>2, <2>3
<1>2. workers_fired' = workers_fired 
  BY DEF Ask, Obey, Work
<1>3. CASE Ask(w)
  <2>1. ~In(desk, w) /\ order[w] = "none"
    BY <1>3 DEF Dismissed, Ask
  <2>2. /\ \A x : In(desk', x) <=> In(desk, x) \/ x = w
        /\ Once(desk') /\ desk' \in Seq(Hand)
    BY <1>0, <1>3, <2>1, AppendIn DEF Ask
  <2>3. /\ hand'[w] = "waits" /\ \A v \in Hand \ {w} : hand'[v] = hand[v]
        /\ hand' \in [Hand -> {"asks", "waits", "works", "finished"}] /\ order' = order
    BY <1>0, <1>3 DEF Ask
  <2> QED BY <1>1, <1>2, <2>1, <2>2, <2>3 DEF Dismissed
<1>4. CASE Obey(w) \/ Work(w)
  <2>1. /\ desk' = desk /\ ~In(desk, w) /\ \A v \in Hand \ {w} : hand'[v] = hand[v] /\ order'[v] = order[v]
        /\ hand' \in [Hand -> {"asks", "waits", "works", "finished"}]
        /\ order' \in [Hand -> Orders] /\ order'[w] = "none"
    <3>1. CASE Obey(w)
      BY <1>0, <3>1 DEF Dismissed, Obey, Orders
    <3>2. CASE Work(w)
      BY <1>0, <3>2 DEF Dismissed, Work
    <3> QED BY <1>4, <3>1, <3>2
  <2>2. /\ \A x \in Hand : In(desk', x) => hand'[x] = "waits" /\ order'[x] = "none"
        /\ \A x \in Hand : order'[x] # "none" => hand'[x] = "waits"
    BY <2>1 DEF Dismissed
  <2> QED BY <1>1, <1>2, <2>1, <2>2 DEF Dismissed
<1> QED BY <1>3, <1>4

\* Every step of the broker and its workers keeps the invariant.
LEMMA FireStep == FireInv /\ [FireNext]_fireVars => FireInv'
<1> SUFFICES ASSUME FireInv, [FireNext]_fireVars PROVE FireTypeOK' /\ Dismissed'
  BY DEF FireInv
<1>0. FireTypeOK /\ Dismissed
  BY DEF FireInv
<1>1. Dismissed'
  <2>1. CASE Encourage
    BY <1>0, <2>1, AnswerKeeps DEF Encourage, Orders
  <2>2. CASE Fire
    BY <1>0, <2>2, AnswerKeeps DEF Fire, Orders
  <2>3. CASE TimeUp \/ UNCHANGED fireVars
    BY <1>0, <2>3 DEF TimeUp, fireVars, Dismissed, Gone
  <2> QED BY <1>0, <2>1, <2>2, <2>3, HandKeeps DEF FireNext
<1>2. late' \in BOOLEAN /\ home' \in BOOLEAN
  <2>1. late \in BOOLEAN /\ home \in BOOLEAN
    BY <1>0 DEF FireTypeOK
  <2>2. CASE Encourage \/ Fire \/ TimeUp \/ UNCHANGED fireVars
    BY <2>1, <2>2 DEF Encourage, Fire, LastOne, TimeUp, fireVars
  <2>3. ASSUME NEW w \in Hand, Ask(w) \/ Obey(w) \/ Work(w) PROVE late' \in BOOLEAN /\ home' \in BOOLEAN
    BY <2>1, <2>3 DEF Ask, Obey, Work
  <2> QED BY <2>2, <2>3 DEF FireNext
<1> QED BY <1>1, <1>2 DEF FireTypeOK, Dismissed, Orders

\* The state of the broker and of its workers has its types, for any number of workers: no
\* worker is at the desk and fired, and the count never passes their number
\* (router2request.c:61-83).
THEOREM FireTyped == FireSpec => []FireTypeOK
<1>1. FireInv => FireTypeOK
  BY DEF FireInv
<1> QED BY <1>1, FireBegins, FireStep, PTL DEF FireSpec

----------------------------------------------------------------------------
(* The server of the NOM protocol, for any number of clients and any       *)
(* interval.                                                               *)

NomSpec == NomInit /\ [][NomNext]_nomVars

\* What is answered.
Answer == {"none", "OHAI-OK", "WTF", "CHEEZBURGER", "HUGZ-OK", "HUGZ"}

\* What a message makes of the state of a client that is known: who is ready stays it and
\* hears no WTF.
LEMMA ExecuteIs ==
    ASSUME NEW s \in {"start", "ready"}, NEW m \in Command
    PROVE  LET e == Execute(s, Event(m), m)
           IN  /\ s = "ready" => e.state = "ready" /\ e.reply \in Answer \ {"WTF"}
               /\ s = "start" /\ m = "OHAI-Joe" => e.state = "ready" /\ e.reply = "OHAI-OK"
               /\ s = "start" /\ m = "OHAI" => e.state = "start" /\ e.reply = "WTF"
               /\ s = "start" /\ m \notin {"OHAI", "OHAI-Joe"} => e.state = "start" /\ e.reply = "none"
               /\ s = "ready" /\ m = "ICANHAZ" => e.reply = "CHEEZBURGER"
               /\ s = "ready" /\ m = "HUGZ" => e.reply = "HUGZ-OK"
<1>1. CASE m = "OHAI-Joe"
  BY <1>1 DEF Execute, Turn, Goes, Event, Answer
<1>2. CASE m = "OHAI"
  BY <1>2 DEF Execute, Turn, Goes, Event, Answer
<1>3. CASE m = "ICANHAZ"
  BY <1>3 DEF Execute, Turn, Goes, Event, Answer
<1>4. CASE m = "HUGZ"
  BY <1>4 DEF Execute, Turn, Goes, Event, Answer
<1>5. CASE m = "OTHER"
  BY <1>5 DEF Execute, Turn, Goes, Event, Answer
<1> QED BY <1>1, <1>2, <1>3, <1>4, <1>5 DEF Command

NomLetter == [from : NomClient, command : Command]

\* The types but those that are one of two values.
NomTyped ==
    /\ session \in [NomClient -> {"none", "start", "ready"}]
    /\ due \in [NomClient -> -1 .. NomHeartbeat]
    /\ router \in Seq(NomLetter)
    /\ orders \in Seq({"BIND", "STOP"})
    /\ DOMAIN told = NomClient
    /\ \A c \in NomClient : told[c] \in {"none", "WTF"} <=> session[c] # "ready"

NomPhases ==
    /\ caller \in {"new", "waits", "destroys"}
    /\ agent \in {"loop", "poll", "hour", "endless", "stopped"}
    /\ bound \in BOOLEAN

\* The two parts are the type invariant of the runs.
LEMMA NomTypesAre == NomTyped /\ NomPhases => NomTypeOK
<1> SUFFICES ASSUME NomTyped, NomPhases PROVE NomTypeOK
  OBVIOUS
<1>1. \A c \in NomClient : (told[c] \in {"none", "WTF"}) = (session[c] # "ready")
  <2> SUFFICES ASSUME NEW c \in NomClient
               PROVE  (told[c] \in {"none", "WTF"}) = (session[c] # "ready")
    OBVIOUS
  <2>1. told[c] \in {"none", "WTF"} <=> session[c] # "ready"
    BY DEF NomTyped
  <2> QED BY <2>1
<1>2. /\ session \in [NomClient -> {"none", "start", "ready"}]
      /\ due \in [NomClient -> -1 .. NomHeartbeat]
      /\ router \in Seq([from : NomClient, command : Command])
      /\ orders \in Seq({"BIND", "STOP"})
  BY DEF NomTyped, NomLetter
<1> QED BY <1>1, <1>2, Zenon DEF NomTypeOK, NomPhases

\* Nobody is known, nothing is under way and no order is given.
LEMMA NomBegins == NomInit => NomTyped /\ NomPhases
<1> SUFFICES ASSUME NomInit PROVE NomTyped /\ NomPhases
  OBVIOUS
<1>1. NomTyped
  BY NomAssumption DEF NomInit, NomTyped
<1>2. NomPhases
  BY DEF NomInit, NomPhases
<1> QED BY <1>1, <1>2

\* A client sends a command.
LEMMA SendTyped ==
    ASSUME NomTyped, NEW c \in NomClient, NEW m \in Command, NomSendOne(c, m),
           UNCHANGED <<session, due, orders, told>>
    PROVE  NomTyped'
<1>1. [from |-> c, command |-> m] \in NomLetter
  BY DEF NomLetter
<1>2. router' \in Seq(NomLetter)
  BY <1>1 DEF NomTyped, NomSendOne
<1> QED BY <1>2 DEF NomTyped

\* The caller orders the agent to bind or to stop.
LEMMA OrderTyped ==
    ASSUME NomTyped, Bind \/ Destroy
    PROVE  NomTyped'
<1>1. orders' \in Seq({"BIND", "STOP"})
  <2>1. orders \in Seq({"BIND", "STOP"}) /\ \E o \in {"BIND", "STOP"} : orders' = Append(orders, o)
    BY DEF NomTyped, Bind, Destroy
  <2> QED BY <2>1
<1>2. UNCHANGED <<session, due, router, told>>
  BY DEF Bind, Destroy
<1> QED BY <1>1, <1>2 DEF NomTyped

\* Time passes for those whose heartbeat is still to come.
LEMMA TickTyped ==
    ASSUME NomTyped, NomTick
    PROVE  NomTyped'
<1>1. due' \in [NomClient -> -1 .. NomHeartbeat]
  BY NomAssumption DEF NomTyped, NomTick
<1>2. UNCHANGED <<session, orders, router, told>>
  BY DEF NomTick, callerVars
<1> QED BY <1>1, <1>2 DEF NomTyped

\* What a turn of the agent does to a client.
LEMMA WakeIs ==
    ASSUME NomTyped, Wake
    PROVE  /\ NomTyped'
           /\ Readable => /\ Head(router) \in NomLetter /\ router' = Tail(router)
                          /\ Current(Head(router).from) \in {"start", "ready"}
                          /\ session'[Head(router).from] = Executed.state
           /\ ~Readable => router' = router
           /\ \A c \in NomClient : ~(Readable /\ Head(router).from = c) => session'[c] = session[c]
<1> DEFINE v == Head(router).from
<1>0. /\ session \in [NomClient -> {"none", "start", "ready"}] /\ router \in Seq(NomLetter)
      /\ due \in [NomClient -> -1 .. NomHeartbeat]
  BY DEF NomTyped
<1>1. Readable => /\ Head(router) \in NomLetter /\ router' = Tail(router) /\ Tail(router) \in Seq(NomLetter)
                  /\ v \in NomClient /\ Current(v) \in {"start", "ready"}
                  /\ session' = [session EXCEPT ![v] = Executed.state]
  <2> SUFFICES ASSUME Readable PROVE /\ Head(router) \in NomLetter /\ router' = Tail(router) /\ Tail(router) \in Seq(NomLetter)
                  /\ v \in NomClient /\ Current(v) \in {"start", "ready"}
                  /\ session' = [session EXCEPT ![v] = Executed.state]
    OBVIOUS
  <2>1. router # <<>> /\ router' = Tail(router) /\ session' = [session EXCEPT ![v] = Executed.state]
    BY DEF Wake, ClientMessage, Readable
  <2>2. Head(router) \in NomLetter /\ Tail(router) \in Seq(NomLetter)
    BY <1>0, <2>1
  <2>3. v \in NomClient
    BY <2>2 DEF NomLetter
  <2>4. Current(v) \in {"start", "ready"}
    BY <1>0, <2>3 DEF Current
  <2> QED BY <2>1, <2>2, <2>3, <2>4
<1>2. Readable => LET m == Head(router).command
                  IN  /\ Executed.state \in {"start", "ready"} /\ Executed.reply \in Answer
                      /\ Current(v) = "ready" => Executed.state = "ready" /\ Executed.reply # "WTF"
                      /\ Current(v) = "start" /\ Executed.state = "ready" => Executed.reply = "OHAI-OK"
                      /\ Current(v) = "start" /\ Executed.state = "start" => Executed.reply \in {"none", "WTF"}
  <2> SUFFICES ASSUME Readable, NEW m, m = Head(router).command
               PROVE  /\ Executed.state \in {"start", "ready"} /\ Executed.reply \in Answer
                      /\ Current(v) = "ready" => Executed.state = "ready" /\ Executed.reply # "WTF"
                      /\ Current(v) = "start" /\ Executed.state = "ready" => Executed.reply = "OHAI-OK"
                      /\ Current(v) = "start" /\ Executed.state = "start" => Executed.reply \in {"none", "WTF"}
    OBVIOUS
  <2>1. m \in Command /\ Current(v) \in {"start", "ready"} /\ Executed = Execute(Current(v), Event(m), m)
    BY <1>1 DEF NomLetter, Executed
  <2> DEFINE s == Current(v)
             e == Execute(s, Event(m), m)
  <2>2. /\ s = "ready" => e.state = "ready" /\ e.reply \in Answer \ {"WTF"}
        /\ s = "start" /\ m = "OHAI-Joe" => e.state = "ready" /\ e.reply = "OHAI-OK"
        /\ s = "start" /\ m = "OHAI" => e.state = "start" /\ e.reply = "WTF"
        /\ s = "start" /\ m \notin {"OHAI", "OHAI-Joe"} => e.state = "start" /\ e.reply = "none"
    BY <2>1, ExecuteIs
  <2>3. Executed = e /\ s \in {"start", "ready"}
    BY <2>1
  <2> HIDE DEF e, s
  <2>4. /\ e.state \in {"start", "ready"} /\ e.reply \in Answer
        /\ s = "ready" => e.state = "ready" /\ e.reply # "WTF"
        /\ s = "start" /\ e.state = "ready" => e.reply = "OHAI-OK"
        /\ s = "start" /\ e.state = "start" => e.reply \in {"none", "WTF"}
    <3>1. CASE s = "ready"
      BY <2>2, <3>1
    <3>2. CASE s = "start"
      BY <2>2, <3>2 DEF Answer
    <3> QED BY <2>3, <3>1, <3>2
  <2> QED BY <2>3, <2>4 DEF s
<1>3. \A c \in NomClient : ~(Readable /\ v = c) => session'[c] = session[c]
  <2>1. CASE Readable
    BY <1>0, <1>1, <2>1
  <2>2. CASE ~Readable
    BY <2>2 DEF Wake, ClientMessage
  <2> QED BY <2>1, <2>2
<1>4. session' \in [NomClient -> {"none", "start", "ready"}]
  <2>1. CASE Readable
    BY <1>0, <1>1, <1>2, <2>1
  <2>2. CASE ~Readable
    BY <1>0, <2>2 DEF Wake, ClientMessage
  <2> QED BY <2>1, <2>2
<1>5. due' \in [NomClient -> -1 .. NomHeartbeat]
  <2>1. due' = [c \in NomClient |-> IF c \in Refreshed THEN NomHeartbeat ELSE due[c]]
    BY DEF Wake
  <2> QED BY <1>0, <2>1, NomAssumption
<1>6. ~Readable => router' = router
  BY DEF Wake, ClientMessage
<1>7. orders' \in Seq({"BIND", "STOP"})
  <2>1. orders \in Seq({"BIND", "STOP"}) /\ orders' = IF orders # <<>> THEN Tail(orders) ELSE orders
    BY DEF NomTyped, Wake, ControlMessage, Controlled
  <2> QED BY <2>1
<1>8. DOMAIN told' = NomClient /\ \A c \in NomClient : told'[c] = IF Says(c) = "none" THEN told[c] ELSE Says(c)
  BY DEF Wake
<1>9. ASSUME NEW c \in NomClient PROVE told'[c] \in {"none", "WTF"} <=> session'[c] # "ready"
  <2>0. told[c] \in {"none", "WTF"} <=> session[c] # "ready"
    BY DEF NomTyped
  <2>1. CASE Readable /\ v = c
    <3>1. Says(c) = Executed.reply /\ session'[c] = Executed.state
      BY <1>0, <1>1, <2>1 DEF Says
    <3>2. Current(c) = IF session[c] = "none" THEN "start" ELSE session[c]
      BY DEF Current
    <3>3. CASE session[c] = "ready"
      <4>1. Current(c) = "ready" /\ Executed.state = "ready" /\ Executed.reply \in Answer /\ Executed.reply # "WTF"
        BY <1>2, <2>1, <3>2, <3>3
      <4> QED BY <1>8, <2>0, <3>1, <3>3, <4>1
    <3>4. CASE session[c] # "ready"
      <4>1. Current(c) = "start" /\ told[c] \in {"none", "WTF"}
        BY <1>0, <2>0, <3>2, <3>4
      <4>2. \/ Executed.state = "ready" /\ Executed.reply = "OHAI-OK"
            \/ Executed.state = "start" /\ Executed.reply \in {"none", "WTF"}
        BY <1>2, <2>1, <4>1
      <4>3. told'[c] = IF Executed.reply = "none" THEN told[c] ELSE Executed.reply
        BY <1>8, <3>1
      <4> QED BY <3>1, <4>1, <4>2, <4>3
    <3> QED BY <3>3, <3>4
  <2>2. CASE ~(Readable /\ v = c)
    <3>1. session'[c] = session[c]
      BY <1>3, <2>2
    <3>2. Says(c) = IF c \in Ping /\ session[c] = "ready" THEN "HUGZ" ELSE "none"
      BY <2>2 DEF Says
    <3>3. told'[c] = IF Says(c) = "none" THEN told[c] ELSE Says(c)
      BY <1>8
    <3> QED BY <2>0, <3>1, <3>2, <3>3
  <2> QED BY <2>1, <2>2
<1>10. router' \in Seq(NomLetter)
  BY <1>0, <1>1, <1>6
<1>11. NomTyped'
  BY <1>4, <1>5, <1>7, <1>8, <1>9, <1>10 DEF NomTyped
<1>12. Readable => session'[v] = Executed.state
  BY <1>0, <1>1
<1> QED BY <1>1, <1>3, <1>6, <1>11, <1>12

\* Every step of the agent, its caller and its clients keeps the types.
LEMMA NomStep == NomTyped /\ NomPhases /\ [NomNext]_nomVars => NomTyped' /\ NomPhases'
<1> SUFFICES ASSUME NomTyped, NomPhases, [NomNext]_nomVars PROVE NomTyped' /\ NomPhases'
  OBVIOUS
<1>1. NomTyped'
  <2>1. ASSUME NEW c \in NomClient, NomSend(c) PROVE NomTyped'
    BY <2>1, SendTyped DEF NomSend, callerVars
  <2>2. CASE EnterPoll \/ UNCHANGED nomVars
    BY <2>2 DEF EnterPoll, nomVars, callerVars, NomTyped
  <2> QED BY <2>1, <2>2, OrderTyped, TickTyped, WakeIs DEF NomNext
<1>2. NomPhases'
  <2>1. caller' \in {"new", "waits", "destroys"}
    <3>1. caller' \in {caller, "waits", "destroys"}
      BY Zenon DEF NomNext, nomVars, callerVars, NomSend, Bind, Destroy, NomTick, EnterPoll, Wake
    <3> QED BY <3>1 DEF NomPhases
  <2>2. agent' \in {"loop", "poll", "hour", "endless", "stopped"}
    <3>1. agent' \in {agent, "loop", "stopped", Tickless}
      BY Zenon DEF NomNext, nomVars, callerVars, NomSend, Bind, Destroy, NomTick, EnterPoll, Wake, ControlMessage
    <3>2. Tickless \in {"poll", "hour", "endless"}
      BY DEF Tickless
    <3> QED BY <3>1, <3>2 DEF NomPhases
  <2>3. bound' \in BOOLEAN
    <3>1. bound' = bound \/ bound' \in BOOLEAN
      BY Zenon DEF NomNext, nomVars, callerVars, NomSend, Bind, Destroy, NomTick, EnterPoll, Wake, ControlMessage
    <3>2. bound \in BOOLEAN
      BY DEF NomPhases
    <3> QED BY <3>1, <3>2
  <2> QED BY <2>1, <2>2, <2>3 DEF NomPhases
<1> QED BY <1>1, <1>2

\* The state of the NOM server has its types, for any number of clients and any interval: a
\* heartbeat is never more than one tick late, and whoever was answered anything but WTF is
\* ready (nom_server.c).
THEOREM NomAgentTyped == NomSpec => []NomTypeOK
<1> QED BY NomTypesAre, NomBegins, NomStep, PTL DEF NomSpec

----------------------------------------------------------------------------
(* The self-test of that server: it fails only when it is slow itself.     *)

testAllVars == <<nomVars, testVars>>
SelfTestSpec == NomInit /\ TestInit /\ [][TestNext]_testAllVars

\* The state of the test's client before a line of the script.
Before(n) == IF n = 1 THEN "none" ELSE IF n = 2 THEN "start" ELSE "ready"
Beats(q) == \A i \in DOMAIN q : q[i] = "HUGZ"

\* Between two lines nothing is under way but heartbeats, which come of an interval of silence.
Rests ==
    /\ router = <<>> /\ session[Dealer] = Before(line)
    /\ Beats(came) /\ (came # <<>> => silence >= NomHeartbeat)

\* A message of the script is not read yet: no time has passed.
Sending ==
    /\ router = <<[from |-> Dealer, command |-> Script[line][1]]>>
    /\ session[Dealer] = Before(line) /\ patience = RcvTimeo
    /\ Beats(came)
    /\ slow \/ (came = <<>> /\ (session[Dealer] # "none" => due[Dealer] > 0))

\* Or it is read, and its answer has come, after heartbeats if the test was slow.
Answered ==
    /\ router = <<>> /\ session[Dealer] = Before(line + 1)
    /\ \E k \in DOMAIN came :
          /\ came[k] = Script[line][2] /\ \A i \in DOMAIN came : i # k => came[i] = "HUGZ"
          /\ slow \/ k = 1
          /\ Len(came) > k => silence >= NomHeartbeat

\* The last line waits for a heartbeat, which comes in time.
Listens ==
    /\ router = <<>> /\ session[Dealer] = "ready"
    /\ Beats(came) /\ (came # <<>> => silence >= NomHeartbeat)
    /\ came = <<>> => patience >= NomHeartbeat + due[Dealer]

\* The agent is in time: it is bound or about to be, and its poll ends with the interval of
\* the one client it knows.
InTime ==
    /\ caller \in {"new", "waits"} /\ agent \in {"loop", "poll", "hour"}
    /\ caller = "new" => ~receives /\ router = <<>> /\ orders = <<>>
    /\ caller = "waits" => bound \/ orders = <<"BIND">>
    /\ orders \in {<<>>, <<"BIND">>}
    /\ \A c \in NomClient \ {Dealer} : session[c] = "none"
    /\ session[Dealer] # "none" => due[Dealer] \in 0 .. NomHeartbeat
    /\ session[Dealer] # "none" /\ router = <<>> => due[Dealer] + silence >= NomHeartbeat
    /\ agent = "hour" => session[Dealer] = "none"

Stage ==
    \/ ~receives /\ Rests
    \/ receives /\ line \in 1 .. 4 /\ (Sending \/ Answered)
    \/ receives /\ line = 5 /\ Listens

TestTyped ==
    /\ line \in 1 .. 6 /\ came \in Seq(Answer \ {"none"})
    /\ patience \in 0 .. RcvTimeo /\ silence \in Nat
    /\ receives \in BOOLEAN /\ slow \in BOOLEAN

TestInv ==
    /\ NomTyped /\ TestTyped
    /\ verdict \in {"runs", "another", "OK"} /\ (verdict = "another" => slow)
    /\ verdict = "runs" => InTime /\ Stage

\* The script of the self-test, line by line, and what its client waits.
LEMMA ScriptIs ==
    /\ Len(Script) = 5 /\ Dealer \in NomClient /\ NomHeartbeat \in Nat /\ NomHeartbeat > 0
    /\ RcvTimeo = NomHeartbeat + NomHeartbeat
    /\ Script[1][1] = "OHAI" /\ Script[1][2] = "WTF"
    /\ Script[2][1] = "OHAI-Joe" /\ Script[2][2] = "OHAI-OK"
    /\ Script[3][1] = "ICANHAZ" /\ Script[3][2] = "CHEEZBURGER"
    /\ Script[4][1] = "HUGZ" /\ Script[4][2] = "HUGZ-OK"
    /\ Script[5][1] = "none" /\ Script[5][2] = "HUGZ"
    /\ \A n \in 1 .. 4 : /\ Script[n][1] \in Command /\ Script[n][1] # "none"
                         /\ Script[n][2] \in Answer /\ Script[n][2] \notin {"HUGZ", "none"}
<1>1. /\ Script[1][1] = "OHAI" /\ Script[1][2] = "WTF"
      /\ Script[2][1] = "OHAI-Joe" /\ Script[2][2] = "OHAI-OK"
      /\ Script[3][1] = "ICANHAZ" /\ Script[3][2] = "CHEEZBURGER"
      /\ Script[4][1] = "HUGZ" /\ Script[4][2] = "HUGZ-OK"
      /\ Script[5][1] = "none" /\ Script[5][2] = "HUGZ"
  BY DEF Script
<1>2. Len(Script) = 5
  BY DEF Script
<1>3. Dealer \in NomClient /\ NomHeartbeat \in Nat /\ NomHeartbeat > 0 /\ RcvTimeo = NomHeartbeat + NomHeartbeat
  BY DealerAssumption, NomAssumption DEF RcvTimeo
<1>4. ASSUME NEW n \in 1 .. 4
      PROVE  /\ Script[n][1] \in Command /\ Script[n][1] # "none"
             /\ Script[n][2] \in Answer /\ Script[n][2] \notin {"HUGZ", "none"}
  <2>1. n = 1 \/ n = 2 \/ n = 3 \/ n = 4
    OBVIOUS
  <2> QED BY <1>1, <2>1 DEF Command, Answer
<1> QED BY <1>1, <1>2, <1>3, <1>4

\* The self-test begins before its first line.
LEMMA TestBegins == NomInit /\ TestInit => TestInv
<1> SUFFICES ASSUME NomInit, TestInit PROVE TestInv
  OBVIOUS
<1>1. NomTyped
  BY NomBegins
<1>2. TestTyped
  <2>1. line \in 1 .. 6 /\ came \in Seq(Answer \ {"none"}) /\ patience \in 0 .. RcvTimeo /\ silence \in Nat
    BY ScriptIs DEF TestInit
  <2>2. receives \in BOOLEAN /\ slow \in BOOLEAN
    BY DEF TestInit
  <2> QED BY <2>1, <2>2 DEF TestTyped
<1>3. InTime
  BY ScriptIs DEF NomInit, TestInit, InTime
<1>4. Rests /\ ~receives
  BY ScriptIs DEF NomInit, TestInit, Rests, Beats, Before
<1>5. verdict = "runs"
  BY DEF TestInit
<1> QED BY <1>1, <1>2, <1>3, <1>4, <1>5 DEF TestInv, Stage

\* The test sends the line it is at, or only begins to wait for the heartbeat.
LEMMA TestSendStep ==
    ASSUME TestInv, TestSend
    PROVE  TestInv'
<1>0. /\ verdict = "runs" /\ caller # "new" /\ line \in 1 .. 5 /\ ~receives /\ receives'
      /\ patience' = RcvTimeo /\ InTime /\ Rests /\ NomTyped /\ TestTyped
      /\ UNCHANGED <<session, due, caller, orders, bound, agent, told, line, came, verdict>>
  <2>1. verdict = "runs" /\ ~receives /\ receives' /\ caller # "new" /\ line <= Len(Script) /\ patience' = RcvTimeo
    BY DEF TestSend
  <2>2. InTime /\ Rests /\ NomTyped /\ TestTyped
    BY <2>1 DEF TestInv, Stage
  <2>3. line \in 1 .. 5
    BY <2>1, <2>2, ScriptIs DEF TestTyped
  <2>4. UNCHANGED <<session, due, caller, orders, bound, agent, told, line, came, verdict>>
    BY DEF TestSend, callerVars
  <2> QED BY <2>1, <2>2, <2>3, <2>4
<1>1. CASE line = 5
  <2>1. UNCHANGED <<router, silence, slow>>
    BY <1>1, ScriptIs DEF TestSend
  <2>2. NomTyped' /\ InTime'
    <3>1. NomTyped'
      BY <1>0, <2>1 DEF NomTyped
    <3>2. InTime'
      BY <1>0, <2>1 DEF InTime
    <3> QED BY <3>1, <3>2
  <2>3. Listens'
    <3>1. session[Dealer] = "ready" /\ router = <<>> /\ due[Dealer] \in 0 .. NomHeartbeat
      BY <1>0, <1>1 DEF Rests, Before, InTime
    <3> QED BY <1>0, <2>1, <3>1, ScriptIs DEF Listens, Rests, Beats
  <2>4. TestTyped'
    <3>1. receives' \in BOOLEAN /\ slow' \in BOOLEAN
      BY <1>0, <2>1 DEF TestTyped
    <3>2. line' \in 1 .. 6 /\ came' \in Seq(Answer \ {"none"}) /\ patience' \in 0 .. RcvTimeo /\ silence' \in Nat
      BY <1>0, <2>1, ScriptIs DEF TestTyped
    <3> QED BY <3>1, <3>2 DEF TestTyped
  <2> QED BY <1>0, <1>1, <2>2, <2>3, <2>4 DEF TestInv, Stage
<1>2. CASE line \in 1 .. 4
  <2>0. Script[line][1] # "none" /\ Script[line][1] \in Command
    BY <1>2, ScriptIs
  <2>1. NomSendOne(Dealer, Script[line][1]) /\ silence' = 0 /\ (slow' <=> slow \/ silence >= NomHeartbeat)
    BY <2>0, Zenon DEF TestSend
  <2>2. NomTyped'
    BY <1>0, <2>0, <2>1, SendTyped, ScriptIs
  <2>3. InTime'
    <3>1. router' # <<>> /\ caller = "waits"
      BY <1>0, <2>1 DEF NomSendOne, Rests, InTime
    <3> QED BY <1>0, <3>1 DEF InTime
  <2>4. Sending'
    <3>1. router' = <<[from |-> Dealer, command |-> Script[line][1]]>>
      BY <1>0, <2>1 DEF NomSendOne, Rests
    <3>2. slow' \/ (came = <<>> /\ (session[Dealer] # "none" => due[Dealer] > 0))
      <4>1. CASE silence >= NomHeartbeat
        BY <2>1, <4>1
      <4>2. CASE ~(silence >= NomHeartbeat)
        <5>1. came = <<>> /\ router = <<>>
          BY <1>0, <4>2 DEF Rests
        <5>2. ASSUME session[Dealer] # "none" PROVE due[Dealer] > 0
          <6>1. due[Dealer] + silence >= NomHeartbeat /\ due[Dealer] \in 0 .. NomHeartbeat
            BY <1>0, <5>1, <5>2 DEF InTime
          <6>2. silence \in Nat
            BY <1>0 DEF TestTyped
          <6> QED BY <4>2, <6>1, <6>2, ScriptIs
        <5> QED BY <5>1, <5>2
      <4> QED BY <4>1, <4>2
    <3> QED BY <1>0, <3>1, <3>2 DEF Sending, Rests, Beats
  <2>5. TestTyped'
    <3>1. receives' \in BOOLEAN /\ slow' \in BOOLEAN
      <4>1. slow' = (slow \/ silence >= NomHeartbeat)
        BY <2>0, Zenon DEF TestSend
      <4>2. receives' = TRUE
        BY DEF TestSend
      <4> QED BY <4>1, <4>2, Zenon
    <3>2. line' \in 1 .. 6 /\ came' \in Seq(Answer \ {"none"}) /\ patience' \in 0 .. RcvTimeo /\ silence' \in Nat
      BY <1>0, <2>1, ScriptIs DEF TestTyped
    <3> QED BY <3>1, <3>2 DEF TestTyped
  <2> QED BY <1>0, <1>2, <2>2, <2>3, <2>4, <2>5 DEF TestInv, Stage
<1>3. line = 5 \/ line \in 1 .. 4
  BY <1>0
<1> QED BY <1>1, <1>2, <1>3

\* An answer that is read is the one that is asserted, unless the test was slow.
LEMMA TestReceiveStep ==
    ASSUME TestInv, TestReceive
    PROVE  TestInv'
<1>0. /\ verdict = "runs" /\ receives /\ ~receives' /\ came # <<>> /\ came' = Tail(came)
      /\ InTime /\ NomTyped /\ TestTyped /\ receives' \in BOOLEAN
      /\ UNCHANGED <<session, due, router, caller, orders, bound, agent, told, patience, silence, slow>>
  BY DEF TestReceive, TestInv, nomVars, callerVars
<1>1. NomTyped' /\ InTime'
  <2>1. NomTyped'
    BY <1>0 DEF NomTyped
  <2>2. InTime'
    BY <1>0 DEF InTime
  <2> QED BY <2>1, <2>2
<1>2. /\ Tail(came) \in Seq(Answer \ {"none"}) /\ Len(came) \in Nat /\ Len(came) > 0 /\ Head(came) = came[1]
      /\ Len(Tail(came)) = Len(came) - 1 /\ DOMAIN came = 1 .. Len(came)
      /\ DOMAIN Tail(came) = 1 .. Len(came) - 1
      /\ \A i \in 1 .. Len(came) - 1 : Tail(came)[i] = came[i + 1]
  <2>1. came \in Seq(Answer \ {"none"}) /\ came # <<>>
    BY <1>0 DEF TestTyped
  <2> QED BY <2>1
<1>3. TestTyped'
  <2>1. patience' \in 0 .. RcvTimeo /\ silence' \in Nat /\ came' \in Seq(Answer \ {"none"})
    BY <1>0, <1>2 DEF TestTyped
  <2>2. line' \in 1 .. 6
    <3>1. line \in 1 .. 5
      BY <1>0 DEF TestInv, Stage
    <3>2. line' = line + 1 \/ line' = line
      BY DEF TestReceive
    <3> QED BY <3>1, <3>2
  <2>3. slow' \in BOOLEAN
    BY <1>0 DEF TestTyped
  <2> QED BY <1>0, <2>1, <2>2, <2>3 DEF TestTyped
<1>4. CASE Head(came) = Script[line][2]
  <2>1. line' = line + 1 /\ verdict' = "runs"
    BY <1>0, <1>4 DEF TestReceive
  <2>2. Rests'
    <3>1. CASE line \in 1 .. 4 /\ Sending
      <4>1. Head(came) = "HUGZ" /\ Script[line][2] # "HUGZ"
        BY <1>2, <3>1, ScriptIs DEF Sending, Beats
      <4> QED BY <1>4, <4>1
    <3>2. CASE line \in 1 .. 4 /\ Answered
      <4>1. PICK k \in DOMAIN came :
                    /\ came[k] = Script[line][2] /\ \A i \in DOMAIN came : i # k => came[i] = "HUGZ"
                    /\ Len(came) > k => silence >= NomHeartbeat
        BY <3>2 DEF Answered
      <4>2. k = 1
        BY <1>2, <1>4, <3>2, <4>1, ScriptIs
      <4>3. Beats(Tail(came)) /\ (Tail(came) # <<>> => silence >= NomHeartbeat)
        <5>1. Beats(Tail(came))
          BY <1>2, <4>1, <4>2 DEF Beats
        <5>2. ASSUME Tail(came) # <<>> PROVE silence >= NomHeartbeat
          <6>1. Len(Tail(came)) # 0
            BY <1>2, <5>2
          <6> QED BY <1>2, <4>1, <4>2, <6>1
        <5> QED BY <5>1, <5>2
      <4> QED BY <1>0, <2>1, <3>2, <4>3 DEF Rests, Answered
    <3>3. CASE line = 5 /\ Listens
      <4>1. Beats(Tail(came))
        BY <1>2, <3>3 DEF Listens, Beats
      <4> QED BY <1>0, <2>1, <3>3, <4>1 DEF Listens, Rests, Before
    <3> QED BY <1>0, <3>1, <3>2, <3>3 DEF TestInv, Stage
  <2> QED BY <1>0, <1>1, <1>3, <2>1, <2>2 DEF TestInv, Stage
<1>5. CASE Head(came) # Script[line][2]
  <2>1. verdict' = "another"
    BY <1>5 DEF TestReceive
  <2>2. slow
    <3>1. CASE line \in 1 .. 4 /\ Sending
      BY <1>0, <3>1 DEF Sending
    <3>2. CASE line \in 1 .. 4 /\ Answered
      <4>1. PICK k \in DOMAIN came : came[k] = Script[line][2] /\ (slow \/ k = 1)
        BY <3>2 DEF Answered
      <4> QED BY <1>2, <1>5, <4>1
    <3>3. CASE line = 5 /\ Listens
      BY <1>2, <1>5, <3>3, ScriptIs DEF Listens, Beats
    <3> QED BY <1>0, <3>1, <3>2, <3>3 DEF TestInv, Stage
  <2> QED BY <1>0, <1>1, <1>3, <2>1, <2>2 DEF TestInv
<1> QED BY <1>4, <1>5

\* The test never waits in vain.
LEMMA TestTimeoutNever == TestInv => ~TestTimeout
<1> SUFFICES ASSUME TestInv, TestTimeout PROVE FALSE
  OBVIOUS
<1>1. verdict = "runs" /\ receives /\ came = <<>> /\ patience = 0
  BY DEF TestTimeout
<1>2. InTime /\ Stage
  BY <1>1 DEF TestInv
<1>3. ~Sending
  BY <1>1, ScriptIs DEF Sending
<1>4. ~Answered
  BY <1>1 DEF Answered
<1>5. ~Listens
  <2> SUFFICES ASSUME Listens PROVE FALSE
    OBVIOUS
  <2>1. due[Dealer] \in 0 .. NomHeartbeat /\ patience >= NomHeartbeat + due[Dealer]
    BY <1>1, <1>2 DEF Listens, InTime
  <2> QED BY <1>1, <2>1, ScriptIs
<1> QED BY <1>1, <1>2, <1>3, <1>4, <1>5 DEF Stage

\* Time passes only when the agent has nothing to do.
LEMMA TestTickStep ==
    ASSUME TestInv, TestTick
    PROVE  TestInv'
<1>0. /\ verdict = "runs" /\ agent \in {"poll", "hour"} /\ ~Awake /\ NomTick /\ silence' = silence + 1
      /\ patience' = (IF receives THEN patience - 1 ELSE patience) /\ (receives => patience > 0)
      /\ InTime /\ Stage /\ NomTyped /\ TestTyped
      /\ UNCHANGED <<session, router, caller, orders, bound, agent, told, line, receives, came, slow, verdict>>
  BY DEF TestTick, TestInv, NomTick, callerVars
<1>1. orders = <<>> /\ ~(bound /\ router # <<>>)
  BY <1>0 DEF Awake, Controlled, Readable
<1>2. router = <<>>
  BY <1>0, <1>1 DEF InTime
<1>3. ASSUME session[Dealer] # "none" PROVE due[Dealer] \in 1 .. NomHeartbeat /\ due'[Dealer] = due[Dealer] - 1
  <2>1. agent = "poll" /\ due[Dealer] \in 0 .. NomHeartbeat
    BY <1>0, <1>3 DEF InTime
  <2>2. Dealer \notin Ping
    BY <1>0, <2>1 DEF Awake
  <2>3. ~(due[Dealer] <= 0)
    BY <1>3, <2>2, ScriptIs DEF Ping, Known
  <2>4. due[Dealer] \in 1 .. NomHeartbeat
    BY <2>1, <2>3, ScriptIs
  <2>5. due' = [c \in NomClient |-> IF due[c] < 0 THEN due[c] ELSE due[c] - 1]
    BY <1>0 DEF NomTick
  <2> QED BY <2>4, <2>5, ScriptIs
<1>4. NomTyped'
  BY <1>0, TickTyped
<1>5. silence \in Nat /\ patience \in 0 .. RcvTimeo
  BY <1>0 DEF TestTyped
<1>6. TestTyped'
  <2>1. line' \in 1 .. 6 /\ came' \in Seq(Answer \ {"none"}) /\ receives' \in BOOLEAN /\ slow' \in BOOLEAN
    BY <1>0 DEF TestTyped
  <2>2. silence' \in Nat
    BY <1>0, <1>5
  <2>3. patience' \in 0 .. RcvTimeo
    BY <1>0, <1>5, ScriptIs
  <2> QED BY <2>1, <2>2, <2>3 DEF TestTyped
<1>7. InTime'
  <2>1. session'[Dealer] # "none" => due'[Dealer] \in 0 .. NomHeartbeat
    BY <1>0, <1>3, ScriptIs
  <2>2. session'[Dealer] # "none" /\ router' = <<>> => due'[Dealer] + silence' >= NomHeartbeat
    <3> SUFFICES ASSUME session[Dealer] # "none" PROVE due'[Dealer] + silence' >= NomHeartbeat
      BY <1>0
    <3>1. due[Dealer] + silence >= NomHeartbeat
      BY <1>0, <1>2 DEF InTime
    <3> QED BY <1>0, <1>3, <1>5, <3>1, ScriptIs
  <2> QED BY <1>0, <2>1, <2>2 DEF InTime
<1>8. Stage'
  <2>1. CASE ~receives /\ Rests
    BY <1>0, <1>5, <2>1, ScriptIs DEF Rests, Beats, Stage
  <2>2. CASE receives /\ line \in 1 .. 4 /\ Sending
    <3>1. Len(router) = 1
      BY <2>2 DEF Sending
    <3> QED BY <1>2, <3>1
  <2>3. CASE receives /\ line \in 1 .. 4 /\ Answered
    <3>1. PICK k \in DOMAIN came :
              /\ came[k] = Script[line][2] /\ \A i \in DOMAIN came : i # k => came[i] = "HUGZ"
              /\ slow \/ k = 1
              /\ Len(came) > k => silence >= NomHeartbeat
      BY <2>3 DEF Answered
    <3>2. Len(came) > k => silence' >= NomHeartbeat
      BY <1>0, <1>5, <3>1, ScriptIs
    <3>3. router' = <<>> /\ session'[Dealer] = Before(line' + 1)
      BY <1>0, <2>3 DEF Answered
    <3>4. Answered'
      BY <1>0, <3>1, <3>2, <3>3 DEF Answered
    <3> QED BY <1>0, <2>3, <3>4 DEF Stage
  <2>4. CASE receives /\ line = 5 /\ Listens
    <3>1. session[Dealer] # "none"
      BY <2>4 DEF Listens
    <3>2. patience' = patience - 1 /\ due'[Dealer] = due[Dealer] - 1 /\ due[Dealer] \in 1 .. NomHeartbeat
      BY <1>0, <1>3, <2>4, <3>1
    <3>3. came = <<>> => patience' >= NomHeartbeat + due'[Dealer]
      BY <1>5, <2>4, <3>2, ScriptIs DEF Listens
    <3>4. came # <<>> => silence' >= NomHeartbeat
      BY <1>0, <1>5, <2>4, ScriptIs DEF Listens
    <3> QED BY <1>0, <2>4, <3>3, <3>4 DEF Listens, Beats, Stage
  <2> QED BY <1>0, <2>1, <2>2, <2>3, <2>4 DEF Stage
<1> QED BY <1>0, <1>4, <1>6, <1>7, <1>8 DEF TestInv

\* The last of a list and those before it.
LEMMA CameIs ==
    ASSUME NEW S, NEW q \in Seq(S), NEW x \in S
    PROVE  /\ Append(q, x) \in Seq(S) /\ Append(q, x) # <<>> /\ Len(q) \in Nat
           /\ DOMAIN q = 1 .. Len(q) /\ DOMAIN Append(q, x) = 1 .. Len(q) + 1
           /\ Len(Append(q, x)) = Len(q) + 1
           /\ \A i \in 1 .. Len(q) : Append(q, x)[i] = q[i]
           /\ Append(q, x)[Len(q) + 1] = x
OBVIOUS

\* What the agent says when it wakes up.
LEMMA TestWakeStep ==
    ASSUME TestInv, TestWake
    PROVE  TestInv'
<1> DEFINE says == Says(Dealer)
<1>0. /\ Wake /\ NomTyped /\ TestTyped
      /\ came' = IF says = "none" THEN came ELSE Append(came, says)
      /\ UNCHANGED <<line, receives, patience, silence, slow, verdict, caller>>
  BY DEF TestWake, TestInv, Wake
<1>1. /\ NomTyped'
      /\ Readable => /\ Head(router) \in NomLetter /\ router' = Tail(router)
                     /\ Current(Head(router).from) \in {"start", "ready"}
                     /\ session'[Head(router).from] = Executed.state
      /\ ~Readable => router' = router
      /\ \A c \in NomClient : ~(Readable /\ Head(router).from = c) => session'[c] = session[c]
  BY <1>0, WakeIs
<1>2. says \in Answer
  <2>1. CASE Readable /\ Head(router).from = Dealer
    <3> DEFINE m == Head(router).command
               s == Current(Dealer)
    <3>1. m \in Command /\ s \in {"start", "ready"} /\ says = Execute(s, Event(m), m).reply
      BY <1>1, <2>1 DEF NomLetter, Says, Executed
    <3> HIDE DEF m, s
    <3>2. Execute(s, Event(m), m).reply \in Answer
      <4>1. CASE s = "ready"
        BY <3>1, <4>1, ExecuteIs
      <4>2. CASE s = "start"
        <5>1. Execute(s, Event(m), m).reply \in {"OHAI-OK", "WTF", "none"}
          BY <3>1, <4>2, ExecuteIs
        <5> QED BY <5>1 DEF Answer
      <4> QED BY <3>1, <4>1, <4>2
    <3> QED BY <3>1, <3>2
  <2>2. CASE ~(Readable /\ Head(router).from = Dealer)
    BY <2>2 DEF Says, Answer
  <2> QED BY <2>1, <2>2
<1> HIDE DEF says
<1>3. came \in Seq(Answer \ {"none"}) /\ came' \in Seq(Answer \ {"none"})
  <2>1. came \in Seq(Answer \ {"none"})
    BY <1>0 DEF TestTyped
  <2> QED BY <1>0, <1>2, <2>1
<1>4. TestTyped'
  BY <1>0, <1>3 DEF TestTyped
<1>5. CASE verdict # "runs"
  BY <1>0, <1>1, <1>4, <1>5 DEF TestInv
<1>6. CASE verdict = "runs"
  <2>0. InTime /\ Stage
    BY <1>6 DEF TestInv
  <2>1. agent' = "loop" /\ orders' = <<>> /\ (bound => bound') /\ (caller = "waits" => bound')
    <3>1. orders = <<>> \/ orders = <<"BIND">>
      BY <2>0 DEF InTime
    <3>2. /\ orders' = (IF orders # <<>> THEN Tail(orders) ELSE orders)
          /\ bound' <=> bound \/ (orders # <<>> /\ Head(orders) = "BIND")
          /\ agent' = IF orders # <<>> /\ Head(orders) = "STOP" THEN "stopped" ELSE "loop"
      BY <1>0, Zenon DEF Wake, ControlMessage, Controlled
    <3>3. CASE orders = <<>>
      BY <2>0, <3>2, <3>3 DEF InTime
    <3>4. CASE orders = <<"BIND">>
      <4>1. orders # <<>> /\ Head(orders) = "BIND" /\ Tail(orders) = <<>>
        BY <3>4
      <4> QED BY <3>2, <4>1
    <3> QED BY <3>1, <3>3, <3>4
  <2>2. due' = [c \in NomClient |-> IF c \in Refreshed THEN NomHeartbeat ELSE due[c]]
    BY <1>0 DEF Wake
  <2>3. CASE Readable
    <3>1. receives /\ line \in 1 .. 4 /\ Sending
      BY <2>0, <2>3 DEF Stage, Rests, Answered, Listens, Readable
    <3> DEFINE m == Script[line][1]
    <3>2. Head(router).from = Dealer /\ Head(router).command = m /\ Tail(router) = <<>> /\ m \in Command
      BY <3>1, ScriptIs DEF Sending
    <3>3. Current(Dealer) = (IF line \in {1, 2} THEN "start" ELSE "ready")
      BY <3>1 DEF Sending, Before, Current
    <3>4. Executed.state = Before(line + 1) /\ Executed.reply = Script[line][2]
      <4>1. Executed = Execute(Current(Dealer), Event(m), m)
        BY <3>2 DEF Executed
      <4>2. line = 1 \/ line = 2 \/ line = 3 \/ line = 4
        BY <3>1
      <4>3. CASE line = 1
        BY <3>2, <3>3, <4>1, <4>3, ExecuteIs, ScriptIs DEF Before
      <4>4. CASE line = 2
        BY <3>2, <3>3, <4>1, <4>4, ExecuteIs, ScriptIs DEF Before
      <4>5. CASE line = 3
        BY <3>2, <3>3, <4>1, <4>5, ExecuteIs, ScriptIs DEF Before
      <4>6. CASE line = 4
        BY <3>2, <3>3, <4>1, <4>6, ExecuteIs, ScriptIs DEF Before
      <4> QED BY <4>2, <4>3, <4>4, <4>5, <4>6
    <3>5. says = Script[line][2] /\ says # "none"
      BY <2>3, <3>1, <3>2, <3>4, ScriptIs DEF says, Says
    <3>6. session'[Dealer] = Before(line + 1) /\ router' = <<>>
      BY <1>1, <2>3, <3>2, <3>4
    <3>7. due'[Dealer] = NomHeartbeat
      BY <2>2, <2>3, <3>2, ScriptIs DEF Refreshed
    <3>8. InTime'
      <4>1. \A c \in NomClient \ {Dealer} : session'[c] = "none"
        BY <1>1, <2>0, <3>2 DEF InTime
      <4>2. due'[Dealer] \in 0 .. NomHeartbeat /\ due'[Dealer] + silence' >= NomHeartbeat
        BY <1>0, <3>7, ScriptIs DEF TestTyped
      <4>3. caller = "waits"
        BY <2>0, <3>1 DEF InTime
      <4> QED BY <1>0, <2>0, <2>1, <4>1, <4>2, <4>3 DEF InTime
    <3>9. Answered'
      <4> DEFINE k == Len(came) + 1
      <4>1. /\ came' = Append(came, Script[line][2]) /\ DOMAIN came' = 1 .. Len(came) + 1 /\ Len(came) \in Nat
            /\ Len(came') = Len(came) + 1 /\ DOMAIN came = 1 .. Len(came)
            /\ \A i \in 1 .. Len(came) : came'[i] = came[i]
            /\ came'[Len(came) + 1] = Script[line][2]
        BY <1>0, <1>2, <1>3, <3>5, CameIs
      <4>2. k \in DOMAIN came' /\ came'[k] = Script[line'][2] /\ ~(Len(came') > k)
        BY <1>0, <4>1
      <4>3. \A i \in DOMAIN came' : i # k => came'[i] = "HUGZ"
        BY <3>1, <4>1 DEF Sending, Beats
      <4>4. slow' \/ k = 1
        <5>1. slow \/ came = <<>>
          BY <3>1 DEF Sending
        <5>2. CASE slow
          BY <1>0, <5>2
        <5>3. CASE came = <<>>
          BY <5>3
        <5> QED BY <5>1, <5>2, <5>3
      <4> HIDE DEF k
      <4>5. session'[Dealer] = Before(line' + 1)
        BY <1>0, <3>6
      <4> QED BY <3>6, <4>2, <4>3, <4>4, <4>5 DEF Answered
    <3> QED BY <1>0, <1>1, <1>4, <3>1, <3>8, <3>9 DEF TestInv, Stage
  <2>4. CASE ~Readable
    <3>1. router' = router /\ \A c \in NomClient : session'[c] = session[c]
      BY <1>1, <2>4
    <3>2. says = IF Dealer \in Ping /\ session[Dealer] = "ready" THEN "HUGZ" ELSE "none"
      BY <2>4 DEF says, Says
    <3>3. due'[Dealer] = IF Dealer \in Ping THEN NomHeartbeat ELSE due[Dealer]
      BY <2>2, <2>4, ScriptIs DEF Refreshed
    <3>4. Dealer \in Ping => session[Dealer] # "none" /\ due[Dealer] <= 0
      BY DEF Ping, Known
    <3>5. silence \in Nat
      BY <1>0 DEF TestTyped
    <3>6. InTime'
      <4>1. session'[Dealer] # "none" => due'[Dealer] \in 0 .. NomHeartbeat
        BY <2>0, <3>1, <3>3, ScriptIs DEF InTime
      <4>2. session'[Dealer] # "none" /\ router' = <<>> => due'[Dealer] + silence' >= NomHeartbeat
        <5>1. CASE Dealer \in Ping
          BY <1>0, <3>3, <3>5, <5>1, ScriptIs
        <5>2. CASE Dealer \notin Ping
          BY <1>0, <2>0, <3>1, <3>3, <5>2, ScriptIs DEF InTime
        <5> QED BY <5>1, <5>2
      <4>3. \A c \in NomClient \ {Dealer} : session'[c] = "none"
        BY <2>0, <3>1 DEF InTime
      <4>4. caller' = "new" => ~receives' /\ router' = <<>> /\ orders' = <<>>
        BY <1>0, <2>0, <2>1, <3>1 DEF InTime
      <4> QED BY <1>0, <2>0, <2>1, <4>1, <4>2, <4>3, <4>4 DEF InTime
    <3>7. CASE says = "none"
      <4>1. came' = came /\ session'[Dealer] = session[Dealer]
        BY <1>0, <3>1, <3>7, ScriptIs
      <4>2. (session[Dealer] = "ready") => due'[Dealer] = due[Dealer]
        BY <3>2, <3>3, <3>7
      <4>3. session[Dealer] # "none" /\ due[Dealer] > 0 => due'[Dealer] > 0
        BY <2>0, <3>3, ScriptIs DEF InTime
      <4>4. Stage'
        <5>1. CASE ~receives /\ Rests
          BY <1>0, <3>1, <4>1, <5>1 DEF Rests, Beats, Stage
        <5>2. CASE receives /\ line \in 1 .. 4 /\ Sending
          <6>1. router' = <<[from |-> Dealer, command |-> Script[line][1]]>> /\ session'[Dealer] = Before(line)
            BY <3>1, <4>1, <5>2 DEF Sending
          <6>2. Sending'
            BY <1>0, <4>1, <4>3, <5>2, <6>1 DEF Sending, Beats
          <6> QED BY <1>0, <5>2, <6>2 DEF Stage
        <5>3. CASE receives /\ line \in 1 .. 4 /\ Answered
          <6>1. Answered'
            BY <1>0, <3>1, <4>1, <5>3 DEF Answered
          <6> QED BY <1>0, <5>3, <6>1 DEF Stage
        <5>4. CASE receives /\ line = 5 /\ Listens
          BY <1>0, <3>1, <4>1, <4>2, <5>4 DEF Listens, Beats, Stage
        <5> QED BY <2>0, <5>1, <5>2, <5>3, <5>4 DEF Stage
      <4> QED BY <1>0, <1>1, <1>4, <3>6, <4>4 DEF TestInv
    <3>8. CASE says # "none"
      <4>1. says = "HUGZ" /\ Dealer \in Ping /\ session[Dealer] = "ready" /\ due[Dealer] <= 0
        BY <3>2, <3>4, <3>8
      <4>2. /\ came' = Append(came, "HUGZ") /\ came' # <<>> /\ DOMAIN came' = 1 .. Len(came) + 1 /\ Len(came) \in Nat
            /\ Len(came') = Len(came) + 1 /\ DOMAIN came = 1 .. Len(came)
            /\ \A i \in 1 .. Len(came) : came'[i] = came[i]
            /\ came'[Len(came) + 1] = "HUGZ"
        BY <1>0, <1>2, <1>3, <3>8, <4>1, CameIs
      <4>3. router = <<>> => silence >= NomHeartbeat
        <5>1. router = <<>> => due[Dealer] + silence >= NomHeartbeat
          BY <2>0, <4>1 DEF InTime
        <5>2. due[Dealer] = 0
          BY <2>0, <4>1, ScriptIs DEF InTime
        <5> QED BY <3>5, <5>1, <5>2, ScriptIs
      <4>4. Beats(came) => Beats(came')
        BY <4>2 DEF Beats
      <4>5. session'[Dealer] = session[Dealer]
        BY <3>1, ScriptIs
      <4>6. Stage'
        <5>1. CASE ~receives /\ Rests
          <6>1. Rests'
            BY <1>0, <3>1, <4>3, <4>4, <4>5, <5>1 DEF Rests
          <6> QED BY <1>0, <5>1, <6>1 DEF Stage
        <5>2. CASE receives /\ line \in 1 .. 4 /\ Sending
          <6>1. router' = <<[from |-> Dealer, command |-> Script[line][1]]>> /\ session'[Dealer] = Before(line)
            BY <3>1, <4>5, <5>2 DEF Sending
          <6>2. slow
            <7>1. due[Dealer] = 0
              BY <2>0, <4>1, ScriptIs DEF InTime
            <7>2. slow \/ (session[Dealer] # "none" => due[Dealer] > 0)
              BY <5>2 DEF Sending
            <7>3. ~(session[Dealer] # "none" => due[Dealer] > 0)
              BY <4>1, <7>1
            <7> QED BY <7>2, <7>3
          <6>3. Sending'
            BY <1>0, <4>4, <5>2, <6>1, <6>2 DEF Sending
          <6> QED BY <1>0, <5>2, <6>3 DEF Stage
        <5>3. CASE receives /\ line \in 1 .. 4 /\ Answered
          <6>1. PICK k \in DOMAIN came :
                    /\ came[k] = Script[line][2] /\ \A i \in DOMAIN came : i # k => came[i] = "HUGZ"
                    /\ slow \/ k = 1
                    /\ Len(came) > k => silence >= NomHeartbeat
            BY <5>3 DEF Answered
          <6>2. silence >= NomHeartbeat
            BY <4>3, <5>3 DEF Answered
          <6>3. k \in DOMAIN came' /\ came'[k] = Script[line][2]
            BY <4>2, <6>1
          <6>4. \A i \in DOMAIN came' : i # k => came'[i] = "HUGZ"
            BY <4>2, <6>1
          <6>5. router' = <<>> /\ session'[Dealer] = Before(line + 1)
            BY <3>1, <4>5, <5>3 DEF Answered
          <6>6. Answered'
            BY <1>0, <6>1, <6>2, <6>3, <6>4, <6>5 DEF Answered
          <6> QED BY <1>0, <5>3, <6>6 DEF Stage
        <5>4. CASE receives /\ line = 5 /\ Listens
          <6>1. Listens'
            BY <1>0, <3>1, <4>2, <4>3, <4>4, <4>5, <5>4 DEF Listens
          <6> QED BY <1>0, <5>4, <6>1 DEF Stage
        <5> QED BY <2>0, <5>1, <5>2, <5>3, <5>4 DEF Stage
      <4> QED BY <1>0, <1>1, <1>4, <3>6, <4>6 DEF TestInv
    <3> QED BY <3>7, <3>8
  <2> QED BY <2>3, <2>4
<1> QED BY <1>5, <1>6

\* The other steps: the caller's, and the agent's poll.
LEMMA TestOtherStep ==
    ASSUME TestInv, TestEnd \/ ((Bind \/ EnterPoll) /\ UNCHANGED testVars) \/ UNCHANGED testAllVars
    PROVE  TestInv'
<1>0. NomTyped /\ TestTyped
  BY DEF TestInv
<1>1. TestTyped'
  BY <1>0 DEF TestEnd, testVars, testAllVars, TestTyped
<1>2. NomTyped'
  <2>1. CASE TestEnd
    BY <1>0, <2>1, OrderTyped DEF TestEnd
  <2>2. CASE Bind
    BY <1>0, <2>2, OrderTyped
  <2>3. CASE EnterPoll \/ UNCHANGED testAllVars
    BY <1>0, <2>3 DEF EnterPoll, nomVars, callerVars, testAllVars, NomTyped
  <2> QED BY <2>1, <2>2, <2>3
<1>3. CASE TestEnd
  BY <1>1, <1>2, <1>3 DEF TestEnd, TestInv
<1>4. CASE ((Bind \/ EnterPoll) /\ UNCHANGED testVars) \/ UNCHANGED testAllVars
  <2>1. UNCHANGED testVars
    BY <1>4 DEF testAllVars
  <2>2. UNCHANGED <<line, receives, came, patience, silence, slow, verdict, session, due, router, bound>>
    BY <1>4, <2>1 DEF testVars, testAllVars, nomVars, callerVars, Bind, EnterPoll
  <2>3. ASSUME InTime PROVE InTime'
    <3>1. CASE Bind
      <4>1. caller = "new" /\ caller' = "waits" /\ orders' = Append(orders, "BIND") /\ agent' = agent
        BY <3>1 DEF Bind
      <4>2. orders' = <<"BIND">>
        BY <2>3, <4>1 DEF InTime
      <4> QED BY <2>2, <2>3, <4>1, <4>2 DEF InTime
    <3>2. CASE EnterPoll
      <4>1. agent' = Tickless /\ UNCHANGED <<caller, orders>>
        BY <3>2 DEF EnterPoll, callerVars
      <4>2. agent' \in {"poll", "hour"} /\ (agent' = "hour" => session[Dealer] = "none")
        <5>1. \A c \in Known : ~(due[c] < 0)
          BY <2>3, ScriptIs DEF InTime, Known
        <5>2. agent' = IF Known = {} THEN "hour" ELSE "poll"
          BY <4>1, <5>1 DEF Tickless
        <5>3. Known = {} => session[Dealer] = "none"
          BY ScriptIs DEF Known
        <5> QED BY <5>2, <5>3
      <4> QED BY <2>2, <2>3, <4>1, <4>2 DEF InTime
    <3>3. CASE UNCHANGED testAllVars
      BY <2>2, <2>3, <3>3 DEF InTime, testAllVars, nomVars, callerVars
    <3> QED BY <1>4, <3>1, <3>2, <3>3
  <2>4. ASSUME Stage PROVE Stage'
    BY <2>2, <2>4 DEF Stage, Rests, Sending, Answered, Listens, Beats
  <2> QED BY <1>1, <1>2, <2>2, <2>3, <2>4 DEF TestInv
<1> QED BY <1>3, <1>4

\* Every step of the test and of its server keeps the invariant.
LEMMA TestStep == TestInv /\ [TestNext]_testAllVars => TestInv'
<1> SUFFICES ASSUME TestInv, [TestNext]_testAllVars PROVE TestInv'
  OBVIOUS
<1> QED BY TestSendStep, TestReceiveStep, TestTimeoutNever, TestTickStep, TestWakeStep, TestOtherStep DEF TestNext

\* The invariant says that the test fails only when it was slow.
LEMMA TestMeans == TestInv => TestSound
BY DEF TestInv, TestSound

\* The self-test fails only when it was slow itself, and never waits in vain, whatever
\* the heartbeat interval and however the server's poll and the test's steps interleave
\* (nom_server.c:434-488).
THEOREM SelfTestIsSound == SelfTestSpec => []TestSound
BY TestBegins, TestStep, TestMeans, PTL DEF SelfTestSpec

----------------------------------------------------------------------------
(* The ventilator and its sink: a batch ends when its tasks are done.      *)

PushSpec == PushInit /\ [][PushNext]_pushVars

\* What a worker has of the batch: tasks in its socket, one in its hands, results. The
\* pieces of the batch that are somewhere are numbered at each worker.
Load(w) == tasks[w] + (IF works[w] THEN 1 ELSE 0) + results[w]
Pieces  == {p \in Puller \X Nat : 1 <= p[2] /\ p[2] <= Load(p[1])}

\* The start of the batch that the sink has read.
Started == IF entered /\ ~startComes THEN 1 ELSE 0

PushTyped ==
    /\ linked \subseteq Puller /\ task_nbr \in 0 .. Tasks /\ confirmed \in Nat
    /\ tasks \in [Puller -> Nat] /\ results \in [Puller -> Nat] /\ DOMAIN works = Puller

\* Each task that was sent is a piece at a worker, or confirmed.
PushInv ==
    /\ PushTyped /\ IsFiniteSet(Pieces)
    /\ task_nbr + Started = Cardinality(Pieces) + confirmed
    /\ startComes => entered
    /\ ~entered => task_nbr = 0

\* The load of a worker is counted in numbers.
LEMMA LoadIs == PushTyped => /\ \A w \in Puller : Load(w) \in Nat /\ tasks[w] \in Nat /\ results[w] \in Nat
                             /\ Tasks \in Nat /\ task_nbr \in Nat /\ task_nbr <= Tasks
BY TasksAssumption DEF PushTyped, Load

\* No task is under way before the batch is entered.
LEMMA PushBegins == PushInit => PushInv
<1> SUFFICES ASSUME PushInit PROVE PushInv
  OBVIOUS
<1>1. PushTyped
  BY TasksAssumption DEF PushInit, PushTyped
<1>2. \A w \in Puller : Load(w) = 0
  BY DEF PushInit, Load
<1>3. Pieces = {}
  BY <1>2 DEF Pieces
<1>4. IsFiniteSet(Pieces) /\ Cardinality(Pieces) = 0
  BY <1>3, FS_EmptySet
<1>5. Started = 0 /\ task_nbr = 0 /\ confirmed = 0 /\ (startComes => entered)
  BY DEF PushInit, Started
<1> QED BY <1>1, <1>4, <1>5 DEF PushInv

\* One more piece at a worker, or one less.
LEMMA OnePiece ==
    ASSUME PushTyped, PushTyped', IsFiniteSet(Pieces), NEW w \in Puller,
           \A v \in Puller \ {w} : Load(v)' = Load(v)
    PROVE  /\ Load(w)' = Load(w) => Pieces' = Pieces
           /\ Load(w)' = Load(w) + 1 => IsFiniteSet(Pieces') /\ Cardinality(Pieces') = Cardinality(Pieces) + 1
           /\ Load(w)' = Load(w) - 1 => IsFiniteSet(Pieces') /\ Cardinality(Pieces') = Cardinality(Pieces) - 1
<1>1. \A v \in Puller : Load(v) \in Nat /\ Load(v)' \in Nat
  <2>1. \A v \in Puller : Load(v) \in Nat
    BY LoadIs
  <2>2. \A v \in Puller : Load(v)' \in Nat
    BY DEF PushTyped, Load
  <2> QED BY <2>1, <2>2
<1>2. Pieces' = {p \in Puller \X Nat : 1 <= p[2] /\ p[2] <= Load(p[1])'}
  BY DEF Pieces
<1>3. ASSUME Load(w)' = Load(w) PROVE Pieces' = Pieces
  BY <1>2, <1>3 DEF Pieces
<1>4. ASSUME Load(w)' = Load(w) + 1 PROVE IsFiniteSet(Pieces') /\ Cardinality(Pieces') = Cardinality(Pieces) + 1
  <2> DEFINE x == <<w, Load(w) + 1>>
  <2>1. x \notin Pieces /\ Pieces' = Pieces \cup {x}
    <3>1. x \notin Pieces
      BY <1>1 DEF Pieces
    <3>2. ASSUME NEW v \in Puller, NEW k \in Nat
          PROVE  <<v, k>> \in Pieces' <=> <<v, k>> \in Pieces \/ <<v, k>> = x
      <4>1. <<v, k>> \in Pieces' <=> 1 <= k /\ k <= Load(v)'
        BY <1>2
      <4>2. <<v, k>> \in Pieces <=> 1 <= k /\ k <= Load(v)
        BY DEF Pieces
      <4>3. CASE v = w
        BY <1>1, <1>4, <4>1, <4>2, <4>3
      <4>4. CASE v # w
        BY <4>1, <4>2, <4>4
      <4> QED BY <4>3, <4>4
    <3>3. x \in Puller \X Nat /\ Pieces \subseteq Puller \X Nat /\ Pieces' \subseteq Puller \X Nat
      BY <1>1, <1>2 DEF Pieces
    <3>4. \A p \in Puller \X Nat : p \in Pieces' <=> p \in Pieces \/ p = x
      BY <3>2
    <3> HIDE DEF x
    <3> QED BY <3>1, <3>3, <3>4
  <2> QED BY <2>1, FS_AddElement
<1>5. ASSUME Load(w)' = Load(w) - 1 PROVE IsFiniteSet(Pieces') /\ Cardinality(Pieces') = Cardinality(Pieces) - 1
  <2> DEFINE x == <<w, Load(w)>>
  <2>1. x \in Pieces /\ Pieces' = Pieces \ {x}
    <3>1. x \in Pieces
      BY <1>1, <1>5 DEF Pieces
    <3>2. ASSUME NEW v \in Puller, NEW k \in Nat
          PROVE  <<v, k>> \in Pieces' <=> <<v, k>> \in Pieces /\ <<v, k>> # x
      <4>1. <<v, k>> \in Pieces' <=> 1 <= k /\ k <= Load(v)'
        BY <1>2
      <4>2. <<v, k>> \in Pieces <=> 1 <= k /\ k <= Load(v)
        BY DEF Pieces
      <4>3. CASE v = w
        BY <1>1, <1>5, <4>1, <4>2, <4>3
      <4>4. CASE v # w
        BY <4>1, <4>2, <4>4
      <4> QED BY <4>3, <4>4
    <3>3. x \in Puller \X Nat /\ Pieces \subseteq Puller \X Nat /\ Pieces' \subseteq Puller \X Nat
      BY <1>1, <1>2 DEF Pieces
    <3>4. \A p \in Puller \X Nat : p \in Pieces' <=> p \in Pieces /\ p # x
      BY <3>2
    <3> HIDE DEF x
    <3> QED BY <3>1, <3>3, <3>4
  <2> QED BY <2>1, FS_RemoveElement
<1> QED BY <1>3, <1>4, <1>5

\* Every step of the ventilator, the workers and the sink keeps the count.
LEMMA PushStep == PushInv /\ [PushNext]_pushVars => PushInv'
<1> SUFFICES ASSUME PushInv, [PushNext]_pushVars PROVE PushInv'
  OBVIOUS
<1>0. /\ PushTyped /\ IsFiniteSet(Pieces) /\ Cardinality(Pieces) \in Nat
      /\ task_nbr + Started = Cardinality(Pieces) + confirmed
      /\ (startComes => entered) /\ (~entered => task_nbr = 0)
      /\ task_nbr \in Nat /\ task_nbr <= Tasks /\ Tasks \in Nat /\ confirmed \in Nat /\ Started \in {0, 1}
  <2>1. PushTyped /\ IsFiniteSet(Pieces) /\ task_nbr + Started = Cardinality(Pieces) + confirmed
        /\ (startComes => entered) /\ (~entered => task_nbr = 0)
    BY DEF PushInv
  <2>2. Cardinality(Pieces) \in Nat
    BY <2>1, FS_CardinalityType
  <2> QED BY <2>1, <2>2, LoadIs DEF PushTyped, Started
<1>1. \A w \in Puller : Load(w) \in Nat /\ tasks[w] \in Nat /\ results[w] \in Nat
  BY <1>0, LoadIs
<1>2. ASSUME NEW w \in Puller, Link(w) \/ TakeTask(w) \/ SendResult(w) PROVE PushInv'
  <2>1. UNCHANGED <<entered, startComes, task_nbr, confirmed>>
    BY <1>2 DEF Link, TakeTask, SendResult
  <2>2. PushTyped' /\ Load(w)' = Load(w) /\ \A v \in Puller \ {w} : Load(v)' = Load(v)
    <3>1. CASE Link(w)
      BY <1>0, <3>1 DEF Link, PushTyped, Load
    <3>2. CASE TakeTask(w)
      <4>1. /\ tasks' = [tasks EXCEPT ![w] = tasks[w] - 1] /\ tasks[w] > 0 /\ ~works[w]
            /\ works' = [works EXCEPT ![w] = TRUE] /\ results' = results /\ linked' = linked
        BY <3>2 DEF TakeTask
      <4>2. PushTyped'
        BY <1>0, <1>1, <2>1, <4>1 DEF PushTyped
      <4>3. tasks'[w] = tasks[w] - 1 /\ works'[w] /\ results'[w] = results[w]
        BY <1>0, <4>1 DEF PushTyped
      <4>4. \A v \in Puller \ {w} : tasks'[v] = tasks[v] /\ works'[v] = works[v] /\ results'[v] = results[v]
        BY <1>0, <4>1 DEF PushTyped
      <4> QED BY <1>1, <4>1, <4>2, <4>3, <4>4 DEF Load
    <3>3. CASE SendResult(w)
      <4>1. /\ results' = [results EXCEPT ![w] = results[w] + 1] /\ works[w]
            /\ works' = [works EXCEPT ![w] = FALSE] /\ tasks' = tasks /\ linked' = linked
        BY <3>3 DEF SendResult
      <4>2. PushTyped'
        BY <1>0, <1>1, <2>1, <4>1 DEF PushTyped
      <4>3. tasks'[w] = tasks[w] /\ ~works'[w] /\ results'[w] = results[w] + 1
        BY <1>0, <4>1 DEF PushTyped
      <4>4. \A v \in Puller \ {w} : tasks'[v] = tasks[v] /\ works'[v] = works[v] /\ results'[v] = results[v]
        BY <1>0, <4>1 DEF PushTyped
      <4> QED BY <1>1, <4>1, <4>2, <4>3, <4>4 DEF Load
    <3> QED BY <1>2, <3>1, <3>2, <3>3
  <2>3. Pieces' = Pieces
    BY <1>0, <2>2, OnePiece
  <2> QED BY <1>0, <2>1, <2>2, <2>3 DEF PushInv, Started
<1>3. CASE Enter
  <2>1. /\ ~entered /\ entered' /\ startComes'
        /\ UNCHANGED <<linked, task_nbr, tasks, works, results, confirmed>>
    BY <1>3 DEF Enter
  <2>2. Started = 0 /\ Started' = 0
    BY <2>1 DEF Started
  <2>3. PushTyped' /\ Pieces' = Pieces
    BY <1>0, <2>1 DEF PushTyped, Pieces, Load
  <2> QED BY <1>0, <2>1, <2>2, <2>3 DEF PushInv
<1>4. CASE Distribute
  <2>1. PICK w \in linked : tasks' = [tasks EXCEPT ![w] = tasks[w] + 1]
    BY <1>4 DEF Distribute
  <2>2. /\ entered /\ task_nbr < Tasks /\ task_nbr' = task_nbr + 1
        /\ UNCHANGED <<linked, entered, startComes, works, results, confirmed>>
    BY <1>4 DEF Distribute
  <2>3. w \in Puller
    BY <1>0 DEF PushTyped
  <2>4. PushTyped'
    <3>1. tasks' \in [Puller -> Nat]
      BY <1>0, <1>1, <2>1, <2>3 DEF PushTyped
    <3>2. task_nbr' \in 0 .. Tasks
      BY <1>0, <2>2
    <3> QED BY <1>0, <2>2, <3>1, <3>2 DEF PushTyped
  <2>5. Load(w)' = Load(w) + 1 /\ \A v \in Puller \ {w} : Load(v)' = Load(v)
    <3>1. tasks'[w] = tasks[w] + 1 /\ \A v \in Puller \ {w} : tasks'[v] = tasks[v]
      BY <1>0, <2>1, <2>3 DEF PushTyped
    <3> QED BY <1>1, <2>2, <2>3, <3>1 DEF Load
  <2>6. IsFiniteSet(Pieces') /\ Cardinality(Pieces') = Cardinality(Pieces) + 1
    BY <1>0, <2>3, <2>4, <2>5, OnePiece
  <2>7. Started' = Started
    BY <2>2 DEF Started
  <2> QED BY <1>0, <2>2, <2>4, <2>6, <2>7 DEF PushInv
<1>5. CASE Confirm
  <2>1. confirmed' = confirmed + 1 /\ UNCHANGED <<linked, entered, task_nbr, tasks, works>>
    BY <1>5 DEF Confirm
  <2>2. CASE startComes /\ startComes' = FALSE /\ UNCHANGED results
    <3>1. Started = 0 /\ Started' = 1
      BY <1>0, <2>1, <2>2 DEF Started
    <3>2. PushTyped' /\ Pieces' = Pieces
      BY <1>0, <2>1, <2>2 DEF PushTyped, Pieces, Load
    <3> QED BY <1>0, <2>1, <2>2, <3>1, <3>2 DEF PushInv
  <2>3. CASE \E w \in Puller : /\ results[w] > 0
                               /\ results' = [results EXCEPT ![w] = @ - 1]
                               /\ UNCHANGED startComes
    <3>1. PICK w \in Puller : results[w] > 0 /\ results' = [results EXCEPT ![w] = results[w] - 1] /\ UNCHANGED startComes
      BY <2>3
    <3>2. results'[w] = results[w] - 1 /\ \A v \in Puller \ {w} : results'[v] = results[v]
      BY <1>0, <3>1 DEF PushTyped
    <3>3. Load(w)' = Load(w) - 1 /\ \A v \in Puller \ {w} : Load(v)' = Load(v)
      BY <1>1, <2>1, <3>2 DEF Load
    <3>4. PushTyped'
      <4>1. results' \in [Puller -> Nat]
        BY <1>0, <1>1, <3>1 DEF PushTyped
      <4> QED BY <1>0, <2>1, <4>1 DEF PushTyped
    <3>5. IsFiniteSet(Pieces') /\ Cardinality(Pieces') = Cardinality(Pieces) - 1
      BY <1>0, <3>3, <3>4, OnePiece
    <3>6. Started' = Started
      BY <2>1, <3>1 DEF Started
    <3> QED BY <1>0, <2>1, <3>1, <3>4, <3>5, <3>6 DEF PushInv
  <2> QED BY <1>5, <2>2, <2>3 DEF Confirm
<1>6. CASE UNCHANGED pushVars
  BY <1>0, <1>6 DEF pushVars, PushInv, PushTyped, Pieces, Load, Started
<1> QED BY <1>2, <1>3, <1>4, <1>5, <1>6 DEF PushNext

\* At the end of the batch every task is done and confirmed.
LEMMA PushMeans == PushInv => BatchComplete
<1> SUFFICES ASSUME PushInv, BatchEnd
             PROVE  /\ task_nbr = Tasks /\ entered /\ ~startComes
                    /\ \A w \in Puller : tasks[w] = 0 /\ ~works[w] /\ results[w] = 0
  BY DEF BatchComplete
<1>1. /\ PushTyped /\ IsFiniteSet(Pieces) /\ Cardinality(Pieces) \in Nat /\ confirmed = Tasks + 1
      /\ task_nbr + Started = Cardinality(Pieces) + confirmed /\ Started \in {0, 1}
  BY FS_CardinalityType DEF PushInv, BatchEnd, Started
<1>2. Cardinality(Pieces) = 0 /\ Started = 1 /\ task_nbr = Tasks
  BY <1>1, LoadIs
<1>3. Pieces = {}
  BY <1>1, <1>2, FS_EmptySet
<1>4. ASSUME NEW w \in Puller PROVE tasks[w] = 0 /\ ~works[w] /\ results[w] = 0
  <2>1. Load(w) \in Nat /\ tasks[w] \in Nat /\ results[w] \in Nat
    BY <1>1, LoadIs
  <2>2. ~(Load(w) >= 1)
    <3>1. <<w, 1>> \notin Pieces
      BY <1>3
    <3> QED BY <2>1, <3>1 DEF Pieces
  <2>3. Load(w) = 0
    BY <2>1, <2>2
  <2> QED BY <2>1, <2>3, SMTT(60) DEF Load
<1>5. entered /\ ~startComes
  BY <1>2 DEF Started
<1> QED BY <1>2, <1>4, <1>5

\* The sink ends the batch when all tasks are done and no sooner, for any number of tasks
\* and of workers, whenever they connect and however the tasks fall to them.
THEOREM BatchesComplete == PushSpec => []BatchComplete
BY PushBegins, PushStep, PushMeans, PTL DEF PushSpec

----------------------------------------------------------------------------
(* A file that comes chunk by chunk comes over whole.                      *)

FileSpec == FileInit /\ [][FileNext]_fileVars

\* What is left of the file is a chunk or less.
Left == IF file - Len(fetched) < CHUNK_SIZE THEN file - Len(fetched) ELSE CHUNK_SIZE

\* The client has full chunks from the start of the file, and the server is where they end,
\* or it has all and the last chunk was not full.
Fetching ==
    /\ Len(fetched) = chunks * CHUNK_SIZE /\ Len(fetched) <= file
    /\ chunk = NoChunk /\ position = Len(fetched)
    /\ \/ clientThread = "asks" /\ fetch = NoFetch
       \/ clientThread = "waits" /\ fetch = Len(fetched)
Coming ==
    /\ Len(fetched) = chunks * CHUNK_SIZE /\ Len(fetched) <= file
    /\ chunk = [i \in 1 .. Left |-> Len(fetched) + i] /\ position = Len(fetched) + Left
    /\ clientThread = "waits" /\ fetch = NoFetch
Fetched ==
    /\ Len(fetched) = file /\ chunks = file \div CHUNK_SIZE + 1
    /\ chunk = NoChunk /\ fetch = NoFetch
    /\ clientThread \in {"done", "ended"}

FileInv ==
    /\ file \in FileSizes /\ chunks \in Nat /\ Len(fetched) \in Nat
    /\ fetched = [i \in 1 .. Len(fetched) |-> i]
    /\ Fetching \/ Coming \/ Fetched

\* What the constants are.
LEMMA FileNumbers ==
    /\ Half \in Nat /\ Half > 0 /\ CHUNK_SIZE \in Nat /\ CHUNK_SIZE > 0
    /\ \A f \in FileSizes : f \in Nat /\ f < 2 * Half
BY FileAssumption

\* Full chunks and a part of one.
LEMMA ChunksIs ==
    ASSUME NEW c \in Nat, NEW k \in Nat \ {0}, NEW r \in 0 .. k - 1
    PROVE  (c * k + r) \div k = c
OBVIOUS

\* An offset that is too large becomes negative, and the server stays where it is.
LEMMA SeekIs ==
    ASSUME NEW n \in 0 .. 2 * Half - 1, position = n
    PROVE  Seek(Atoi(n)) = n
<1>1. n % (2 * Half) = n
  BY FileNumbers
<1>2. CASE n >= Half
  <2>1. Atoi(n) = n - 2 * Half
    BY <1>1, <1>2 DEF Atoi
  <2>2. Atoi(n) < 0
    BY <2>1, FileNumbers
  <2> QED BY <2>2 DEF Seek
<1>3. CASE n < Half
  <2>1. Atoi(n) = n
    BY <1>1, <1>3, FileNumbers DEF Atoi
  <2> QED BY <2>1 DEF Seek
<1> QED BY <1>2, <1>3, FileNumbers

\* Nothing is fetched yet.
LEMMA FileBegins == FileInit => FileInv
<1> SUFFICES ASSUME FileInit PROVE FileInv
  OBVIOUS
<1>1. Len(fetched) = 0 /\ fetched = [i \in 1 .. Len(fetched) |-> i] /\ chunks = 0
  BY DEF FileInit
<1>2. Len(fetched) = chunks * CHUNK_SIZE /\ Len(fetched) <= file /\ file \in FileSizes
  BY <1>1, FileNumbers DEF FileInit
<1> QED BY <1>1, <1>2 DEF FileInit, FileInv, Fetching

\* A chunk goes to the end of what the client has.
LEMMA AddChunk ==
    ASSUME NEW n \in Nat, NEW m \in Nat, NEW q, NEW c, q = [i \in 1 .. n |-> i], c = [i \in 1 .. m |-> n + i]
    PROVE  q \o c = [i \in 1 .. n + m |-> i] /\ Len(q \o c) = n + m /\ Len(c) = m /\ c # NoChunk
<1>1. q \in Seq(Nat) /\ Len(q) = n
  <2>1. \A i \in 1 .. n : i \in Nat
    OBVIOUS
  <2> QED BY <2>1
<1>2. c \in Seq(Nat) /\ Len(c) = m
  <2>1. \A i \in 1 .. m : n + i \in Nat
    OBVIOUS
  <2> QED BY <2>1
<1>3. Len(q \o c) = n + m /\ q \o c \in Seq(Nat)
  BY <1>1, <1>2
<1>4. DOMAIN (q \o c) = 1 .. n + m
  BY <1>3
<1>5. \A i \in 1 .. n + m : (q \o c)[i] = i
  <2> SUFFICES ASSUME NEW i \in 1 .. n + m PROVE (q \o c)[i] = i
    OBVIOUS
  <2>1. CASE i <= n
    <3>1. (q \o c)[i] = q[i]
      BY <1>1, <1>2, <2>1
    <3> QED BY <2>1, <3>1
  <2>2. CASE ~(i <= n)
    <3>1. (q \o c)[i] = c[i - n] /\ i - n \in 1 .. m
      BY <1>1, <1>2, <2>2
    <3>2. c[i - n] = n + (i - n)
      BY <3>1
    <3> QED BY <3>1, <3>2
  <2> QED BY <2>1, <2>2
<1>6. q \o c = [i \in 1 .. n + m |-> i]
  <2> DEFINE f == [i \in 1 .. n + m |-> i]
  <2>1. f \in Seq(Nat) /\ Len(f) = n + m /\ \A i \in 1 .. n + m : f[i] = i
    <3>1. \A i \in 1 .. n + m : i \in Nat
      OBVIOUS
    <3> QED BY <3>1
  <2> HIDE DEF f
  <2>2. q \o c = f
    BY <1>3, <1>5, <2>1, SeqEqual
  <2> QED BY <2>2 DEF f
<1>7. c # NoChunk
  <2>1. \A i \in 1 .. m : c[i] # -1
    OBVIOUS
  <2>2. Len(NoChunk) = 1 /\ NoChunk[1] = -1
    BY DEF NoChunk
  <2>3. CASE m = 0
    BY <1>2, <2>2, <2>3
  <2>4. CASE m # 0
    <3>1. 1 \in 1 .. m
      BY <2>4
    <3> QED BY <2>1, <2>2, <3>1
  <2> QED BY <2>3, <2>4
<1> QED BY <1>2, <1>3, <1>6, <1>7

\* Every step of the client and of the server keeps the invariant.
LEMMA FileStep == FileInv /\ [FileNext]_fileVars => FileInv'
<1> SUFFICES ASSUME FileInv, [FileNext]_fileVars PROVE FileInv'
  OBVIOUS
<1> DEFINE n == Len(fetched)
<1>0. /\ file \in FileSizes /\ chunks \in Nat /\ n \in Nat /\ fetched = [i \in 1 .. n |-> i]
      /\ file \in Nat /\ file < 2 * Half /\ CHUNK_SIZE \in Nat /\ CHUNK_SIZE > 0
      /\ Fetching \/ Coming \/ Fetched
  BY FileNumbers DEF FileInv
<1>1. CASE Fetch
  <2>1. Fetching /\ fetch' = n /\ clientThread' = "waits" /\ UNCHANGED <<file, position, chunk, fetched, chunks>>
    BY <1>0, <1>1 DEF Fetch, Fetching, Coming, Fetched
  <2>2. Fetching'
    BY <2>1 DEF Fetching
  <2> QED BY <1>0, <2>1, <2>2 DEF FileInv
<1>2. CASE ServeChunk
  <2>1. fetch # NoFetch /\ fetch' = NoFetch /\ UNCHANGED <<file, fetched, chunks, clientThread>>
    BY <1>2 DEF ServeChunk
  <2>2. Fetching /\ clientThread = "waits" /\ fetch = n /\ position = n /\ n <= file /\ n = chunks * CHUNK_SIZE
    BY <1>0, <2>1 DEF Fetching, Coming, Fetched
  <2>3. Seek(Atoi(fetch)) = n
    <3>1. n \in 0 .. 2 * Half - 1
      BY <1>0, <2>2, FileNumbers
    <3> QED BY <2>2, <3>1, SeekIs
  <2> DEFINE to == IF n + CHUNK_SIZE < file THEN n + CHUNK_SIZE ELSE file
  <2>4. /\ chunk' = [i \in 1 .. (IF to > n THEN to - n ELSE 0) |-> n + i]
        /\ position' = IF to > n THEN to ELSE n
    BY <1>2, <2>3 DEF ServeChunk
  <2>5. (IF to > n THEN to - n ELSE 0) = Left /\ (IF to > n THEN to ELSE n) = n + Left
    BY <1>0, <2>2 DEF Left
  <2> HIDE DEF to
  <2>6. chunk' = [i \in 1 .. Left |-> n + i] /\ position' = n + Left /\ Left' = Left
    BY <2>1, <2>4, <2>5 DEF Left
  <2>7. Coming'
    BY <2>1, <2>2, <2>6 DEF Coming
  <2> QED BY <1>0, <2>1, <2>7 DEF FileInv
<1>3. CASE ChunkCame
  <2>1. /\ chunk # NoChunk /\ fetched' = fetched \o chunk /\ chunks' = chunks + 1 /\ chunk' = NoChunk
        /\ clientThread' = IF Len(chunk) < CHUNK_SIZE THEN "done" ELSE "asks"
        /\ UNCHANGED <<file, position, fetch>>
    BY <1>3 DEF ChunkCame, LastChunk
  <2>2. /\ n = chunks * CHUNK_SIZE /\ n <= file /\ chunk = [i \in 1 .. Left |-> n + i] /\ position = n + Left
        /\ fetch = NoFetch
    BY <1>0, <2>1 DEF Fetching, Coming, Fetched
  <2>3. Left \in Nat /\ Left <= CHUNK_SIZE /\ (Left < CHUNK_SIZE => n + Left = file) /\ n + Left <= file
    BY <1>0, <2>2 DEF Left
  <2> HIDE DEF n
  <2>4. /\ fetched' = [i \in 1 .. n + Left |-> i] /\ Len(fetched') = n + Left /\ Len(chunk) = Left
    <3>1. /\ fetched \o chunk = [i \in 1 .. n + Left |-> i] /\ Len(fetched \o chunk) = n + Left
          /\ Len(chunk) = Left
      BY <1>0, <2>2, <2>3, AddChunk
    <3> QED BY <2>1, <3>1
  <2>5. n + Left \in Nat /\ chunks' \in Nat
    BY <1>0, <2>1, <2>3
  <2>6. CASE Left = CHUNK_SIZE
    <3>1. clientThread' = "asks"
      BY <1>0, <2>1, <2>4, <2>6
    <3>2. n + CHUNK_SIZE = (chunks + 1) * CHUNK_SIZE
      BY <1>0, <2>2
    <3>3. Fetching'
      BY <2>1, <2>2, <2>3, <2>4, <2>6, <3>1, <3>2 DEF Fetching
    <3> QED BY <1>0, <2>1, <2>4, <2>5, <3>3 DEF FileInv
  <2>7. CASE Left # CHUNK_SIZE
    <3>1. Left < CHUNK_SIZE /\ clientThread' = "done" /\ n + Left = file
      BY <1>0, <2>1, <2>3, <2>4, <2>7
    <3>2. file \div CHUNK_SIZE = chunks
      <4>1. file = chunks * CHUNK_SIZE + Left /\ Left \in 0 .. CHUNK_SIZE - 1
        BY <1>0, <2>2, <2>3, <3>1
      <4> QED BY <1>0, <4>1, ChunksIs
    <3>3. Fetched'
      BY <2>1, <2>2, <2>4, <3>1, <3>2 DEF Fetched
    <3> QED BY <1>0, <2>1, <2>4, <2>5, <3>3 DEF FileInv
  <2> QED BY <2>6, <2>7
<1>4. CASE EndThreads
  <2>1. Fetched /\ clientThread' = "ended" /\ UNCHANGED <<file, position, fetch, chunk, fetched, chunks>>
    BY <1>0, <1>4 DEF EndThreads, Fetching, Coming, Fetched
  <2>2. Fetched'
    BY <2>1 DEF Fetched
  <2> QED BY <1>0, <2>1, <2>2 DEF FileInv
<1>5. CASE UNCHANGED fileVars
  BY <1>0, <1>5 DEF fileVars, FileInv, Fetching, Coming, Fetched, Left
<1> QED BY <1>1, <1>2, <1>3, <1>4, <1>5 DEF FileNext

\* At the end what was fetched is the file.
LEMMA FileMeans == FileInv => FileWhole
BY DEF FileInv, Fetching, Coming, Fetched, FileWhole

\* A file comes over whole, byte for byte, for any size below two to the power of the
\* int's bits and any size of a chunk: also when its size is a multiple of the chunk's, or
\* nothing, and when an offset no longer fits a signed number (file/fileIO.c).
THEOREM FileComesWhole == FileSpec => []FileWhole
BY FileBegins, FileStep, FileMeans, PTL DEF FileSpec

----------------------------------------------------------------------------
(* The asynchronous client counts no reply twice.                          *)

AsyncSpec == AsyncInit /\ [][AsyncNext]_asyncVars

AsyncTyped ==
    /\ outgoing \in Seq(Echo) /\ incoming \in Seq(Echo) /\ replied \in Seq(Echo)
    /\ atWork \subseteq Echo /\ crowded \subseteq Echo /\ perished \subseteq Echo
    /\ sentCount \in 0 .. Echoes

\* Request n is in this place of six and in no other; o, i and r say whether it is on its
\* way to the broker, on its way back, or read.
OnlyThere(n, o, i, r) ==
    /\ o => ~i /\ ~r /\ n \notin atWork /\ n \notin crowded /\ n \notin perished
    /\ i => ~r /\ n \notin atWork /\ n \notin crowded /\ n \notin perished
    /\ r => n \notin atWork /\ n \notin crowded /\ n \notin perished
    /\ n \in atWork => n \notin crowded /\ n \notin perished
    /\ n \in crowded => n \notin perished
    /\ n <= sentCount <=> \/ o \/ i \/ r
                          \/ n \in atWork \/ n \in crowded \/ n \in perished

AsyncInv ==
    /\ AsyncTyped
    /\ Once(outgoing) /\ Once(incoming) /\ Once(replied)
    /\ \A n \in Echo : OnlyThere(n, In(outgoing, n), In(incoming, n), In(replied, n))
    /\ crowded # {} => Echoes > PipeRoom /\ Len(replied) + Len(incoming) >= PipeRoom

\* Nothing is sent and nothing came.
LEMMA AsyncBegins == AsyncInit => AsyncInv
<1> SUFFICES ASSUME AsyncInit PROVE AsyncInv
  OBVIOUS
<1>1. AsyncTyped /\ crowded = {} /\ sentCount = 0
  BY AsyncAssumption DEF AsyncInit, AsyncTyped
<1>2. /\ Once(outgoing) /\ Once(incoming) /\ Once(replied)
      /\ \A n : ~In(outgoing, n) /\ ~In(incoming, n) /\ ~In(replied, n)
  BY DEF AsyncInit, Once, In
<1>3. ASSUME NEW n \in Echo PROVE OnlyThere(n, In(outgoing, n), In(incoming, n), In(replied, n))
  <2>1. n >= 1
    BY DEF Echo
  <2>2. ~(n <= sentCount)
    BY <1>1, <2>1, AsyncAssumption DEF Echo
  <2> QED BY <1>2, <2>2 DEF OnlyThere, AsyncInit
<1> QED BY <1>1, <1>2, <1>3 DEF AsyncInv

\* A pipe that has room for all the requests that are on their way back is not full of
\* them while one is at work.
LEMMA PipeFull ==
    ASSUME NEW list \in Seq(Echo), Once(list), NEW n \in Echo, ~In(list, n)
    PROVE  Len(list) < Echoes
<1> DEFINE rest == Echo \ {n}
<1>1. Echoes \in Nat /\ Len(list) \in Nat /\ DOMAIN list = 1 .. Len(list)
  BY AsyncAssumption
<1>2. IsFiniteSet(Echo) /\ Cardinality(Echo) = Echoes
  BY <1>1, FS_Interval DEF Echo
<1>3. IsFiniteSet(rest) /\ Cardinality(rest) = Echoes - 1
  BY <1>2, FS_RemoveElement
<1>4. IsFiniteSet(1 .. Len(list)) /\ Cardinality(1 .. Len(list)) = Len(list)
  BY <1>1, FS_Interval
<1>5. \A i \in 1 .. Len(list) : list[i] \in rest
  BY <1>1 DEF In
<1>6. ASSUME Cardinality(1 .. Len(list)) > Cardinality(rest) PROVE FALSE
  <2>1. list \in [1 .. Len(list) -> rest]
    BY <1>1, <1>5
  <2>2. \E i, j \in 1 .. Len(list) : i # j /\ list[i] = list[j]
    BY <1>3, <1>4, <1>6, <2>1, FS_PigeonHole
  <2> QED BY <1>1, <2>2 DEF Once
<1> QED BY <1>1, <1>3, <1>4, <1>6

\* Every step of the client and of the broker takes a request from one place to the next.
LEMMA AsyncStep == AsyncInv /\ [AsyncNext]_asyncVars => AsyncInv'
<1> SUFFICES ASSUME AsyncInv, [AsyncNext]_asyncVars PROVE AsyncInv'
  OBVIOUS
<1>0. /\ AsyncTyped
      /\ Once(outgoing) /\ Once(incoming) /\ Once(replied)
      /\ \A n \in Echo : OnlyThere(n, In(outgoing, n), In(incoming, n), In(replied, n))
      /\ crowded # {} => Echoes > PipeRoom /\ Len(replied) + Len(incoming) >= PipeRoom
      /\ Echoes \in Nat /\ PipeRoom \in Nat /\ sentCount \in Nat
      /\ Len(outgoing) \in Nat /\ Len(incoming) \in Nat /\ Len(replied) \in Nat
  BY AsyncAssumption DEF AsyncInv, AsyncTyped
<1>1. CASE BrokerReads
  <2>1. /\ outgoing # <<>> /\ atWork' = atWork \cup {Head(outgoing)} /\ outgoing' = Tail(outgoing)
        /\ UNCHANGED <<incoming, crowded, perished, sentCount, replied, client2>>
    BY <1>1 DEF BrokerReads
  <2>2. /\ \A n : In(outgoing', n) <=> In(outgoing, n) /\ n # Head(outgoing)
        /\ In(outgoing, Head(outgoing)) /\ Head(outgoing) \in Echo
        /\ Once(outgoing') /\ outgoing' \in Seq(Echo)
    <3>1. outgoing \in Seq(Echo)
      BY <1>0 DEF AsyncTyped
    <3> QED BY <1>0, <2>1, <3>1, TailIn
  <2>3. ASSUME NEW n \in Echo PROVE OnlyThere(n, In(outgoing, n), In(incoming, n), In(replied, n))'
    <3>1. OnlyThere(n, In(outgoing, n), In(incoming, n), In(replied, n))
      BY <1>0
    <3> QED BY <2>1, <2>2, <3>1 DEF OnlyThere
  <2>4. AsyncTyped'
    BY <1>0, <2>1, <2>2 DEF AsyncTyped
  <2> QED BY <1>0, <2>1, <2>2, <2>3, <2>4 DEF AsyncInv
<1>2. ASSUME NEW m \in Echo, EchoAnswered(m) PROVE AsyncInv'
  <2>1. /\ m \in atWork /\ atWork' = atWork \ {m}
        /\ UNCHANGED <<outgoing, perished, sentCount, replied, client2>>
    BY <1>2 DEF EchoAnswered
  <2>2. ~In(incoming, m) /\ m \notin crowded
    BY <1>0, <2>1 DEF OnlyThere
  <2>3. CASE Len(incoming) < PipeRoom
    <3>1. incoming' = Append(incoming, m) /\ UNCHANGED crowded
      BY <1>2, <2>3 DEF EchoAnswered
    <3>2. /\ \A n : In(incoming', n) <=> In(incoming, n) \/ n = m
          /\ Once(incoming') /\ incoming' \in Seq(Echo) /\ Len(incoming') = Len(incoming) + 1
      <4>1. incoming \in Seq(Echo)
        BY <1>0 DEF AsyncTyped
      <4> QED BY <1>0, <2>2, <3>1, <4>1, AppendIn
    <3>3. ASSUME NEW n \in Echo PROVE OnlyThere(n, In(outgoing, n), In(incoming, n), In(replied, n))'
      <4>1. OnlyThere(n, In(outgoing, n), In(incoming, n), In(replied, n))
        BY <1>0
      <4> QED BY <2>1, <3>1, <3>2, <4>1 DEF OnlyThere
    <3>4. AsyncTyped'
      BY <1>0, <2>1, <3>1, <3>2 DEF AsyncTyped
    <3>5. crowded' # {} => Echoes > PipeRoom /\ Len(replied') + Len(incoming') >= PipeRoom
      BY <1>0, <2>1, <3>1, <3>2
    <3> QED BY <1>0, <2>1, <3>2, <3>3, <3>4, <3>5 DEF AsyncInv
  <2>4. CASE ~(Len(incoming) < PipeRoom)
    <3>1. crowded' = crowded \cup {m} /\ UNCHANGED incoming
      BY <1>2, <2>4 DEF EchoAnswered
    <3>2. ASSUME NEW n \in Echo PROVE OnlyThere(n, In(outgoing, n), In(incoming, n), In(replied, n))'
      <4>1. OnlyThere(n, In(outgoing, n), In(incoming, n), In(replied, n))
        BY <1>0
      <4> QED BY <2>1, <3>1, <4>1 DEF OnlyThere
    <3>3. AsyncTyped'
      BY <1>0, <2>1, <3>1 DEF AsyncTyped
    <3>4. Len(incoming) < Echoes
      <4>1. incoming \in Seq(Echo)
        BY <1>0 DEF AsyncTyped
      <4> QED BY <1>0, <2>2, <4>1, PipeFull
    <3>5. crowded' # {} => Echoes > PipeRoom /\ Len(replied') + Len(incoming') >= PipeRoom
      BY <1>0, <2>1, <2>4, <3>1, <3>4
    <3> QED BY <1>0, <2>1, <3>1, <3>2, <3>3, <3>5 DEF AsyncInv
  <2> QED BY <2>3, <2>4
<1>3. ASSUME NEW m \in Echo, EchoPerishes(m) PROVE AsyncInv'
  <2>1. /\ m \in atWork /\ atWork' = atWork \ {m} /\ perished' = perished \cup {m}
        /\ UNCHANGED <<outgoing, incoming, crowded, sentCount, replied, client2>>
    BY <1>3 DEF EchoPerishes
  <2>2. ASSUME NEW n \in Echo PROVE OnlyThere(n, In(outgoing, n), In(incoming, n), In(replied, n))'
    <3>1. OnlyThere(n, In(outgoing, n), In(incoming, n), In(replied, n))
      BY <1>0
    <3> QED BY <2>1, <3>1 DEF OnlyThere
  <2>3. AsyncTyped'
    BY <1>0, <2>1 DEF AsyncTyped
  <2> QED BY <1>0, <2>1, <2>2, <2>3 DEF AsyncInv
<1>4. CASE AsyncSend
  <2>1. /\ sentCount < Echoes /\ sentCount' = sentCount + 1 /\ outgoing' = Append(outgoing, sentCount')
        /\ UNCHANGED <<atWork, incoming, crowded, perished, replied, client2>>
    BY <1>4 DEF AsyncSend
  <2>2. sentCount' \in Echo /\ ~(sentCount' <= sentCount) /\ sentCount' \in 0 .. Echoes
    BY <1>0, <2>1 DEF Echo
  <2>3. OnlyThere(sentCount', In(outgoing, sentCount'), In(incoming, sentCount'), In(replied, sentCount'))
    BY <1>0, <2>2
  <2>4. ~In(outgoing, sentCount')
    BY <2>2, <2>3 DEF OnlyThere
  <2>5. /\ \A n : In(outgoing', n) <=> In(outgoing, n) \/ n = sentCount'
        /\ Once(outgoing') /\ outgoing' \in Seq(Echo)
    <3>1. outgoing \in Seq(Echo)
      BY <1>0 DEF AsyncTyped
    <3> QED BY <1>0, <2>1, <2>2, <2>4, <3>1, AppendIn
  <2>6. ASSUME NEW n \in Echo PROVE OnlyThere(n, In(outgoing, n), In(incoming, n), In(replied, n))'
    <3>1. OnlyThere(n, In(outgoing, n), In(incoming, n), In(replied, n))
      BY <1>0
    <3>2. n <= sentCount' <=> n <= sentCount \/ n = sentCount'
      BY <1>0, <2>1 DEF Echo
    <3>3. CASE n = sentCount'
      BY <2>1, <2>2, <2>3, <2>5, <3>2, <3>3 DEF OnlyThere
    <3>4. CASE n # sentCount'
      BY <2>1, <2>5, <3>1, <3>2, <3>4 DEF OnlyThere
    <3> QED BY <3>3, <3>4
  <2>7. AsyncTyped'
    BY <1>0, <2>1, <2>2, <2>5 DEF AsyncTyped
  <2> QED BY <1>0, <2>1, <2>5, <2>6, <2>7 DEF AsyncInv
<1>5. CASE AsyncReceive
  <2>1. /\ incoming # <<>> /\ replied' = Append(replied, Head(incoming)) /\ incoming' = Tail(incoming)
        /\ UNCHANGED <<outgoing, atWork, crowded, perished, sentCount, client2>>
    BY <1>5 DEF AsyncReceive
  <2>2. /\ \A n : In(incoming', n) <=> In(incoming, n) /\ n # Head(incoming)
        /\ In(incoming, Head(incoming)) /\ Head(incoming) \in Echo
        /\ Once(incoming') /\ incoming' \in Seq(Echo) /\ Len(incoming') = Len(incoming) - 1
    <3>1. incoming \in Seq(Echo)
      BY <1>0 DEF AsyncTyped
    <3> QED BY <1>0, <2>1, <3>1, TailIn
  <2>3. ~In(replied, Head(incoming))
    BY <1>0, <2>2 DEF OnlyThere
  <2>4. /\ \A n : In(replied', n) <=> In(replied, n) \/ n = Head(incoming)
        /\ Once(replied') /\ replied' \in Seq(Echo) /\ Len(replied') = Len(replied) + 1
    <3>1. replied \in Seq(Echo)
      BY <1>0 DEF AsyncTyped
    <3> QED BY <1>0, <2>1, <2>2, <2>3, <3>1, AppendIn
  <2>5. ASSUME NEW n \in Echo PROVE OnlyThere(n, In(outgoing, n), In(incoming, n), In(replied, n))'
    <3>1. OnlyThere(n, In(outgoing, n), In(incoming, n), In(replied, n))
      BY <1>0
    <3> QED BY <2>1, <2>2, <2>4, <3>1 DEF OnlyThere
  <2>6. AsyncTyped'
    BY <1>0, <2>1, <2>2, <2>4 DEF AsyncTyped
  <2>7. crowded' # {} => Echoes > PipeRoom /\ Len(replied') + Len(incoming') >= PipeRoom
    BY <1>0, <2>1, <2>2, <2>4
  <2> QED BY <1>0, <2>1, <2>2, <2>4, <2>5, <2>6, <2>7 DEF AsyncInv
<1>6. CASE SentAll \/ AsyncTimeout \/ ReadAll \/ UNCHANGED asyncVars
  <2>1. UNCHANGED <<outgoing, atWork, incoming, crowded, perished, sentCount, replied>>
    BY <1>6 DEF SentAll, AsyncTimeout, ReadAll, asyncVars
  <2>2. AsyncTyped'
    BY <1>0, <2>1 DEF AsyncTyped
  <2>3. ASSUME NEW n \in Echo PROVE OnlyThere(n, In(outgoing, n), In(incoming, n), In(replied, n))'
    <3>1. OnlyThere(n, In(outgoing, n), In(incoming, n), In(replied, n))
      BY <1>0
    <3> QED BY <2>1, <3>1 DEF OnlyThere
  <2> QED BY <1>0, <2>1, <2>2, <2>3 DEF AsyncInv
<1> QED BY <1>1, <1>2, <1>3, <1>4, <1>5, <1>6 DEF AsyncNext, AsyncProgram

\* No reply is in two places.
LEMMA AsyncMeans == AsyncInv => AsyncSound
<1> SUFFICES ASSUME AsyncInv, NEW n \in Echo
             PROVE  AsyncPlaces(n) = IF n <= sentCount THEN 1 ELSE 0
  BY DEF AsyncInv, AsyncSound
<1> DEFINE of(q) == Cardinality({k \in DOMAIN q : q[k] = n})
           is(S) == IF n \in S THEN 1 ELSE 0
<1>1. OnlyThere(n, In(outgoing, n), In(incoming, n), In(replied, n))
  BY DEF AsyncInv
<1>2. of(outgoing) = IF In(outgoing, n) THEN 1 ELSE 0
  BY OneCardinality DEF AsyncInv
<1>3. of(incoming) = IF In(incoming, n) THEN 1 ELSE 0
  BY OneCardinality DEF AsyncInv
<1>4. of(replied) = IF In(replied, n) THEN 1 ELSE 0
  BY OneCardinality DEF AsyncInv
<1>5. AsyncPlaces(n) = of(outgoing) + of(incoming) + of(replied) + is(atWork) + is(crowded) + is(perished)
  BY DEF AsyncPlaces
<1> HIDE DEF of
<1> QED BY <1>1, <1>2, <1>3, <1>4, <1>5 DEF OnlyThere

\* Every reply that the asynchronous client counts is of another request, and none is
\* dropped but for a client with more requests than the pipe back has room for, after it
\* left that many unread (mdclient2.c, mdcliapi2.c).
THEOREM NoReplyTwice == AsyncSpec => []AsyncSound
BY AsyncBegins, AsyncStep, AsyncMeans, PTL DEF AsyncSpec

----------------------------------------------------------------------------
(* The readers of two feeds hear what they take in order.                  *)

FeedSpec == FeedInit /\ [][FeedNext]_feedVars

\* What socket i lets through of what its source has sent, and what of it was not missed.
Through(i) == [topic : reader.sockets[i].takes, n : 1 .. said[i]]
TakenIn(i)    == heard[i] \o held[i]

Rising(s) == \A j, k \in DOMAIN s : j < k => s[j].n < s[k].n

\* What a socket gives its reader is in order, and complete but for what was missed.
Stream(i) ==
    /\ heard[i] \in Seq(Through(i)) /\ held[i] \in Seq(Through(i))
    /\ Rising(TakenIn(i))
    /\ LET in == reader.sockets[i]
       IN  /\ \A n \in 1 .. said[i] : in.source.says[((n - 1) % Len(in.source.says)) + 1] \subseteq in.takes
                                        => n \in Numbers(TakenIn(i)) \cup {m.n : m \in passed[i]}
           /\ in.source.socket = "PUSH" => passed[i] = {}

FeedInv ==
    /\ Sockets \subseteq 1 .. 2
    /\ said \in [Sockets -> Nat]
    /\ DOMAIN held = Sockets /\ DOMAIN heard = Sockets /\ DOMAIN passed = Sockets
    /\ ready \subseteq {i \in Sockets : held[i] # <<>>}
    /\ ready # {} => reader.loop = "poll"
    /\ \A i \in Sockets : Stream(i)

\* A message that comes to the end of the second of two lists.
LEMMA JoinedAppend ==
    ASSUME NEW S, NEW h \in Seq(S), NEW l \in Seq(S), NEW x
    PROVE  h \o Append(l, x) = Append(h \o l, x) /\ Append(l, x) # <<>>
<1> DEFINE T == S \cup {x}
<1>1. h \in Seq(T) /\ l \in Seq(T) /\ x \in T /\ <<x>> \in Seq(T)
  BY SeqMonotonic
<1> HIDE DEF T
<1>2. h \o l \in Seq(T) /\ Append(l, x) = l \o <<x>> /\ Append(l, x) # <<>>
  BY <1>1, ConcatProperties, AppendIsConcat, AppendProperties
<1>3. Append(h \o l, x) = (h \o l) \o <<x>>
  BY <1>1, <1>2, AppendIsConcat
<1>4. (h \o l) \o <<x>> = h \o (l \o <<x>>)
  BY <1>1, ConcatAssociative
<1> QED BY <1>2, <1>3, <1>4

\* A message that moves from one list to the end of the list before it.
LEMMA JoinedMoves ==
    ASSUME NEW S, NEW h \in Seq(S), NEW l \in Seq(S), l # <<>>
    PROVE  /\ Append(h, Head(l)) \o Tail(l) = h \o l
           /\ Append(h, Head(l)) \in Seq(S) /\ Tail(l) \in Seq(S)
<1>1. Head(l) \in S /\ Tail(l) \in Seq(S) /\ <<Head(l)>> \in Seq(S)
  BY HeadTailProperties
<1>2. Append(h, Head(l)) = h \o <<Head(l)>> /\ Append(h, Head(l)) \in Seq(S)
  BY <1>1, AppendIsConcat, AppendProperties
<1>3. (h \o <<Head(l)>>) \o Tail(l) = h \o (<<Head(l)>> \o Tail(l))
  BY <1>1, ConcatAssociative
<1>4. <<Head(l)>> \o Tail(l) = l
  <2>1. Len(l) \in Nat \ {0} /\ Head(l) = l[1] /\ Len(Tail(l)) = Len(l) - 1 /\ Len(<<Head(l)>>) = 1
    OBVIOUS
  <2>2. \A i \in 1 .. Len(l) - 1 : Tail(l)[i] = l[i + 1]
    OBVIOUS
  <2> DEFINE rest == Tail(l)
             one == <<Head(l)>>
  <2>3. rest \in Seq(S) /\ one \in Seq(S) /\ Len(rest) = Len(l) - 1 /\ Len(one) = 1 /\ one[1] = l[1]
    BY <1>1, <2>1
  <2> HIDE DEF rest, one
  <2>4. /\ one \o rest \in Seq(S) /\ Len(one \o rest) = Len(one) + Len(rest)
        /\ \A i \in 1 .. Len(one) + Len(rest) :
             (one \o rest)[i] = IF i <= Len(one) THEN one[i] ELSE rest[i - Len(one)]
    BY <2>3, ConcatProperties
  <2>5. Len(one \o rest) = Len(l) /\ Len(one) + Len(rest) = Len(l)
    BY <2>1, <2>3, <2>4
  <2>6. ASSUME NEW i \in 1 .. Len(l) PROVE (one \o rest)[i] = l[i]
    <3>1. (one \o rest)[i] = IF i <= 1 THEN one[i] ELSE rest[i - 1]
      BY <2>3, <2>4, <2>5
    <3>2. CASE i = 1
      BY <2>3, <3>1, <3>2
    <3>3. CASE i > 1
      <4>1. (one \o rest)[i] = rest[i - 1] /\ i - 1 \in 1 .. Len(l) - 1
        BY <2>1, <3>1, <3>3
      <4>2. rest[i - 1] = l[(i - 1) + 1]
        BY <2>2, <4>1 DEF rest
      <4> QED BY <4>1, <4>2
    <3>4. i = 1 \/ i > 1
      BY <2>1
    <3> QED BY <3>2, <3>3, <3>4
  <2>7. one \o rest = l
    BY <2>4, <2>5, <2>6, SeqEqual
  <2> QED BY <2>7 DEF one, rest
<1> QED BY <1>1, <1>2, <1>3, <1>4

\* A reader has one or two sockets.
LEMMA ReadersSockets == \A r \in Readers : DOMAIN r.sockets \subseteq 1 .. 2
<1>1. \A source, takes : DOMAIN Receiver(source, takes).sockets \subseteq 1 .. 2
  BY DEF Receiver
<1>2. \A r \in {BangaloreSub, ChennaiSub, DelhiSub, MultiSubClient, WuClient, OneCityClient,
                ClientSeparateOne, WsClient} : \E source, takes : r = Receiver(source, takes)
  BY DEF BangaloreSub, ChennaiSub, DelhiSub, MultiSubClient, WuClient, OneCityClient,
         ClientSeparateOne, WsClient
<1>3. \A l, a, b : DOMAIN [loop |-> l, sockets |-> <<a, b>>].sockets \subseteq 1 .. 2
  OBVIOUS
<1>4. \A r \in {MultipleSocketPoller, MultiPollerCorrect, MsPoller, TwoSourcePoller, MultisocketReader} :
        \E l, a, b : r = [loop |-> l, sockets |-> <<a, b>>]
  BY DEF MultipleSocketPoller, MultiPollerCorrect, MsPoller, TwoSourcePoller, MultisocketReader
<1> QED BY <1>1, <1>2, <1>3, <1>4 DEF Readers

\* Nothing is said yet.
LEMMA FeedBegins == FeedInit => FeedInv
<1> SUFFICES ASSUME FeedInit PROVE FeedInv
  OBVIOUS
<1>1. /\ Sockets \subseteq 1 .. 2 /\ ready = {}
      /\ said = [i \in Sockets |-> 0] /\ held = [i \in Sockets |-> <<>>]
      /\ heard = [i \in Sockets |-> <<>>] /\ passed = [i \in Sockets |-> {}]
  BY ReadersSockets DEF FeedInit, Sockets
<1>2. ASSUME NEW i \in Sockets PROVE Stream(i)
  <2>1. held[i] = <<>> /\ heard[i] = <<>> /\ passed[i] = {} /\ said[i] = 0
    BY <1>1
  <2>2. TakenIn(i) = <<>>
    BY <2>1, ConcatEmptySeq DEF TakenIn
  <2>3. Rising(TakenIn(i)) /\ 1 .. said[i] = {}
    BY <2>1, <2>2 DEF Rising
  <2>4. heard[i] \in Seq(Through(i)) /\ held[i] \in Seq(Through(i))
    BY <2>1
  <2> QED BY <2>1, <2>3, <2>4 DEF Stream
<1> QED BY <1>1, <1>2 DEF FeedInv

\* Nothing of a socket's stream changes with what happens at the other one.
LEMMA StreamSame ==
    ASSUME NEW i, Stream(i), UNCHANGED reader,
           UNCHANGED <<held[i], heard[i], said[i], passed[i]>>
    PROVE  Stream(i)'
BY DEF Stream, Through, TakenIn, Rising, Numbers

\* A message that is read goes from the socket to what was heard, and stays in the stream.
LEMMA HearStep ==
    ASSUME FeedInv, NEW i \in Sockets, Hear(i), UNCHANGED <<reader, said, passed>>
    PROVE  /\ \A j \in Sockets : Stream(j)'
           /\ \A j \in Sockets \ {i} : held'[j] = held[j]
           /\ DOMAIN held' = Sockets /\ DOMAIN heard' = Sockets
<1>1. /\ held[i] # <<>>
      /\ heard' = [heard EXCEPT ![i] = Append(heard[i], Head(held[i]))]
      /\ held' = [held EXCEPT ![i] = Tail(held[i])]
      /\ DOMAIN held = Sockets /\ DOMAIN heard = Sockets
  BY DEF Hear, FeedInv
<1>2. /\ heard'[i] = Append(heard[i], Head(held[i])) /\ held'[i] = Tail(held[i])
      /\ \A j \in Sockets \ {i} : held'[j] = held[j] /\ heard'[j] = heard[j]
      /\ DOMAIN held' = Sockets /\ DOMAIN heard' = Sockets
  BY <1>1
<1>3. Stream(i)'
  <2>1. Stream(i)
    BY DEF FeedInv
  <2>2. heard[i] \in Seq(Through(i)) /\ held[i] \in Seq(Through(i))
    BY <2>1 DEF Stream
  <2>3. heard'[i] \o held'[i] = heard[i] \o held[i] /\ heard'[i] \in Seq(Through(i)) /\ held'[i] \in Seq(Through(i))
    BY <1>1, <1>2, <2>2, JoinedMoves
  <2>4. TakenIn(i)' = TakenIn(i) /\ Through(i)' = Through(i)
    BY <2>3 DEF TakenIn, Through
  <2> QED BY <2>1, <2>3, <2>4 DEF Stream, Rising, Numbers
<1>4. ASSUME NEW j \in Sockets \ {i} PROVE Stream(j)'
  BY <1>2, <1>4, StreamSame DEF FeedInv
<1> QED BY <1>2, <1>3, <1>4

\* One more message from a source: it comes to the end of the stream, or is missed, or is
\* not what the socket takes.
LEMMA SayStep ==
    ASSUME FeedInv, NEW i \in Sockets, Say(i)
    PROVE  Stream(i)'
<1> DEFINE in == reader.sockets[i]
           new == said[i] + 1
<1>1. /\ Stream(i) /\ said \in [Sockets -> Nat] /\ said[i] \in Nat /\ new \in Nat
      /\ DOMAIN held = Sockets /\ DOMAIN passed = Sockets
  BY DEF FeedInv
<1>2. PICK topic \in in.source.says[(said[i] % Len(in.source.says)) + 1] :
        LET m == [topic |-> topic, n |-> new]
        IN  IF topic \notin in.takes THEN UNCHANGED <<held, passed>>
            ELSE IF Fits(i) THEN held' = [held EXCEPT ![i] = Append(held[i], m)] /\ UNCHANGED passed
            ELSE passed' = [passed EXCEPT ![i] = passed[i] \cup {m}] /\ UNCHANGED held
  BY DEF Say
<1>3. /\ said'[i] = new /\ reader' = reader /\ heard' = heard
      /\ in.source.socket = "PUSH" => Fits(i)
  BY <1>1 DEF Say
<1> DEFINE m == [topic |-> topic, n |-> new]
           about(n) == in.source.says[((n - 1) % Len(in.source.says)) + 1] \subseteq in.takes
<1>4. about(new) => topic \in in.takes
  <2>1. new - 1 = said[i]
    BY <1>1
  <2> QED BY <1>2, <2>1
<1>5. /\ heard[i] \in Seq(Through(i)) /\ held[i] \in Seq(Through(i)) /\ Rising(TakenIn(i))
      /\ \A n \in 1 .. said[i] : about(n) => n \in Numbers(TakenIn(i)) \cup {e.n : e \in passed[i]}
      /\ in.source.socket = "PUSH" => passed[i] = {}
  BY <1>1 DEF Stream
<1>6. /\ Through(i) \subseteq Through(i)' /\ 1 .. new = 1 .. said[i] \cup {new}
      /\ heard[i] \in Seq(Through(i)') /\ held[i] \in Seq(Through(i)')
  <2>1. Through(i) \subseteq Through(i)' /\ 1 .. new = 1 .. said[i] \cup {new}
    BY <1>1, <1>3 DEF Through
  <2> QED BY <1>5, <2>1, SeqMonotonic
<1> HIDE DEF in, about
<1>7. CASE topic \notin in.takes
  <2>1. held' = held /\ passed' = passed
    BY <1>2, <1>7
  <2>2. TakenIn(i)' = TakenIn(i)
    BY <1>3, <2>1 DEF TakenIn
  <2>3. \A n \in 1 .. new : about(n) => n \in Numbers(TakenIn(i)) \cup {e.n : e \in passed[i]}
    BY <1>4, <1>5, <1>6, <1>7
  <2> QED BY <1>3, <1>5, <1>6, <2>1, <2>2, <2>3 DEF Stream, in, about
<1>8. CASE topic \in in.takes /\ Fits(i)
  <2>1. held'[i] = Append(held[i], m) /\ passed' = passed
    BY <1>1, <1>2, <1>8
  <2>2. m \in Through(i)'
    BY <1>1, <1>3, <1>8 DEF Through, in
  <2>3. TakenIn(i)' = Append(TakenIn(i), m)
    <3>1. \A S : \A h, l \in Seq(S) : h \o Append(l, m) = Append(h \o l, m)
      <4> HIDE DEF m
      <4> QED BY JoinedAppend
    <3>2. heard[i] \o Append(held[i], m) = Append(heard[i] \o held[i], m)
      <4> HIDE DEF m
      <4> QED BY <1>5, <3>1
    <3> HIDE DEF m
    <3> QED BY <1>3, <2>1, <3>2 DEF TakenIn
  <2>4. TakenIn(i) \in Seq(Through(i)) /\ TakenIn(i) \in Seq(Through(i)')
    BY <1>5, <1>6, ConcatProperties DEF TakenIn
  <2>5. \A j \in DOMAIN TakenIn(i) : TakenIn(i)[j].n \in 1 .. said[i]
    <3>1. \A j \in DOMAIN TakenIn(i) : TakenIn(i)[j] \in Through(i)
      BY <2>4
    <3>2. \A e \in Through(i) : e.n \in 1 .. said[i]
      BY DEF Through
    <3> QED BY <3>1, <3>2
  <2>6. /\ DOMAIN TakenIn(i) = 1 .. Len(TakenIn(i)) /\ Len(TakenIn(i)) \in Nat
        /\ DOMAIN TakenIn(i)' = 1 .. Len(TakenIn(i)) + 1
        /\ \A j \in 1 .. Len(TakenIn(i)) : TakenIn(i)'[j] = TakenIn(i)[j]
        /\ TakenIn(i)'[Len(TakenIn(i)) + 1] = m
    BY <2>2, <2>3, <2>4, AppendProperties, LenProperties
  <2>7. Rising(TakenIn(i)')
    <3> SUFFICES ASSUME NEW j \in DOMAIN TakenIn(i)', NEW k \in DOMAIN TakenIn(i)', j < k
                 PROVE  TakenIn(i)'[j].n < TakenIn(i)'[k].n
      BY DEF Rising
    <3>1. j \in 1 .. Len(TakenIn(i))
      BY <2>6
    <3>2. CASE k \in 1 .. Len(TakenIn(i))
      BY <1>5, <2>6, <3>1, <3>2 DEF Rising
    <3>3. CASE k = Len(TakenIn(i)) + 1
      <4>1. TakenIn(i)'[k].n = new /\ TakenIn(i)'[j].n \in 1 .. said[i]
        BY <2>5, <2>6, <3>1, <3>3
      <4> QED BY <1>1, <4>1
    <3> QED BY <2>6, <3>2, <3>3
  <2>8. Numbers(TakenIn(i)) \subseteq Numbers(TakenIn(i)') /\ new \in Numbers(TakenIn(i)')
    <3>1. new \in Numbers(TakenIn(i)')
      <4>1. Len(TakenIn(i)) + 1 \in DOMAIN TakenIn(i)' /\ TakenIn(i)'[Len(TakenIn(i)) + 1].n = new
        BY <2>6
      <4> QED BY <4>1 DEF Numbers
    <3>2. Numbers(TakenIn(i)) \subseteq Numbers(TakenIn(i)')
      BY <2>6 DEF Numbers
    <3> QED BY <3>1, <3>2
  <2>9. \A n \in 1 .. new : about(n) => n \in Numbers(TakenIn(i)') \cup {e.n : e \in passed[i]}
    BY <1>5, <1>6, <2>8
  <2>10. held'[i] \in Seq(Through(i)')
    BY <1>6, <2>1, <2>2
  <2> QED BY <1>3, <1>5, <1>6, <2>1, <2>7, <2>9, <2>10 DEF Stream, in, about, Numbers
<1>9. CASE topic \in in.takes /\ ~Fits(i)
  <2>1. passed'[i] = passed[i] \cup {m} /\ held' = held
    BY <1>1, <1>2, <1>9
  <2>2. TakenIn(i)' = TakenIn(i)
    BY <1>3, <2>1 DEF TakenIn
  <2>3. {e.n : e \in passed'[i]} = {e.n : e \in passed[i]} \cup {new}
    <3>1. m.n = new
      OBVIOUS
    <3> HIDE DEF m, new
    <3> QED BY <2>1, <3>1
  <2>4. \A n \in 1 .. new : about(n) => n \in Numbers(TakenIn(i)) \cup {e.n : e \in passed'[i]}
    BY <1>5, <1>6, <2>3
  <2>5. ~(in.source.socket = "PUSH")
    BY <1>3, <1>9
  <2> QED BY <1>3, <1>5, <1>6, <2>1, <2>2, <2>4, <2>5 DEF Stream, in, about
<1> QED BY <1>7, <1>8, <1>9

\* Every step of the publishers and the reader keeps the streams.
LEMMA FeedStep == FeedInv /\ [FeedNext]_feedVars => FeedInv'
<1> SUFFICES ASSUME FeedInv, [FeedNext]_feedVars PROVE FeedInv'
  OBVIOUS
<1>0. /\ Sockets \subseteq 1 .. 2 /\ said \in [Sockets -> Nat]
      /\ DOMAIN held = Sockets /\ DOMAIN heard = Sockets /\ DOMAIN passed = Sockets
      /\ ready \subseteq {i \in Sockets : held[i] # <<>>}
      /\ ready # {} => reader.loop = "poll"
      /\ \A i \in Sockets : Stream(i)
  BY DEF FeedInv
<1>1. ASSUME NEW i \in Sockets, Join(i) PROVE FeedInv'
  <2>1. UNCHANGED <<reader, said, held, ready, heard, passed>> /\ Sockets' = Sockets
    BY <1>1 DEF Join, Sockets
  <2>2. \A j \in Sockets : Stream(j)'
    BY <1>0, <2>1, StreamSame
  <2> QED BY <1>0, <2>1, <2>2 DEF FeedInv
<1>2. ASSUME NEW i \in Sockets, Say(i) PROVE FeedInv'
  <2>1. /\ said' = [said EXCEPT ![i] = said[i] + 1] /\ UNCHANGED <<reader, ready, heard>> /\ Sockets' = Sockets
    BY <1>2 DEF Say, Sockets
  <2>2. \/ UNCHANGED <<held, passed>>
        \/ \E m : held' = [held EXCEPT ![i] = Append(held[i], m)] /\ UNCHANGED passed
        \/ \E m : passed' = [passed EXCEPT ![i] = passed[i] \cup {m}] /\ UNCHANGED held
    BY <1>2 DEF Say
  <2>3. /\ DOMAIN held' = Sockets /\ DOMAIN passed' = Sockets
        /\ \A j \in Sockets \ {i} : held'[j] = held[j] /\ passed'[j] = passed[j]
    BY <1>0, <2>2
  <2>4. held[i] # <<>> => held'[i] # <<>>
    <3>1. held[i] \in Seq(Through(i))
      BY <1>0 DEF Stream
    <3>2. \A m : Append(held[i], m) # <<>>
      BY <3>1, JoinedAppend
    <3> QED BY <1>0, <2>2, <3>2
  <2>5. said' \in [Sockets -> Nat] /\ \A j \in Sockets \ {i} : said'[j] = said[j]
    BY <1>0, <2>1
  <2>6. \A j \in Sockets : Stream(j)'
    <3>1. Stream(i)'
      BY <1>2, SayStep
    <3>2. ASSUME NEW j \in Sockets \ {i} PROVE Stream(j)'
      BY <1>0, <2>1, <2>3, <2>5, <3>2, StreamSame
    <3> QED BY <3>1, <3>2
  <2>7. ready' \subseteq {j \in Sockets' : held'[j] # <<>>}
    BY <1>0, <2>1, <2>3, <2>4
  <2> QED BY <1>0, <2>1, <2>3, <2>5, <2>6, <2>7 DEF FeedInv
<1>3. ASSUME RecvOne PROVE FeedInv'
  <2>1. reader.loop \in {"recv", "spin"} /\ Hear(1) /\ UNCHANGED <<reader, joined, said, ready, passed>> /\ Sockets' = Sockets
    BY <1>3 DEF RecvOne, Sockets
  <2>2. ready = {}
    BY <1>0, <2>1
  <2>3. CASE 1 \in Sockets
    <3>1. (\A j \in Sockets : Stream(j)') /\ DOMAIN held' = Sockets /\ DOMAIN heard' = Sockets
      BY <2>1, <2>3, HearStep
    <3> QED BY <1>0, <2>1, <2>2, <3>1 DEF FeedInv
  <2>4. CASE 1 \notin Sockets
    <3>1. held' = held /\ heard' = heard
      BY <1>0, <2>1, <2>4 DEF Hear
    <3>2. \A j \in Sockets : Stream(j)'
      BY <1>0, <2>1, <3>1, StreamSame
    <3> QED BY <1>0, <2>1, <2>2, <3>1, <3>2 DEF FeedInv
  <2> QED BY <2>3, <2>4
<1>4. CASE PollAll
  <2>1. /\ ready' = {i \in Sockets : held[i] # <<>>} /\ reader.loop = "poll"
        /\ UNCHANGED <<reader, joined, said, held, heard, passed>> /\ Sockets' = Sockets
    BY <1>4 DEF PollAll, Sockets
  <2>2. \A j \in Sockets : Stream(j)'
    BY <1>0, <2>1, StreamSame
  <2> QED BY <1>0, <2>1, <2>2 DEF FeedInv
<1>5. CASE HearReady
  <2>1. /\ ready # {} /\ Hear(Min(ready)) /\ ready' = ready \ {Min(ready)}
        /\ UNCHANGED <<reader, joined, said, passed>> /\ Sockets' = Sockets
    BY <1>5 DEF HearReady, Sockets
  <2>2. Min(ready) \in ready
    <3>1. ready \subseteq 1 .. 2
      BY <1>0
    <3>2. \E x \in ready : \A y \in ready : x <= y
      <4>1. CASE 1 \in ready
        BY <3>1, <4>1
      <4>2. CASE 1 \notin ready
        <5>1. \A x \in ready : x = 2
          BY <3>1, <4>2
        <5>2. PICK x \in ready : TRUE
          BY <2>1
        <5> QED BY <5>1, <5>2
      <4> QED BY <4>1, <4>2
    <3> QED BY <3>2 DEF Min
  <2>3. Min(ready) \in Sockets
    BY <1>0, <2>2
  <2>4. /\ \A j \in Sockets : Stream(j)'
        /\ \A j \in Sockets \ {Min(ready)} : held'[j] = held[j]
        /\ DOMAIN held' = Sockets /\ DOMAIN heard' = Sockets
    BY <2>1, <2>3, HearStep
  <2>5. ready' \subseteq {j \in Sockets' : held'[j] # <<>>}
    BY <1>0, <2>1, <2>4
  <2> QED BY <1>0, <2>1, <2>4, <2>5 DEF FeedInv
<1>6. CASE UNCHANGED feedVars
  <2>1. UNCHANGED <<reader, said, held, ready, heard, passed>> /\ Sockets' = Sockets
    BY <1>6 DEF feedVars, Sockets
  <2>2. \A j \in Sockets : Stream(j)'
    BY <1>0, <2>1, StreamSame
  <2> QED BY <1>0, <2>1, <2>2 DEF FeedInv
<1> QED BY <1>1, <1>2, <1>3, <1>4, <1>5, <1>6 DEF FeedNext

\* What was heard is a beginning of what came through.
LEMMA FeedMeans == FeedInv => FeedsSound
<1> SUFFICES ASSUME FeedInv PROVE FeedsSound
  OBVIOUS
<1>1. ready \subseteq {i \in Sockets : held[i] # <<>>}
  BY DEF FeedInv
<1>2. ASSUME NEW i \in Sockets
      PROVE  /\ \A j \in DOMAIN TakenIn(i) : TakenIn(i)[j].topic \in reader.sockets[i].takes
             /\ Stream(i)
  <2>1. Stream(i)
    BY DEF FeedInv
  <2>2. TakenIn(i) \in Seq(Through(i))
    BY <2>1, ConcatProperties DEF Stream, TakenIn
  <2>3. \A j \in DOMAIN TakenIn(i) : TakenIn(i)[j] \in Through(i)
    BY <2>2
  <2>4. \A m \in Through(i) : m.topic \in reader.sockets[i].takes
    BY DEF Through
  <2> QED BY <2>1, <2>3, <2>4
<1> QED BY <1>1, <1>2 DEF FeedsSound, Stream, TakenIn, Rising

\* A reader hears all that it takes in order, but what it missed, and its reads of sockets
\* that were found ready do not wait (multi_poller_correct.c, mspoller.c, ws_client.c).
THEOREM HeardInOrder == FeedSpec => []FeedsSound
BY FeedBegins, FeedStep, FeedMeans, PTL DEF FeedSpec

----------------------------------------------------------------------------
(* Through either request-reply broker every request has its one reply.    *)

RRSpec == RRInit /\ [][RRNext]_rrVars

Hail == Asker \X Nat

\* The requests of the clients that wait.
Waiting == {<<c, request_nbr[c]>> : c \in {c \in Asker : asking[c]}}

\* What is in the lists of a family f is what is in x, each in one place.
Spreads(f, x) ==
    /\ \A s \in Stations : f[s] \in Seq(Hail) /\ Once(f[s])
    /\ \A s, t \in Stations : s # t => \A m : ~(In(f[s], m) /\ In(f[t], m))
    /\ \A m : m \in x <=> \E s \in Stations : In(f[s], m)

RRTyped ==
    /\ request_nbr \in [Asker -> Nat] /\ asking \in [Asker -> BOOLEAN]
    /\ DOMAIN backend = Responder /\ DOMAIN replying = Responder /\ DOMAIN replies = Asker

Queues == [s \in Stations |-> AtStation(s)]

RRInv ==
    /\ RRTyped
    /\ Spreads(Queues, Waiting)
    /\ \A c \in Asker : \A m : In(replies[c], m) => m[1] = c
    /\ revents \subseteq {"frontend", "backend"}
    /\ "frontend" \in revents => frontend # <<>>
    /\ "backend" \in revents => answers # <<>>
    /\ setup = "hello_server" => revents = {}

\* What each of the stops is.
\* What each of the stops is.
StationsFact ==
    /\ <<"frontend">> \in Stations /\ AtStation(<<"frontend">>) = frontend
    /\ <<"answers">> \in Stations /\ AtStation(<<"answers">>) = answers
    /\ \A w \in Responder :
          /\ <<"backend", w>> \in Stations /\ AtStation(<<"backend", w>>) = backend[w]
          /\ <<"replying", w>> \in Stations
          /\ AtStation(<<"replying", w>>) = IF replying[w] = <<>> THEN <<>> ELSE <<replying[w]>>
    /\ \A c \in Asker : <<"replies", c>> \in Stations /\ AtStation(<<"replies", c>>) = replies[c]
    /\ \A s \in Stations : \/ s = <<"frontend">> \/ s = <<"answers">>
                           \/ \E w \in Responder : s = <<"backend", w>> \/ s = <<"replying", w>>
                           \/ \E c \in Asker : s = <<"replies", c>>

\* The stations are the queues of the sockets and the hands of the workers.
LEMMA StationsAre == StationsFact
<1>1. <<"frontend">> \in Stations /\ <<"answers">> \in Stations
  BY DEF Stations
<1>2. AtStation(<<"frontend">>) = frontend
  BY DEF AtStation
<1>3. AtStation(<<"answers">>) = answers
  BY DEF AtStation
<1>4. ASSUME NEW w \in Responder
      PROVE  /\ <<"backend", w>> \in Stations /\ AtStation(<<"backend", w>>) = backend[w]
             /\ <<"replying", w>> \in Stations
             /\ AtStation(<<"replying", w>>) = IF replying[w] = <<>> THEN <<>> ELSE <<replying[w]>>
  <2>1. <<"backend", w>> \in Stations /\ <<"replying", w>> \in Stations
    BY DEF Stations
  <2>2. AtStation(<<"backend", w>>) = backend[w]
    BY DEF AtStation
  <2>3. AtStation(<<"replying", w>>) = IF replying[w] = <<>> THEN <<>> ELSE <<replying[w]>>
    BY DEF AtStation
  <2> QED BY <2>1, <2>2, <2>3
<1>5. ASSUME NEW c \in Asker PROVE <<"replies", c>> \in Stations /\ AtStation(<<"replies", c>>) = replies[c]
  <2>1. <<"replies", c>> \in Stations
    BY DEF Stations
  <2>2. AtStation(<<"replies", c>>) = replies[c]
    BY DEF AtStation
  <2> QED BY <2>1, <2>2
<1>6. ASSUME NEW s \in Stations
      PROVE  \/ s = <<"frontend">> \/ s = <<"answers">>
             \/ \E w \in Responder : s = <<"backend", w>> \/ s = <<"replying", w>>
             \/ \E c \in Asker : s = <<"replies", c>>
  BY DEF Stations
<1> HIDE DEF Stations, AtStation
<1> QED
  <2>1. \A w \in Responder :
          /\ <<"backend", w>> \in Stations /\ AtStation(<<"backend", w>>) = backend[w]
          /\ <<"replying", w>> \in Stations
          /\ AtStation(<<"replying", w>>) = IF replying[w] = <<>> THEN <<>> ELSE <<replying[w]>>
    BY <1>4
  <2>2. \A c \in Asker : <<"replies", c>> \in Stations /\ AtStation(<<"replies", c>>) = replies[c]
    BY <1>5
  <2>3. \A s \in Stations :
          \/ s = <<"frontend">> \/ s = <<"answers">>
          \/ \E w \in Responder : s = <<"backend", w>> \/ s = <<"replying", w>>
          \/ \E c \in Asker : s = <<"replies", c>>
    BY <1>6
  <2> QED BY <1>1, <1>2, <1>3, <2>1, <2>2, <2>3, Zenon DEF StationsFact

\* And after a step.
LEMMA StationsAreThen == StationsFact'
BY StationsAre, PTL

\* A station whose list is not changed.
LEMMA SameStation ==
    ASSUME NEW s \in Stations,
           s = <<"frontend">> => frontend' = frontend,
           s = <<"answers">> => answers' = answers,
           \A w \in Responder : /\ s = <<"backend", w>> => backend'[w] = backend[w]
                                /\ s = <<"replying", w>> => replying'[w] = replying[w],
           \A c \in Asker : s = <<"replies", c>> => replies'[c] = replies[c]
    PROVE  AtStation(s)' = AtStation(s)
<1>1. StationsFact /\ StationsFact'
  BY StationsAre, StationsAreThen
<1>2. CASE s = <<"frontend">> \/ s = <<"answers">>
  BY <1>1, <1>2 DEF StationsFact
<1>3. ASSUME NEW w \in Responder, s = <<"backend", w>> \/ s = <<"replying", w>> PROVE AtStation(s)' = AtStation(s)
  <2>1. CASE s = <<"backend", w>>
    <3>1. backend'[w] = backend[w]
      BY <2>1
    <3>2. AtStation(s) = backend[w]
      BY <1>1, <2>1 DEF StationsFact
    <3>3. AtStation(s)' = backend'[w]
      BY <1>1, <2>1 DEF StationsFact
    <3> QED BY <3>1, <3>2, <3>3
  <2>2. CASE s = <<"replying", w>>
    <3>1. replying'[w] = replying[w]
      BY <2>2
    <3>2. AtStation(s) = IF replying[w] = <<>> THEN <<>> ELSE <<replying[w]>>
      BY <1>1, <2>2 DEF StationsFact
    <3>3. AtStation(s)' = IF replying'[w] = <<>> THEN <<>> ELSE <<replying'[w]>>
      BY <1>1, <2>2 DEF StationsFact
    <3> QED BY <3>1, <3>2, <3>3
  <2> QED BY <1>3, <2>1, <2>2
<1>4. ASSUME NEW c \in Asker, s = <<"replies", c>> PROVE AtStation(s)' = AtStation(s)
  BY <1>1, <1>4 DEF StationsFact
<1> QED BY <1>1, <1>2, <1>3, <1>4 DEF StationsFact

\* The first of one list goes to the end of another, and all is still in one place.
LEMMA SpreadsMoves ==
    ASSUME NEW f, NEW g, NEW x, Spreads(f, x), NEW a \in Stations, NEW b \in Stations, a # b,
           f[a] # <<>>, g[a] = Tail(f[a]), g[b] = Append(f[b], Head(f[a])),
           \A s \in Stations \ {a, b} : g[s] = f[s]
    PROVE  Spreads(g, x)
<1> DEFINE h == Head(f[a])
<1>1. /\ f[a] \in Seq(Hail) /\ Once(f[a]) /\ f[b] \in Seq(Hail) /\ Once(f[b])
      /\ \A s, t \in Stations : s # t => \A m : ~(In(f[s], m) /\ In(f[t], m))
      /\ \A m : m \in x <=> \E s \in Stations : In(f[s], m)
      /\ \A s \in Stations : f[s] \in Seq(Hail) /\ Once(f[s])
  BY DEF Spreads
<1>2. /\ \A m : In(g[a], m) <=> In(f[a], m) /\ m # h
      /\ In(f[a], h) /\ h \in Hail /\ Once(g[a]) /\ g[a] \in Seq(Hail)
  BY <1>1, TailIn
<1>3. ~In(f[b], h)
  BY <1>1, <1>2
<1>4. /\ \A m : In(g[b], m) <=> In(f[b], m) \/ m = h
      /\ Once(g[b]) /\ g[b] \in Seq(Hail)
  BY <1>1, <1>2, <1>3, AppendIn
<1> HIDE DEF h
<1>5. ASSUME NEW s \in Stations PROVE g[s] \in Seq(Hail) /\ Once(g[s])
  BY <1>1, <1>2, <1>4
<1>6. ASSUME NEW s \in Stations, NEW t \in Stations, s # t, NEW m PROVE ~(In(g[s], m) /\ In(g[t], m))
  BY <1>1, <1>2, <1>3, <1>4, <1>6
<1>7. ASSUME NEW m PROVE (\E s \in Stations : In(f[s], m)) <=> (\E s \in Stations : In(g[s], m))
  BY <1>2, <1>4
<1> QED BY <1>1, <1>5, <1>6, <1>7 DEF Spreads

\* A new request comes to the end of a list.
LEMMA SpreadsAdds ==
    ASSUME NEW f, NEW g, NEW x, Spreads(f, x), NEW b \in Stations, NEW h \in Hail, h \notin x,
           g[b] = Append(f[b], h), \A s \in Stations \ {b} : g[s] = f[s]
    PROVE  Spreads(g, x \cup {h})
<1>1. /\ f[b] \in Seq(Hail) /\ Once(f[b])
      /\ \A s, t \in Stations : s # t => \A m : ~(In(f[s], m) /\ In(f[t], m))
      /\ \A m : m \in x <=> \E s \in Stations : In(f[s], m)
      /\ \A s \in Stations : f[s] \in Seq(Hail) /\ Once(f[s])
  BY DEF Spreads
<1>2. \A s \in Stations : ~In(f[s], h)
  BY <1>1
<1>3. /\ \A m : In(g[b], m) <=> In(f[b], m) \/ m = h
      /\ Once(g[b]) /\ g[b] \in Seq(Hail)
  BY <1>1, <1>2, AppendIn
<1>4. ASSUME NEW s \in Stations PROVE g[s] \in Seq(Hail) /\ Once(g[s])
  BY <1>1, <1>3
<1>5. ASSUME NEW s \in Stations, NEW t \in Stations, s # t, NEW m PROVE ~(In(g[s], m) /\ In(g[t], m))
  BY <1>1, <1>2, <1>3, <1>5
<1>6. ASSUME NEW m PROVE m \in x \cup {h} <=> \E s \in Stations : In(g[s], m)
  BY <1>1, <1>3
<1> QED BY <1>4, <1>5, <1>6 DEF Spreads

\* The first of a list is taken out.
LEMMA SpreadsDrops ==
    ASSUME NEW f, NEW g, NEW x, Spreads(f, x), NEW a \in Stations,
           f[a] # <<>>, g[a] = Tail(f[a]), \A s \in Stations \ {a} : g[s] = f[s]
    PROVE  Spreads(g, x \ {Head(f[a])})
<1> DEFINE h == Head(f[a])
<1>1. /\ f[a] \in Seq(Hail) /\ Once(f[a])
      /\ \A s, t \in Stations : s # t => \A m : ~(In(f[s], m) /\ In(f[t], m))
      /\ \A m : m \in x <=> \E s \in Stations : In(f[s], m)
      /\ \A s \in Stations : f[s] \in Seq(Hail) /\ Once(f[s])
  BY DEF Spreads
<1>2. /\ \A m : In(g[a], m) <=> In(f[a], m) /\ m # h
      /\ In(f[a], h) /\ Once(g[a]) /\ g[a] \in Seq(Hail)
  BY <1>1, TailIn
<1> HIDE DEF h
<1>3. ASSUME NEW s \in Stations PROVE g[s] \in Seq(Hail) /\ Once(g[s])
  BY <1>1, <1>2
<1>4. ASSUME NEW s \in Stations, NEW t \in Stations, s # t, NEW m PROVE ~(In(g[s], m) /\ In(g[t], m))
  BY <1>1, <1>2, <1>4
<1>5. ASSUME NEW m PROVE m \in x \ {h} <=> \E s \in Stations : In(g[s], m)
  BY <1>1, <1>2
<1> QED BY <1>3, <1>4, <1>5 DEF Spreads, h

\* Nothing is at any stop.
LEMMA RRBegins == RRInit => RRInv
<1> SUFFICES ASSUME RRInit PROVE RRInv
  OBVIOUS
<1>1. RRTyped /\ revents = {} /\ Waiting = {}
  BY DEF RRInit, RRTyped, Waiting
<1>2. \A s \in Stations : AtStation(s) = <<>>
  <2>1. /\ frontend = <<>> /\ answers = <<>>
        /\ \A w \in Responder : backend[w] = <<>> /\ replying[w] = <<>>
        /\ \A c \in Asker : replies[c] = <<>>
    BY DEF RRInit
  <2>2. ASSUME NEW s \in Stations PROVE AtStation(s) = <<>>
    <3>1. CASE s = <<"frontend">> \/ s = <<"answers">>
      BY <2>1, <3>1, StationsAre DEF StationsFact
    <3>2. ASSUME NEW w \in Responder, s = <<"backend", w>> \/ s = <<"replying", w>> PROVE AtStation(s) = <<>>
      BY <2>1, <3>2, StationsAre DEF StationsFact
    <3>3. ASSUME NEW c \in Asker, s = <<"replies", c>> PROVE AtStation(s) = <<>>
      BY <2>1, <3>3, StationsAre DEF StationsFact
    <3> QED BY <3>1, <3>2, <3>3, StationsAre DEF StationsFact
  <2> QED BY <2>2
<1>3. \A s \in Stations : Queues[s] = <<>>
  BY <1>2 DEF Queues
<1>4. (\A m : ~In(<<>>, m)) /\ Once(<<>>) /\ <<>> \in Seq(Hail)
  BY DEF In, Once
<1>5. Spreads(Queues, Waiting)
  BY <1>1, <1>3, <1>4 DEF Spreads
<1>6. \A c \in Asker : \A m : ~In(replies[c], m)
  BY <1>4 DEF RRInit
<1> QED BY <1>1, <1>5, <1>6 DEF RRInv

\* One step of the queues, from the stops that change.
LEMMA QueuesMove ==
    ASSUME RRInv, NEW a \in Stations, NEW b \in Stations, a # b,
           AtStation(a) # <<>>, AtStation(a)' = Tail(AtStation(a)), AtStation(b)' = Append(AtStation(b), Head(AtStation(a))),
           \A s \in Stations \ {a, b} : AtStation(s)' = AtStation(s), Waiting' = Waiting
    PROVE  Spreads(Queues, Waiting)'
<1>1. \A s \in Stations : Queues[s] = AtStation(s)
  BY DEF Queues
<1>2. \A s \in Stations : Queues'[s] = AtStation(s)'
  BY DEF Queues, Stations
<1>3. Spreads(Queues, Waiting)
  BY DEF RRInv
<1>4. Spreads(Queues', Waiting)
  <2> DEFINE f == Queues
             g == Queues'
  <2>1. /\ Spreads(f, Waiting) /\ f[a] # <<>> /\ g[a] = Tail(f[a]) /\ g[b] = Append(f[b], Head(f[a]))
        /\ \A s \in Stations \ {a, b} : g[s] = f[s]
    BY <1>1, <1>2, <1>3
  <2> HIDE DEF f, g
  <2>2. Spreads(g, Waiting)
    BY <2>1, SpreadsMoves
  <2> QED BY <2>2 DEF g
<1>5. Stations' = Stations
  BY DEF Stations
<1> QED BY <1>4, <1>5 DEF Spreads

\* A step that moves no request keeps the invariant if its polls found what is there.
LEMMA QueuesSame ==
    ASSUME RRInv, UNCHANGED <<frontend, answers, backend, replying, replies, request_nbr, asking>>
    PROVE  RRInv' <=> (/\ revents' \subseteq {"frontend", "backend"}
                       /\ "frontend" \in revents' => frontend # <<>>
                       /\ "backend" \in revents' => answers # <<>>
                       /\ setup' = "hello_server" => revents' = {})
<1>1. \A s \in Stations : AtStation(s)' = AtStation(s)
  BY SameStation
<1>2. Queues' = Queues /\ Waiting' = Waiting
  BY <1>1 DEF Queues, Waiting, Stations
<1>3. /\ Spreads(Queues, Waiting) /\ RRTyped
      /\ \A d \in Asker : \A m : In(replies[d], m) => m[1] = d
  BY DEF RRInv
<1>4. Spreads(Queues, Waiting)'
  BY <1>2, <1>3 DEF Spreads, Stations
<1>5. RRTyped'
  BY <1>3 DEF RRTyped
<1> QED BY <1>3, <1>4, <1>5 DEF RRInv

\* A client sends its next request.
LEMMA RRHello ==
    ASSUME RRInv, NEW c \in Asker, Hello(c)
    PROVE  RRInv'
<1>0. /\ RRTyped /\ Spreads(Queues, Waiting)
      /\ \A d \in Asker : \A m : In(replies[d], m) => m[1] = d
      /\ revents \subseteq {"frontend", "backend"}
      /\ ("backend" \in revents => answers # <<>>) /\ (setup = "hello_server" => revents = {})
  BY DEF RRInv
<1> DEFINE m == <<c, request_nbr[c]>>
<1>1. /\ ~asking[c] /\ asking' = [asking EXCEPT ![c] = TRUE] /\ frontend' = Append(frontend, m)
      /\ UNCHANGED <<setup, request_nbr, backend, replying, answers, replies, revents>>
  BY DEF Hello
<1>2. m \in Hail /\ m \notin Waiting /\ Waiting' = Waiting \cup {m}
  <2>1. m \in Hail
    BY <1>0 DEF RRTyped, Hail
  <2>2. m \notin Waiting
    BY <1>1 DEF Waiting
  <2>3. asking'[c] /\ \A d \in Asker \ {c} : asking'[d] = asking[d]
    BY <1>0, <1>1 DEF RRTyped
  <2>4. {d \in Asker : asking'[d]} = {d \in Asker : asking[d]} \cup {c}
    BY <2>3
  <2>5. Waiting' = {<<d, request_nbr[d]>> : d \in {d \in Asker : asking'[d]}}
    BY <1>1 DEF Waiting
  <2>6. Waiting' = Waiting \cup {m}
    BY <2>4, <2>5 DEF Waiting
  <2> QED BY <2>1, <2>2, <2>6
<1>3. RRTyped'
  BY <1>0, <1>1 DEF RRTyped
<1>4. Spreads(Queues, Waiting)'
  <2>1. /\ AtStation(<<"frontend">>)' = Append(AtStation(<<"frontend">>), m)
        /\ \A s \in Stations \ {<<"frontend">>} : AtStation(s)' = AtStation(s)
    <3>1. AtStation(<<"frontend">>)' = Append(AtStation(<<"frontend">>), m)
      BY <1>1 DEF AtStation
    <3>2. ASSUME NEW s \in Stations \ {<<"frontend">>} PROVE AtStation(s)' = AtStation(s)
      <4>1. s # <<"frontend">> /\ UNCHANGED <<backend, replying, answers, replies>>
        BY <1>1
      <4> QED BY <4>1, SameStation
    <3> QED BY <3>1, <3>2
  <2> DEFINE f == Queues
             g == Queues'
             b == <<"frontend">>
  <2>2. /\ Spreads(f, Waiting) /\ b \in Stations /\ g[b] = Append(f[b], m)
        /\ \A s \in Stations \ {b} : g[s] = f[s]
    BY <1>0, <2>1, StationsAre DEF StationsFact, Queues, Stations
  <2> HIDE DEF f, g, b, m
  <2>3. Spreads(g, Waiting \cup {m})
    BY <1>2, <2>2, SpreadsAdds
  <2>4. Spreads(g, Waiting')
    BY <1>2, <2>3
  <2> QED BY <2>4 DEF g, Spreads, Stations
<1>5. frontend' # <<>>
  <2>1. frontend \in Seq(Hail)
    BY <1>0, StationsAre DEF StationsFact, Spreads, Queues
  <2> QED BY <1>1, <1>2, <2>1, AppendProperties
<1> QED BY <1>0, <1>1, <1>3, <1>4, <1>5 DEF RRInv

\* The client reads its reply, and waits no more.
LEMMA RRWorld ==
    ASSUME RRInv, NEW c \in Asker, World(c)
    PROVE  RRInv'
<1>0. /\ RRTyped /\ Spreads(Queues, Waiting)
      /\ \A d \in Asker : \A m : In(replies[d], m) => m[1] = d
      /\ revents \subseteq {"frontend", "backend"}
      /\ ("frontend" \in revents => frontend # <<>>)
      /\ ("backend" \in revents => answers # <<>>) /\ (setup = "hello_server" => revents = {})
  BY DEF RRInv
<1> DEFINE m == <<c, request_nbr[c]>>
           b == <<"replies", c>>
<1>1. /\ replies[c] # <<>> /\ replies' = [replies EXCEPT ![c] = Tail(replies[c])]
      /\ asking' = [asking EXCEPT ![c] = FALSE]
      /\ request_nbr' = [request_nbr EXCEPT ![c] = request_nbr[c] + 1]
      /\ UNCHANGED <<setup, frontend, backend, replying, answers, revents>>
  BY DEF World
<1>2. /\ replies'[c] = Tail(replies[c]) /\ ~asking'[c]
      /\ \A d \in Asker \ {c} : replies'[d] = replies[d] /\ asking'[d] = asking[d] /\ request_nbr'[d] = request_nbr[d]
  BY <1>0, <1>1 DEF RRTyped
<1>3. b \in Stations /\ AtStation(b) = replies[c] /\ AtStation(b)' = replies'[c]
  BY StationsAre, StationsAreThen DEF StationsFact
<1>4. /\ replies[c] \in Seq(Hail) /\ Once(replies[c])
      /\ \A n : In(replies[c], n) => n \in Waiting
  <2>1. Queues[b] = replies[c]
    BY <1>3 DEF Queues
  <2> HIDE DEF b
  <2> QED BY <1>0, <1>3, <2>1 DEF Spreads
<1>5. /\ In(replies[c], Head(replies[c]))
      /\ \A n : In(Tail(replies[c]), n) => In(replies[c], n)
  BY <1>1, <1>4, TailIn
<1>6. Head(replies[c]) = m
  BY <1>0, <1>4, <1>5 DEF Waiting
<1>7. RRTyped'
  BY <1>0, <1>1 DEF RRTyped
<1>8. Waiting' = Waiting \ {m}
  <2>1. {d \in Asker : asking'[d]} = {d \in Asker : asking[d]} \ {c}
    BY <1>2
  <2>2. Waiting' = {<<d, request_nbr'[d]>> : d \in {d \in Asker : asking'[d]}}
    BY DEF Waiting
  <2>3. Waiting' = {<<d, request_nbr[d]>> : d \in {d \in Asker : asking'[d]}}
    BY <1>2, <2>2
  <2> QED BY <2>1, <2>3 DEF Waiting
<1>9. Spreads(Queues, Waiting)'
  <2>1. ASSUME NEW s \in Stations \ {b} PROVE AtStation(s)' = AtStation(s)
    <3>1. /\ UNCHANGED <<frontend, backend, replying, answers>>
          /\ \A d \in Asker : s = <<"replies", d>> => replies'[d] = replies[d]
      BY <1>1, <1>2
    <3> QED BY <3>1, SameStation
  <2> DEFINE f == Queues
             g == Queues'
  <2>2. /\ Spreads(f, Waiting) /\ b \in Stations /\ f[b] # <<>> /\ Head(f[b]) = m /\ g[b] = Tail(f[b])
        /\ \A s \in Stations \ {b} : g[s] = f[s]
    <3> HIDE DEF b, m
    <3> QED BY <1>0, <1>1, <1>2, <1>3, <1>6, <2>1 DEF Queues, Stations
  <2> HIDE DEF f, g, b, m
  <2>3. Spreads(g, Waiting \ {m})
    BY <2>2, SpreadsDrops
  <2>4. Spreads(g, Waiting')
    BY <1>8, <2>3
  <2> QED BY <2>4 DEF g, Spreads, Stations
<1>10. \A d \in Asker : \A n : In(replies'[d], n) => n[1] = d
  BY <1>0, <1>2, <1>5
<1> QED BY <1>0, <1>1, <1>7, <1>9, <1>10 DEF RRInv

\* A request goes to a worker.
LEMMA RRForward ==
    ASSUME RRInv, Forward
    PROVE  RRInv'
<1>0. /\ RRTyped /\ Spreads(Queues, Waiting)
      /\ \A d \in Asker : \A m : In(replies[d], m) => m[1] = d
      /\ revents \subseteq {"frontend", "backend"}
      /\ ("frontend" \in revents => frontend # <<>>)
      /\ ("backend" \in revents => answers # <<>>) /\ (setup = "hello_server" => revents = {})
  BY DEF RRInv
<1>1. PICK w \in Responder : backend' = [backend EXCEPT ![w] = Append(backend[w], Head(frontend))]
  BY DEF Forward
<1>2. /\ frontend # <<>> /\ frontend' = Tail(frontend) /\ revents' = revents \ {"frontend"}
      /\ UNCHANGED <<setup, request_nbr, asking, replying, answers, replies>>
  BY <1>0 DEF Forward
<1>3. /\ DOMAIN backend' = Responder /\ backend'[w] = Append(backend[w], Head(frontend))
      /\ \A v \in Responder \ {w} : backend'[v] = backend[v]
  BY <1>0, <1>1 DEF RRTyped
<1> DEFINE a == <<"frontend">>
           b == <<"backend", w>>
<1>4. /\ a \in Stations /\ b \in Stations /\ a # b
      /\ AtStation(a) = frontend /\ AtStation(a)' = frontend'
      /\ AtStation(b) = backend[w] /\ AtStation(b)' = backend'[w]
  BY StationsAre, StationsAreThen DEF StationsFact
<1>5. ASSUME NEW s \in Stations \ {a, b} PROVE AtStation(s)' = AtStation(s)
  <2>1. /\ s # <<"frontend">> /\ UNCHANGED <<replying, answers, replies>>
        /\ \A v \in Responder : s = <<"backend", v>> => backend'[v] = backend[v]
    BY <1>2, <1>3
  <2> QED BY <2>1, SameStation
<1>6. RRTyped' /\ Waiting' = Waiting
  BY <1>0, <1>2, <1>3 DEF RRTyped, Waiting
<1>7. Spreads(Queues, Waiting)'
  <2> HIDE DEF a, b
  <2> QED BY <1>2, <1>3, <1>4, <1>5, <1>6, QueuesMove
<1> QED BY <1>0, <1>2, <1>6, <1>7 DEF RRInv

\* A reply goes to the socket of its client.
LEMMA RRBack ==
    ASSUME RRInv, Back
    PROVE  RRInv'
<1>0. /\ RRTyped /\ Spreads(Queues, Waiting)
      /\ \A d \in Asker : \A m : In(replies[d], m) => m[1] = d
      /\ ("backend" \in revents => answers # <<>>)
  BY DEF RRInv
<1> DEFINE a == <<"answers">>
<1>1. /\ answers # <<>> /\ answers' = Tail(answers) /\ revents' = {}
      /\ replies' = [replies EXCEPT ![Head(answers)[1]] = Append(@, Head(answers))]
      /\ UNCHANGED <<setup, request_nbr, asking, frontend, backend, replying>>
  BY <1>0 DEF Back
<1>2. a \in Stations /\ AtStation(a) = answers /\ AtStation(a)' = answers'
  BY StationsAre, StationsAreThen DEF StationsFact
<1>3. answers \in Seq(Hail)
  <2>1. Queues[a] = answers
    BY <1>2 DEF Queues
  <2> HIDE DEF a
  <2> QED BY <1>0, <1>2, <2>1 DEF Spreads
<1>4. Head(answers) \in Hail
  BY <1>1, <1>3, HeadTailProperties
<1> PICK c \in Asker : c = Head(answers)[1]
  BY <1>4 DEF Hail
<1> DEFINE b == <<"replies", c>>
<1>5. /\ DOMAIN replies' = Asker /\ replies'[c] = Append(replies[c], Head(answers))
      /\ \A d \in Asker \ {c} : replies'[d] = replies[d]
  BY <1>0, <1>1, <1>4 DEF RRTyped
<1>6. /\ b \in Stations /\ a # b /\ AtStation(b) = replies[c] /\ AtStation(b)' = replies'[c]
  BY StationsAre, StationsAreThen DEF StationsFact
<1>7. ASSUME NEW s \in Stations \ {a, b} PROVE AtStation(s)' = AtStation(s)
  <2>1. /\ s # <<"answers">> /\ UNCHANGED <<frontend, backend, replying>>
        /\ \A d \in Asker : s = <<"replies", d>> => replies'[d] = replies[d]
    BY <1>1, <1>5
  <2> QED BY <2>1, SameStation
<1>8. RRTyped' /\ Waiting' = Waiting
  BY <1>0, <1>1, <1>5 DEF RRTyped, Waiting
<1>9. Spreads(Queues, Waiting)'
  <2> HIDE DEF a, b
  <2> QED BY <1>1, <1>2, <1>5, <1>6, <1>7, <1>8, QueuesMove
<1>10. ASSUME NEW d \in Asker, NEW m, In(replies'[d], m) PROVE m[1] = d
  <2>1. CASE d # c
    BY <1>0, <1>5, <1>10, <2>1
  <2>2. CASE d = c
    <3>1. replies[c] \in Seq(Hail)
      <4>1. Queues[b] = replies[c]
        BY <1>6 DEF Queues
      <4> HIDE DEF a, b
      <4> QED BY <1>0, <1>6, <4>1 DEF Spreads
    <3>2. In(replies[c], m) \/ m = Head(answers)
      <4>1. In(Append(replies[c], Head(answers)), m)
        BY <1>5, <1>10, <2>2
      <4>2. \A n : In(Append(replies[c], Head(answers)), n) <=> In(replies[c], n) \/ n = Head(answers)
        BY <1>4, <3>1, AppendIn
      <4> QED BY <4>1, <4>2
    <3> QED BY <1>0, <1>4, <2>2, <3>2
  <2> QED BY <2>1, <2>2
<1> QED BY <1>1, <1>8, <1>9, <1>10 DEF RRInv

\* The worker of a broker takes a request into its hands, or sends the reply.
LEMMA RRRespond ==
    ASSUME RRInv, NEW w \in Responder, Respond(w)
    PROVE  RRInv'
<1>0. /\ RRTyped /\ Spreads(Queues, Waiting)
      /\ \A d \in Asker : \A m : In(replies[d], m) => m[1] = d
      /\ revents \subseteq {"frontend", "backend"}
      /\ ("frontend" \in revents => frontend # <<>>)
      /\ ("backend" \in revents => answers # <<>>) /\ (setup = "hello_server" => revents = {})
  BY DEF RRInv
<1>1. UNCHANGED <<setup, request_nbr, asking, frontend, replies, revents>>
  BY DEF Respond
<1> DEFINE a == <<"backend", w>>
           b == <<"replying", w>>
           z == <<"answers">>
<1>2. /\ a \in Stations /\ AtStation(a) = backend[w] /\ AtStation(a)' = backend'[w]
      /\ b \in Stations /\ z \in Stations /\ AtStation(z) = answers /\ AtStation(z)' = answers'
      /\ a # b /\ b # z
  BY StationsAre, StationsAreThen DEF StationsFact
<1>3. /\ AtStation(b) = IF replying[w] = <<>> THEN <<>> ELSE <<replying[w]>>
      /\ AtStation(b)' = IF replying'[w] = <<>> THEN <<>> ELSE <<replying'[w]>>
  BY StationsAre, StationsAreThen DEF StationsFact
<1>4. \A s \in Stations : AtStation(s) \in Seq(Hail)
  BY <1>0 DEF Spreads, Queues
<1>5. \A m \in Hail : m # <<>>
  BY DEF Hail
<1>6. CASE /\ replying[w] = <<>> /\ backend[w] # <<>>
           /\ replying' = [replying EXCEPT ![w] = Head(backend[w])]
           /\ backend' = [backend EXCEPT ![w] = Tail(backend[w])]
           /\ UNCHANGED answers
  <2>1. /\ DOMAIN backend' = Responder /\ DOMAIN replying' = Responder
        /\ backend'[w] = Tail(backend[w]) /\ replying'[w] = Head(backend[w])
        /\ \A v \in Responder \ {w} : backend'[v] = backend[v] /\ replying'[v] = replying[v]
    BY <1>0, <1>6 DEF RRTyped
  <2>2. Head(backend[w]) # <<>>
    <3>1. backend[w] \in Seq(Hail)
      BY <1>2, <1>4
    <3>2. Head(backend[w]) \in Hail
      BY <1>6, <3>1, HeadTailProperties
    <3> QED BY <1>5, <3>2
  <2>3. AtStation(b) = <<>> /\ AtStation(b)' = <<Head(backend[w])>>
    BY <1>3, <1>6, <2>1, <2>2
  <2>4. AtStation(b)' = Append(AtStation(b), Head(AtStation(a)))
    <3>1. \A x : Append(<<>>, x) = <<x>>
      OBVIOUS
    <3> HIDE DEF a, b
    <3> QED BY <1>2, <2>3, <3>1
  <2>5. ASSUME NEW s \in Stations \ {a, b} PROVE AtStation(s)' = AtStation(s)
    <3>1. /\ UNCHANGED <<frontend, answers, replies>>
          /\ \A v \in Responder : /\ s = <<"backend", v>> => backend'[v] = backend[v]
                                  /\ s = <<"replying", v>> => replying'[v] = replying[v]
      BY <1>1, <1>6, <2>1
    <3> QED BY <3>1, SameStation
  <2>6. RRTyped' /\ Waiting' = Waiting
    BY <1>0, <1>1, <2>1 DEF RRTyped, Waiting
  <2>7. Spreads(Queues, Waiting)'
    <3> HIDE DEF a, b
    <3> QED BY <1>2, <1>6, <2>1, <2>4, <2>5, <2>6, QueuesMove
  <2> QED BY <1>0, <1>1, <1>6, <2>6, <2>7 DEF RRInv
<1>7. CASE /\ replying[w] # <<>>
           /\ answers' = Append(answers, replying[w])
           /\ replying' = [replying EXCEPT ![w] = <<>>]
           /\ UNCHANGED backend
  <2>1. /\ DOMAIN replying' = Responder /\ replying'[w] = <<>>
        /\ \A v \in Responder \ {w} : replying'[v] = replying[v]
    BY <1>0, <1>7 DEF RRTyped
  <2>2. AtStation(b) = <<replying[w]>> /\ AtStation(b)' = <<>>
    BY <1>3, <1>7, <2>1
  <2>3. AtStation(b) # <<>> /\ AtStation(b)' = Tail(AtStation(b)) /\ Head(AtStation(b)) = replying[w]
    <3>1. \A x : Tail(<<x>>) = <<>> /\ Head(<<x>>) = x /\ <<x>> # <<>>
      OBVIOUS
    <3> HIDE DEF b
    <3> QED BY <2>2, <3>1
  <2>4. ASSUME NEW s \in Stations \ {b, z} PROVE AtStation(s)' = AtStation(s)
    <3>1. /\ UNCHANGED <<frontend, backend, replies>> /\ s # <<"answers">>
          /\ \A v \in Responder : s = <<"replying", v>> => replying'[v] = replying[v]
      BY <1>1, <1>7, <2>1
    <3> QED BY <3>1, SameStation
  <2>5. RRTyped' /\ Waiting' = Waiting
    BY <1>0, <1>1, <1>7, <2>1 DEF RRTyped, Waiting
  <2>6. Spreads(Queues, Waiting)'
    <3> HIDE DEF b, z
    <3> QED BY <1>2, <1>7, <2>3, <2>4, <2>5, QueuesMove
  <2>7. answers' # <<>>
    <3>1. answers \in Seq(Hail)
      BY <1>2, <1>4
    <3>2. \A x : Append(answers, x) # <<>>
      BY <3>1, JoinedAppend
    <3> QED BY <1>7, <3>2
  <2> QED BY <1>0, <1>1, <2>5, <2>6, <2>7 DEF RRInv
<1> QED BY <1>6, <1>7 DEF Respond

\* The server of hello_server does the same without a broker.
LEMMA RRServe ==
    ASSUME RRInv, NEW w \in Responder, Serve(w)
    PROVE  RRInv'
<1>0. /\ RRTyped /\ Spreads(Queues, Waiting)
      /\ \A d \in Asker : \A m : In(replies[d], m) => m[1] = d
      /\ revents = {}
  BY DEF RRInv, Serve
<1>1. UNCHANGED <<setup, request_nbr, asking, backend, answers, revents>>
  BY DEF Serve
<1> DEFINE a == <<"frontend">>
           b == <<"replying", w>>
<1>2. /\ a \in Stations /\ AtStation(a) = frontend /\ AtStation(a)' = frontend'
      /\ b \in Stations /\ a # b
  BY StationsAre, StationsAreThen DEF StationsFact
<1>3. /\ AtStation(b) = IF replying[w] = <<>> THEN <<>> ELSE <<replying[w]>>
      /\ AtStation(b)' = IF replying'[w] = <<>> THEN <<>> ELSE <<replying'[w]>>
  BY StationsAre, StationsAreThen DEF StationsFact
<1>4. \A s \in Stations : AtStation(s) \in Seq(Hail)
  BY <1>0 DEF Spreads, Queues
<1>5. \A m \in Hail : m # <<>>
  BY DEF Hail
<1>6. CASE /\ \A v \in Responder : replying[v] = <<>>
           /\ frontend # <<>>
           /\ replying' = [replying EXCEPT ![w] = Head(frontend)]
           /\ frontend' = Tail(frontend)
           /\ UNCHANGED replies
  <2>1. /\ DOMAIN replying' = Responder /\ replying'[w] = Head(frontend)
        /\ \A v \in Responder \ {w} : replying'[v] = replying[v]
    BY <1>0, <1>6 DEF RRTyped
  <2>2. Head(frontend) # <<>>
    <3>1. frontend \in Seq(Hail)
      BY <1>2, <1>4
    <3>2. Head(frontend) \in Hail
      BY <1>6, <3>1, HeadTailProperties
    <3> QED BY <1>5, <3>2
  <2>3. AtStation(b) = <<>> /\ AtStation(b)' = <<Head(frontend)>>
    BY <1>3, <1>6, <2>1, <2>2
  <2>4. AtStation(b)' = Append(AtStation(b), Head(AtStation(a)))
    <3>1. \A x : Append(<<>>, x) = <<x>>
      OBVIOUS
    <3> HIDE DEF a, b
    <3> QED BY <1>2, <2>3, <3>1
  <2>5. ASSUME NEW s \in Stations \ {a, b} PROVE AtStation(s)' = AtStation(s)
    <3>1. /\ UNCHANGED <<backend, answers, replies>> /\ s # <<"frontend">>
          /\ \A v \in Responder : s = <<"replying", v>> => replying'[v] = replying[v]
      BY <1>1, <1>6, <2>1
    <3> QED BY <3>1, SameStation
  <2>6. RRTyped' /\ Waiting' = Waiting
    BY <1>0, <1>1, <1>6, <2>1 DEF RRTyped, Waiting
  <2>7. Spreads(Queues, Waiting)'
    <3> HIDE DEF a, b
    <3> QED BY <1>2, <1>6, <2>4, <2>5, <2>6, QueuesMove
  <2> QED BY <1>0, <1>1, <1>6, <2>6, <2>7 DEF RRInv
<1>7. CASE /\ replying[w] # <<>>
           /\ replies' = [replies EXCEPT ![replying[w][1]] = Append(@, replying[w])]
           /\ replying' = [replying EXCEPT ![w] = <<>>]
           /\ UNCHANGED frontend
  <2>1. /\ DOMAIN replying' = Responder /\ replying'[w] = <<>>
        /\ \A v \in Responder \ {w} : replying'[v] = replying[v]
    BY <1>0, <1>7 DEF RRTyped
  <2>2. AtStation(b) = <<replying[w]>> /\ AtStation(b)' = <<>>
    BY <1>3, <1>7, <2>1
  <2>3. AtStation(b) # <<>> /\ AtStation(b)' = Tail(AtStation(b)) /\ Head(AtStation(b)) = replying[w]
    <3>1. \A x : Tail(<<x>>) = <<>> /\ Head(<<x>>) = x /\ <<x>> # <<>>
      OBVIOUS
    <3> HIDE DEF b
    <3> QED BY <2>2, <3>1
  <2>4. replying[w] \in Hail
    <3> HIDE DEF b
    <3>1. AtStation(b) \in Seq(Hail)
      BY <1>2, <1>4
    <3> QED BY <2>3, <3>1, HeadTailProperties
  <2> PICK c \in Asker : c = replying[w][1]
    BY <2>4 DEF Hail
  <2> DEFINE z == <<"replies", c>>
  <2>5. /\ DOMAIN replies' = Asker /\ replies'[c] = Append(replies[c], replying[w])
        /\ \A d \in Asker \ {c} : replies'[d] = replies[d]
    BY <1>0, <1>7 DEF RRTyped
  <2>6. z \in Stations /\ b # z /\ AtStation(z) = replies[c] /\ AtStation(z)' = replies'[c]
    BY StationsAre, StationsAreThen DEF StationsFact
  <2>7. ASSUME NEW s \in Stations \ {b, z} PROVE AtStation(s)' = AtStation(s)
    <3>1. /\ UNCHANGED <<frontend, backend, answers>>
          /\ \A v \in Responder : s = <<"replying", v>> => replying'[v] = replying[v]
          /\ \A d \in Asker : s = <<"replies", d>> => replies'[d] = replies[d]
      BY <1>1, <1>7, <2>1, <2>5
    <3> QED BY <3>1, SameStation
  <2>8. RRTyped' /\ Waiting' = Waiting
    BY <1>0, <1>1, <1>7, <2>1, <2>5 DEF RRTyped, Waiting
  <2>9. Spreads(Queues, Waiting)'
    <3> HIDE DEF b, z
    <3> QED BY <1>2, <1>7, <2>3, <2>5, <2>6, <2>7, <2>8, QueuesMove, SMTT(60)
  <2>10. ASSUME NEW d \in Asker, NEW m, In(replies'[d], m) PROVE m[1] = d
    <3>1. CASE d # c
      BY <1>0, <2>5, <2>10, <3>1
    <3>2. CASE d = c
      <4>1. replies[c] \in Seq(Hail)
        BY <1>4, <2>6
      <4>2. In(Append(replies[c], replying[w]), m)
        BY <2>5, <2>10, <3>2
      <4>3. \A n : In(Append(replies[c], replying[w]), n) <=> In(replies[c], n) \/ n = replying[w]
        BY <2>4, <4>1, AppendIn
      <4> QED BY <1>0, <3>2, <4>2, <4>3
    <3> QED BY <3>1, <3>2
  <2> QED BY <1>0, <1>1, <2>8, <2>9, <2>10 DEF RRInv
<1> QED BY <1>6, <1>7 DEF Serve

\* Every step of the clients, either broker and the workers keeps the invariant.
LEMMA RRStep == RRInv /\ [RRNext]_rrVars => RRInv'
<1> SUFFICES ASSUME RRInv, [RRNext]_rrVars PROVE RRInv'
  OBVIOUS
<1>1. CASE PollBoth
  <2>1. /\ setup # "hello_server"
        /\ revents' = {s \in {"frontend", "backend"} : (s = "frontend" /\ frontend # <<>>)
                                                       \/ (s = "backend" /\ answers # <<>>)}
        /\ UNCHANGED <<setup, request_nbr, asking, frontend, backend, replying, answers, replies>>
    BY <1>1 DEF PollBoth
  <2> QED BY <2>1, QueuesSame
<1>2. CASE UNCHANGED rrVars
  <2>1. UNCHANGED <<setup, request_nbr, asking, frontend, backend, replying, answers, replies, revents>>
    BY <1>2 DEF rrVars
  <2> QED BY <2>1, QueuesSame DEF RRInv
<1> QED BY <1>1, <1>2, RRHello, RRWorld, RRForward, RRBack, RRRespond, RRServe DEF RRNext

\* The request that a client waits for is at one stop, and no other is at any.
LEMMA RRMeans == RRInv => OneReply
<1> SUFFICES ASSUME RRInv PROVE OneReply
  OBVIOUS
<1>1. /\ \A s \in Stations : AtStation(s) \in Seq(Hail) /\ Once(AtStation(s))
      /\ \A s, t \in Stations : s # t => \A m : ~(In(AtStation(s), m) /\ In(AtStation(t), m))
      /\ \A m : m \in Waiting <=> \E s \in Stations : In(AtStation(s), m)
  <2>1. Spreads(Queues, Waiting) /\ \A s \in Stations : Queues[s] = AtStation(s)
    BY DEF RRInv, Queues
  <2>2. /\ \A s \in Stations : Queues[s] \in Seq(Hail) /\ Once(Queues[s])
        /\ \A s, t \in Stations : s # t => \A m : ~(In(Queues[s], m) /\ In(Queues[t], m))
        /\ \A m : m \in Waiting <=> \E s \in Stations : In(Queues[s], m)
    BY <2>1 DEF Spreads
  <2>3. \A s \in Stations : AtStation(s) \in Seq(Hail) /\ Once(AtStation(s))
    BY <2>1, <2>2
  <2>4. ASSUME NEW s \in Stations, NEW t \in Stations, s # t, NEW m
        PROVE  ~(In(AtStation(s), m) /\ In(AtStation(t), m))
    <3>1. Queues[s] = AtStation(s) /\ Queues[t] = AtStation(t)
      BY <2>1
    <3>2. ~(In(Queues[s], m) /\ In(Queues[t], m))
      BY <2>2, <2>4
    <3> QED BY <3>1, <3>2
  <2>5. \A m : (\E s \in Stations : In(Queues[s], m)) <=> \E s \in Stations : In(AtStation(s), m)
    BY <2>1
  <2> QED BY <2>2, <2>3, <2>4, <2>5
<1>2. \A p : p \in OnTheWay <=> \E s \in Stations : \E i \in DOMAIN AtStation(s) : p = <<s, i>>
  BY DEF OnTheWay
<1>3. \A s, i : MessageAt(<<s, i>>) = AtStation(s)[i]
  BY DEF MessageAt
<1>4. {MessageAt(p) : p \in OnTheWay} = Waiting
  <2>1. ASSUME NEW p \in OnTheWay PROVE MessageAt(p) \in Waiting
    <3>1. PICK s \in Stations : \E i \in DOMAIN AtStation(s) : p = <<s, i>>
      BY <1>2
    <3>2. PICK i \in DOMAIN AtStation(s) : p = <<s, i>>
      BY <3>1
    <3>3. In(AtStation(s), MessageAt(p))
      BY <1>3, <3>2 DEF In
    <3> QED BY <1>1, <3>3
  <2>2. ASSUME NEW m \in Waiting PROVE \E p \in OnTheWay : MessageAt(p) = m
    <3>1. PICK s \in Stations : In(AtStation(s), m)
      BY <1>1
    <3>2. PICK i \in DOMAIN AtStation(s) : AtStation(s)[i] = m
      BY <3>1 DEF In
    <3>3. <<s, i>> \in OnTheWay /\ MessageAt(<<s, i>>) = m
      BY <1>2, <1>3, <3>2
    <3> QED BY <3>3
  <2> QED BY <2>1, <2>2
<1>5. ASSUME NEW p \in OnTheWay, NEW q \in OnTheWay, MessageAt(p) = MessageAt(q) PROVE p = q
  <2>1. PICK s \in Stations : \E i \in DOMAIN AtStation(s) : p = <<s, i>>
    BY <1>2
  <2>2. PICK i \in DOMAIN AtStation(s) : p = <<s, i>>
    BY <2>1
  <2>3. PICK t \in Stations : \E j \in DOMAIN AtStation(t) : q = <<t, j>>
    BY <1>2
  <2>4. PICK j \in DOMAIN AtStation(t) : q = <<t, j>>
    BY <2>3
  <2>5. AtStation(s)[i] = AtStation(t)[j]
    BY <1>3, <1>5, <2>2, <2>4
  <2>6. s = t
    BY <1>1, <2>5 DEF In
  <2>7. i = j
    BY <1>1, <2>5, <2>6 DEF Once
  <2> QED BY <2>2, <2>4, <2>6, <2>7
<1>6. ASSUME NEW c \in Asker, NEW i \in DOMAIN replies[c] PROVE replies[c][i] = <<c, request_nbr[c]>>
  <2>1. In(replies[c], replies[c][i])
    BY DEF In
  <2>2. <<"replies", c>> \in Stations /\ AtStation(<<"replies", c>>) = replies[c]
    BY StationsAre DEF StationsFact
  <2>3. replies[c][i] \in Waiting
    BY <1>1, <2>1, <2>2
  <2>4. replies[c][i][1] = c
    BY <2>1 DEF RRInv
  <2> QED BY <2>3, <2>4 DEF Waiting
<1> QED BY <1>4, <1>5, <1>6 DEF OneReply, Waiting, RRInv

\* Every client that waits has its request in one place, and reads the reply to it
\* (rrbroker.c, hwserver.c).
THEOREM EachItsReply == RRSpec => []OneReply
BY RRBegins, RRStep, RRMeans, PTL DEF RRSpec

----------------------------------------------------------------------------
(* The espresso proxy copies all that passes it.                           *)

EspressoSpec == EspressoInit /\ [][EspressoNext]_espressoVars

Drawing == Letter \X Nat

EspressoTyped ==
    /\ subscriber \in {"starts", "reads", "left"}
    /\ draws \in Nat
    /\ drawn \in Seq(Drawing) /\ served \in Seq(Drawing) /\ drunk \in Seq(Drawing)
    /\ heardAll \in Seq(({"wish"} \X {"A", "B"}) \cup Drawing)
    /\ \A i \in DOMAIN drawn : drawn[i][1] \in {"A", "B"}

Wishing   == [adds : BOOLEAN, letter : {"A", "B"}]
BeginOf(l) == Wish(TRUE, l)
EndOf(l)   == Wish(FALSE, l)

\* All that the subscriber asks for, and what is wanted after the first n of it.
Asked == <<BeginOf("A"), BeginOf("B"), EndOf("A"), EndOf("B")>>
WantedAfter(n) == {l \in {"A", "B"} : (l = "A" /\ n \in {1, 2}) \/ (l = "B" /\ n \in {2, 3})}

IssuedWishes == IF subscriber = "starts" THEN 0 ELSE IF subscriber = "reads" THEN 2 ELSE 4

\* The queue has what was asked for after the first k, up to n.
Between(wishList, k, n) ==
    /\ wishList \in Seq(Wishing)
    /\ Len(wishList) = n - k /\ \A i \in 1 .. n - k : wishList[i] = Asked[k + i]

\* The proxy knows the first x of what was asked for, and the publisher the first p.
Knows(x, p) ==
    /\ x \in 0 .. IssuedWishes /\ p \in 0 .. x
    /\ Between(wishes, x, IssuedWishes) /\ Between(relayed, p, x)
    /\ wanted = WantedAfter(x) /\ published = WantedAfter(p)
    /\ (x >= 1 => In(heardAll, <<"wish", "A">>)) /\ (x >= 2 => In(heardAll, <<"wish", "B">>))
    /\ \A i \in DOMAIN drawn : (drawn[i][1] = "A" => x >= 1) /\ (drawn[i][1] = "B" => x >= 2)

Cup == drunk \o served
Tasted  == {Cup[i] : i \in DOMAIN Cup}

\* What is on its way to the proxy was drawn after all that passed it.
Newer ==
    /\ InTurn(drawn) /\ \A i \in DOMAIN drawn : drawn[i][2] < draws
    /\ \A m \in Overheard : m[2] < draws /\ \A i \in DOMAIN drawn : m[2] < drawn[i][2]

Relayed ==
    /\ InTurn(heardAll) /\ InTurn(Cup)
    /\ Tasted \subseteq Overheard
    /\ \A m \in Tasted : {o \in Overheard : o[2] < m[2]} \subseteq Tasted
    /\ subscriber # "left" => Tasted = Overheard
    /\ \A i \in DOMAIN heardAll :
         heardAll[i][1] # "wish" => \E j \in 1 .. i - 1 : heardAll[j] = <<"wish", heardAll[i][1]>>

EspressoInv ==
    /\ EspressoTyped
    /\ \E x, p \in 0 .. 4 : Knows(x, p)
    /\ Newer /\ Relayed

\* Nothing is drawn and nobody wishes anything.
LEMMA EspressoBegins == EspressoInit => EspressoInv
<1> SUFFICES ASSUME EspressoInit PROVE EspressoInv
  OBVIOUS
<1>1. /\ subscriber = "starts" /\ wanted = {} /\ published = {} /\ draws = 0
      /\ wishes = <<>> /\ relayed = <<>> /\ drawn = <<>> /\ served = <<>> /\ drunk = <<>> /\ heardAll = <<>>
  BY DEF EspressoInit
<1>2. EspressoTyped
  BY <1>1 DEF EspressoTyped
<1>3. Overheard = {}
  BY <1>1 DEF Overheard
<1>4. Cup = <<>>
  BY <1>1, ConcatEmptySeq DEF Cup
<1>5. Tasted = {}
  BY <1>4 DEF Tasted
<1>6. Newer
  BY <1>1, <1>3 DEF Newer, InTurn
<1>7. Relayed
  BY <1>1, <1>3, <1>4, <1>5 DEF Relayed, InTurn
<1>8. Knows(0, 0)
  <2>1. WantedAfter(0) = {}
    BY DEF WantedAfter
  <2>2. IssuedWishes = 0
    BY <1>1 DEF IssuedWishes
  <2>3. Between(wishes, 0, 0) /\ Between(relayed, 0, 0)
    BY <1>1 DEF Between
  <2> QED BY <1>1, <2>1, <2>2, <2>3 DEF Knows
<1> QED BY <1>2, <1>6, <1>7, <1>8 DEF EspressoInv

\* What the wishes do, one by one.
LEMMA WishesAre ==
    /\ \A set, l : Wished(set, BeginOf(l)) = set \cup {l} /\ Wished(set, EndOf(l)) = set \ {l}
    /\ \A l : BeginOf(l).letter = l /\ EndOf(l).letter = l
    /\ \A l \in {"A", "B"} : BeginOf(l) \in Wishing /\ EndOf(l) \in Wishing
<1>1. \A l \in {"A", "B"} : BeginOf(l) \in Wishing /\ EndOf(l) \in Wishing
  BY DEF BeginOf, EndOf, Wish, Wishing
<1>2. \A l : BeginOf(l).letter = l /\ EndOf(l).letter = l
  BY DEF BeginOf, EndOf, Wish
<1>3. \A set, l : Wished(set, BeginOf(l)) = set \cup {l}
  BY DEF BeginOf, Wish, Wished
<1>4. \A set, l : Wished(set, EndOf(l)) = set \ {l}
  BY DEF EndOf, Wish, Wished
<1> QED BY <1>1, <1>2, <1>3, <1>4

\* What the sequence of wishes says.
LEMMA AskedIs ==
    /\ \A n \in 0 .. 3 : /\ Wished(WantedAfter(n), Asked[n + 1]) = WantedAfter(n + 1)
                         /\ Asked[n + 1] \in Wishing
    /\ Asked[1].letter = "A" /\ Asked[2].letter = "B"
    /\ Asked[1] = BeginOf("A") /\ Asked[2] = BeginOf("B") /\ Asked[3] = EndOf("A") /\ Asked[4] = EndOf("B")
<1>1. Asked[1] = BeginOf("A") /\ Asked[2] = BeginOf("B") /\ Asked[3] = EndOf("A") /\ Asked[4] = EndOf("B")
  BY DEF Asked
<1>2. /\ WantedAfter(0) = {} /\ WantedAfter(1) = {"A"} /\ WantedAfter(2) = {"A", "B"}
      /\ WantedAfter(3) = {"B"} /\ WantedAfter(4) = {}
  BY DEF WantedAfter
<1>3. /\ Wished(WantedAfter(0), Asked[1]) = WantedAfter(1) /\ Wished(WantedAfter(1), Asked[2]) = WantedAfter(2)
      /\ Wished(WantedAfter(2), Asked[3]) = WantedAfter(3) /\ Wished(WantedAfter(3), Asked[4]) = WantedAfter(4)
  <2>1. Wished({}, Asked[1]) = {"A"}
    BY <1>1, WishesAre
  <2>2. Wished({"A"}, Asked[2]) = {"A", "B"}
    BY <1>1, WishesAre
  <2>3. Wished({"A", "B"}, Asked[3]) = {"B"}
    BY <1>1, WishesAre
  <2>4. Wished({"B"}, Asked[4]) = {}
    BY <1>1, WishesAre
  <2> QED BY <1>2, <2>1, <2>2, <2>3, <2>4
<1>4. \A i \in 1 .. 4 : Asked[i] \in Wishing
  BY <1>1, WishesAre
<1>5. ASSUME NEW n \in 0 .. 3
      PROVE  Wished(WantedAfter(n), Asked[n + 1]) = WantedAfter(n + 1) /\ Asked[n + 1] \in Wishing
  <2>1. CASE n = 0
    BY <1>3, <1>4, <2>1
  <2>2. CASE n = 1
    BY <1>3, <1>4, <2>2
  <2>3. CASE n = 2
    BY <1>3, <1>4, <2>3
  <2>4. CASE n = 3
    BY <1>3, <1>4, <2>4
  <2> QED BY <2>1, <2>2, <2>3, <2>4
<1> QED BY <1>1, <1>5, WishesAre

\* The first of what is asked for goes on to the next queue.
LEMMA BetweenTail ==
    ASSUME NEW wishList, NEW k \in 0 .. 4, NEW n \in 0 .. 4, Between(wishList, k, n), wishList # <<>>
    PROVE  k < n /\ Head(wishList) = Asked[k + 1] /\ Between(Tail(wishList), k + 1, n)
<1>1. /\ wishList \in Seq(Wishing)
      /\ Len(wishList) = n - k /\ \A i \in 1 .. n - k : wishList[i] = Asked[k + i]
  BY DEF Between
<1>2. Len(wishList) \in Nat \ {0}
  BY <1>1
<1>3. k < n /\ Head(wishList) = wishList[1]
  BY <1>1, <1>2
<1>4. /\ Tail(wishList) \in Seq(Wishing) /\ Len(Tail(wishList)) = n - (k + 1)
      /\ \A i \in 1 .. n - (k + 1) : Tail(wishList)[i] = wishList[i + 1]
  BY <1>1, <1>2, HeadTailProperties
<1>5. ASSUME NEW i \in 1 .. n - (k + 1) PROVE Tail(wishList)[i] = Asked[(k + 1) + i]
  <2>1. i + 1 \in 1 .. n - k /\ k + (i + 1) = (k + 1) + i
    OBVIOUS
  <2> QED BY <1>1, <1>4, <2>1
<1>6. Head(wishList) = Asked[k + 1]
  BY <1>1, <1>3
<1> QED BY <1>3, <1>4, <1>5, <1>6 DEF Between

\* One more wish at the end of those on the way.
LEMMA BetweenAppend ==
    ASSUME NEW wishList, NEW k \in 0 .. 4, NEW n \in 0 .. 3, k <= n, Between(wishList, k, n)
    PROVE  Between(Append(wishList, Asked[n + 1]), k, n + 1)
<1>1. /\ wishList \in Seq(Wishing)
      /\ Len(wishList) = n - k /\ \A i \in 1 .. n - k : wishList[i] = Asked[k + i]
      /\ Asked[n + 1] \in Wishing
  BY AskedIs DEF Between
<1> DEFINE e == Asked[n + 1]
           q == Append(wishList, e)
<1>2. /\ q \in Seq(Wishing) /\ Len(q) = (n - k) + 1
      /\ \A i \in 1 .. n - k : q[i] = wishList[i]
      /\ q[(n - k) + 1] = e
  <2> HIDE DEF e
  <2>1. e \in Wishing
    BY <1>1 DEF e
  <2> QED BY <1>1, <2>1, AppendProperties
<1> HIDE DEF q
<1>3. ASSUME NEW i \in 1 .. (n + 1) - k PROVE q[i] = Asked[k + i]
  <2>1. CASE i \in 1 .. n - k
    BY <1>1, <1>2, <2>1
  <2>2. CASE i = (n - k) + 1
    <3>1. k + i = n + 1
      BY <2>2
    <3> QED BY <1>2, <2>2, <3>1
  <2>3. i \in 1 .. n - k \/ i = (n - k) + 1
    OBVIOUS
  <2> QED BY <2>1, <2>2, <2>3
<1>4. Len(q) = (n + 1) - k
  BY <1>2
<1>5. Between(q, k, n + 1)
  BY <1>2, <1>3, <1>4 DEF Between
<1> QED BY <1>5 DEF q

\* What is copied to the listener.
LEMMA OverheardAppend ==
    ASSUME EspressoTyped, NEW e \in ({"wish"} \X {"A", "B"}) \cup Drawing,
           heardAll' = Append(heardAll, e)
    PROVE  /\ Overheard' = IF e[1] = "wish" THEN Overheard ELSE Overheard \cup {e}
           /\ heardAll' \in Seq(({"wish"} \X {"A", "B"}) \cup Drawing)
           /\ \A w : In(heardAll', w) <=> In(heardAll, w) \/ w = e
           /\ Len(heardAll') = Len(heardAll) + 1 /\ Len(heardAll) \in Nat
           /\ DOMAIN heardAll = 1 .. Len(heardAll) /\ DOMAIN heardAll' = 1 .. Len(heardAll) + 1
           /\ \A i \in 1 .. Len(heardAll) : heardAll'[i] = heardAll[i]
           /\ heardAll'[Len(heardAll) + 1] = e
<1> DEFINE E == ({"wish"} \X {"A", "B"}) \cup Drawing
<1>1. heardAll \in Seq(E)
  BY DEF EspressoTyped
<1> HIDE DEF E
<1>2. e \in E
  BY DEF E
<1>3. /\ heardAll' \in Seq(E) /\ Len(heardAll') = Len(heardAll) + 1 /\ Len(heardAll) \in Nat
      /\ DOMAIN heardAll = 1 .. Len(heardAll) /\ DOMAIN heardAll' = 1 .. Len(heardAll) + 1
      /\ \A i \in 1 .. Len(heardAll) : heardAll'[i] = heardAll[i]
      /\ heardAll'[Len(heardAll) + 1] = e
  BY <1>1, <1>2, AppendProperties, LenProperties
<1>4. \A w : In(heardAll', w) <=> In(heardAll, w) \/ w = e
  BY <1>3 DEF In
<1>5. \A w : /\ w \in Overheard <=> In(heardAll, w) /\ w[1] # "wish"
             /\ w \in Overheard' <=> In(heardAll', w) /\ w[1] # "wish"
  BY DEF Overheard, In
<1>6. Overheard' = IF e[1] = "wish" THEN Overheard ELSE Overheard \cup {e}
  BY <1>4, <1>5
<1> QED BY <1>3, <1>4, <1>6 DEF E

\* A message at the end of a list that is later than all in it, or a wish.
LEMMA InTurnAppend ==
    ASSUME NEW S, NEW s \in Seq(S), NEW e \in S, InTurn(s),
           e[1] # "wish" => \A i \in DOMAIN s : s[i][1] # "wish" => s[i][2] < e[2]
    PROVE  InTurn(Append(s, e))
<1>1. /\ DOMAIN s = 1 .. Len(s) /\ Len(s) \in Nat /\ DOMAIN Append(s, e) = 1 .. Len(s) + 1
      /\ \A i \in 1 .. Len(s) : Append(s, e)[i] = s[i]
      /\ Append(s, e)[Len(s) + 1] = e
  BY AppendProperties, LenProperties
<1> DEFINE t == Append(s, e)
<1> HIDE DEF t
<1>2. SUFFICES ASSUME NEW i \in DOMAIN t, NEW j \in DOMAIN t, i < j, t[i][1] # "wish", t[j][1] # "wish"
               PROVE  t[i][2] < t[j][2]
  BY DEF InTurn, t
<1>3. i \in 1 .. Len(s) /\ t[i] = s[i]
  BY <1>1, <1>2 DEF t
<1>4. CASE j \in 1 .. Len(s)
  <2>1. t[j] = s[j]
    BY <1>1, <1>4 DEF t
  <2> QED BY <1>1, <1>2, <1>3, <1>4, <2>1 DEF InTurn
<1>5. CASE j = Len(s) + 1
  <2>1. t[j] = e
    BY <1>1, <1>5 DEF t
  <2> QED BY <1>1, <1>2, <1>3, <2>1
<1>6. j \in 1 .. Len(s) \/ j = Len(s) + 1
  BY <1>1 DEF t
<1> QED BY <1>4, <1>5, <1>6

\* What the invariant says, part by part.
LEMMA EspressoParts ==
    ASSUME EspressoInv
    PROVE  /\ subscriber \in {"starts", "reads", "left"} /\ draws \in Nat
           /\ drawn \in Seq(Drawing) /\ served \in Seq(Drawing) /\ drunk \in Seq(Drawing)
           /\ Cup \in Seq(Drawing) /\ \A i \in DOMAIN drawn : drawn[i][1] \in {"A", "B"}
<1>1. /\ subscriber \in {"starts", "reads", "left"} /\ draws \in Nat
      /\ drawn \in Seq(Drawing) /\ served \in Seq(Drawing) /\ drunk \in Seq(Drawing)
      /\ \A i \in DOMAIN drawn : drawn[i][1] \in {"A", "B"}
  BY DEF EspressoInv, EspressoTyped
<1>2. Cup \in Seq(Drawing)
  BY <1>1, ConcatProperties DEF Cup
<1> QED BY <1>1, <1>2

\* The wishes, and those that the proxy and the publisher know, with nothing else changed.
LEMMA OnlyWishes ==
    ASSUME EspressoInv, UNCHANGED <<draws, drawn, served, drunk, heardAll>>, subscriber' \in {"starts", "reads", "left"},
           subscriber' = "left" \/ subscriber # "left"
    PROVE  EspressoTyped' /\ Newer' /\ Relayed'
<1>1. Cup' = Cup /\ Tasted' = Tasted /\ Overheard' = Overheard
  BY DEF Cup, Tasted, Overheard
<1>2. EspressoTyped'
  BY DEF EspressoInv, EspressoTyped
<1>3. Newer'
  BY <1>1 DEF EspressoInv, Newer, InTurn
<1>4. Relayed'
  BY <1>1 DEF EspressoInv, Relayed, InTurn
<1> QED BY <1>2, <1>3, <1>4

\* The subscriber wishes for A and B.
LEMMA SubscribeStep ==
    ASSUME EspressoInv, SubscribeAB
    PROVE  EspressoInv'
<1>1. /\ subscriber = "starts" /\ subscriber' = "reads"
      /\ UNCHANGED <<wanted, relayed, published, draws, drawn, served, drunk, heardAll>>
  BY DEF SubscribeAB
<1>2. wishes' = wishes \o <<BeginOf("A"), BeginOf("B")>>
  BY DEF SubscribeAB, BeginOf
<1>3. PICK x, p \in 0 .. 4 : Knows(x, p)
  BY DEF EspressoInv
<1>4. IssuedWishes = 0 /\ IssuedWishes' = 2 /\ x = 0 /\ p = 0
  BY <1>1, <1>3 DEF IssuedWishes, Knows
<1>5. wishes = <<>>
  BY <1>3, <1>4 DEF Knows, Between
<1>6. wishes' = <<BeginOf("A"), BeginOf("B")>>
  <2>1. \A a, b : <<>> \o <<a, b>> = <<a, b>>
    OBVIOUS
  <2> QED BY <1>2, <1>5, <2>1
<1>7. Between(wishes', 0, 2)
  <2>1. BeginOf("A") \in Wishing /\ BeginOf("B") \in Wishing
    BY WishesAre
  <2>2. wishes' \in Seq(Wishing) /\ Len(wishes') = 2 /\ wishes'[1] = BeginOf("A") /\ wishes'[2] = BeginOf("B")
    BY <1>6, <2>1
  <2>3. \A i \in 1 .. 2 : wishes'[i] = Asked[0 + i]
    BY <2>2, AskedIs
  <2> QED BY <2>2, <2>3 DEF Between
<1>8. Knows(0, 0)'
  BY <1>1, <1>3, <1>4, <1>7 DEF Knows
<1>9. EspressoTyped' /\ Newer' /\ Relayed'
  BY <1>1, OnlyWishes
<1> QED BY <1>8, <1>9 DEF EspressoInv

\* The subscriber takes what comes first.
LEMMA DrinkStep ==
    ASSUME EspressoInv, Drink
    PROVE  EspressoInv'
<1>1. /\ served # <<>> /\ drunk' = Append(drunk, Head(served)) /\ served' = Tail(served)
      /\ UNCHANGED <<subscriber, wishes, wanted, relayed, published, draws, drawn, heardAll>>
  BY DEF Drink
<1>2. drunk' \o served' = drunk \o served /\ drunk' \in Seq(Drawing) /\ served' \in Seq(Drawing)
  BY <1>1, EspressoParts, JoinedMoves
<1>3. Cup' = Cup /\ Overheard' = Overheard
  BY <1>1, <1>2 DEF Cup, Overheard
<1>4. Tasted' = Tasted
  BY <1>3 DEF Tasted
<1>5. EspressoTyped'
  BY <1>1, <1>2 DEF EspressoInv, EspressoTyped
<1>6. Newer'
  BY <1>1, <1>3 DEF EspressoInv, Newer, InTurn
<1>7. Relayed'
  BY <1>1, <1>3, <1>4 DEF EspressoInv, Relayed, InTurn
<1>8. PICK x, p \in 0 .. 4 : Knows(x, p)
  BY DEF EspressoInv
<1>9. Knows(x, p)'
  BY <1>1, <1>8 DEF Knows, IssuedWishes
<1> QED BY <1>5, <1>6, <1>7, <1>9 DEF EspressoInv

\* The subscriber reads no more; what it has read is still all up to the last of it.
LEMMA LeaveStep ==
    ASSUME EspressoInv, Leave
    PROVE  EspressoInv'
<1>1. /\ subscriber = "reads" /\ subscriber' = "left" /\ served' = <<>>
      /\ UNCHANGED <<wanted, relayed, published, draws, drawn, drunk, heardAll>>
  BY DEF Leave
<1>2. wishes' = wishes \o <<EndOf("A"), EndOf("B")>>
  BY DEF Leave, EndOf
<1>3. PICK x, p \in 0 .. 4 : Knows(x, p)
  BY DEF EspressoInv
<1>4. IssuedWishes = 2 /\ IssuedWishes' = 4 /\ x \in 0 .. 2 /\ p \in 0 .. x
  BY <1>1, <1>3 DEF IssuedWishes, Knows
<1>5. Between(wishes', x, 4)
  <2>1. wishes \in Seq(Wishing) /\ Len(wishes) = 2 - x /\ \A i \in 1 .. 2 - x : wishes[i] = Asked[x + i]
    BY <1>3, <1>4 DEF Knows, Between
  <2>2. EndOf("A") \in Wishing /\ EndOf("B") \in Wishing
    BY WishesAre
  <2> DEFINE two == <<EndOf("A"), EndOf("B")>>
  <2>3. two \in Seq(Wishing) /\ Len(two) = 2 /\ two[1] = EndOf("A") /\ two[2] = EndOf("B")
    BY <2>2
  <2> HIDE DEF two
  <2>4. /\ wishes \o two \in Seq(Wishing) /\ Len(wishes \o two) = 4 - x
        /\ \A i \in 1 .. 4 - x : (wishes \o two)[i] = IF i <= 2 - x THEN wishes[i] ELSE two[i - (2 - x)]
    <3>1. /\ wishes \o two \in Seq(Wishing) /\ Len(wishes \o two) = Len(wishes) + Len(two)
          /\ \A i \in 1 .. Len(wishes) + Len(two) :
               (wishes \o two)[i] = IF i <= Len(wishes) THEN wishes[i] ELSE two[i - Len(wishes)]
      BY <2>1, <2>3, ConcatProperties
    <3>2. Len(wishes) + Len(two) = 4 - x
      BY <1>4, <2>1, <2>3
    <3> QED BY <2>1, <3>1, <3>2
  <2>5. ASSUME NEW i \in 1 .. 4 - x PROVE wishes'[i] = Asked[x + i]
    <3>1. wishes'[i] = IF i <= 2 - x THEN wishes[i] ELSE two[i - (2 - x)]
      BY <1>2, <2>4 DEF two
    <3>2. CASE i <= 2 - x
      <4>1. i \in 1 .. 2 - x
        BY <1>4, <3>2
      <4> QED BY <2>1, <3>1, <3>2, <4>1
    <3>3. CASE i = 3 - x
      <4>1. wishes'[i] = EndOf("A") /\ x + i = 3
        BY <1>4, <2>3, <3>1, <3>3
      <4> QED BY <4>1, AskedIs
    <3>4. CASE i = 4 - x
      <4>1. wishes'[i] = EndOf("B") /\ x + i = 4
        BY <1>4, <2>3, <3>1, <3>4
      <4> QED BY <4>1, AskedIs
    <3>5. i <= 2 - x \/ i = 3 - x \/ i = 4 - x
      BY <1>4
    <3> QED BY <3>2, <3>3, <3>4, <3>5
  <2>6. wishes' \in Seq(Wishing) /\ Len(wishes') = 4 - x
    BY <1>2, <2>4 DEF two
  <2> QED BY <2>5, <2>6 DEF Between
<1>6. Knows(x, p)'
  <2>1. x \in 0 .. 4
    BY <1>4
  <2> QED BY <1>1, <1>3, <1>4, <1>5, <2>1 DEF Knows
<1>7. EspressoTyped'
  BY <1>1 DEF EspressoInv, EspressoTyped
<1>8. Overheard' = Overheard
  BY <1>1 DEF Overheard
<1>9. Newer'
  BY <1>1, <1>8 DEF EspressoInv, Newer, InTurn
<1>10. Cup' = drunk
  BY <1>1, EspressoParts, ConcatEmptySeq DEF Cup
<1>11. /\ DOMAIN drunk = 1 .. Len(drunk) /\ Len(drunk) \in Nat
       /\ DOMAIN Cup = 1 .. Len(drunk) + Len(served) /\ Len(served) \in Nat
       /\ \A i \in 1 .. Len(drunk) : Cup[i] = drunk[i]
  <2>1. drunk \in Seq(Drawing) /\ served \in Seq(Drawing)
    BY EspressoParts
  <2>2. Len(drunk) \in Nat /\ Len(served) \in Nat /\ DOMAIN drunk = 1 .. Len(drunk)
    BY <2>1, LenProperties
  <2>3. /\ Cup \in Seq(Drawing) /\ Len(Cup) = Len(drunk) + Len(served)
        /\ \A i \in 1 .. Len(drunk) + Len(served) :
             Cup[i] = IF i <= Len(drunk) THEN drunk[i] ELSE served[i - Len(drunk)]
    BY <2>1, ConcatProperties DEF Cup
  <2>4. DOMAIN Cup = 1 .. Len(Cup)
    BY <2>3, LenProperties
  <2>5. \A i \in 1 .. Len(drunk) : i \in 1 .. Len(drunk) + Len(served) /\ i <= Len(drunk)
    BY <2>2
  <2> QED BY <2>2, <2>3, <2>4, <2>5
<1>12. /\ InTurn(heardAll) /\ InTurn(Cup) /\ Tasted \subseteq Overheard
       /\ \A m \in Tasted : {o \in Overheard : o[2] < m[2]} \subseteq Tasted
       /\ \A i \in DOMAIN Cup : Cup[i] \in Drawing
       /\ \A i \in DOMAIN heardAll :
            heardAll[i][1] # "wish" => \E j \in 1 .. i - 1 : heardAll[j] = <<"wish", heardAll[i][1]>>
  <2>1. Cup \in Seq(Drawing)
    BY EspressoParts
  <2>2. \A i \in DOMAIN Cup : Cup[i] \in Drawing
    BY <2>1
  <2> QED BY <2>2, Zenon DEF EspressoInv, Relayed
<1>13. \A m \in Drawing : m[1] # "wish" /\ m[2] \in Nat
  BY EspressoAssumption DEF Drawing
<1>14. InTurn(drunk)
  BY <1>11, <1>12 DEF InTurn
<1>15. Tasted' = {drunk[i] : i \in 1 .. Len(drunk)} /\ Tasted = {Cup[i] : i \in 1 .. Len(drunk) + Len(served)}
  BY <1>10, <1>11 DEF Tasted
<1>16. Tasted' \subseteq Tasted
  BY <1>11, <1>15
<1>17. ASSUME NEW m \in Tasted', NEW o \in Overheard, o[2] < m[2] PROVE o \in Tasted'
  <2>1. PICK i \in 1 .. Len(drunk) : m = drunk[i]
    BY <1>15
  <2>2. o \in Tasted
    BY <1>12, <1>16, <1>17
  <2>3. PICK j \in 1 .. Len(drunk) + Len(served) : o = Cup[j]
    BY <1>15, <2>2
  <2>4. m = Cup[i] /\ i \in DOMAIN Cup /\ j \in DOMAIN Cup
    BY <1>11, <2>1, <2>3
  <2>5. ~(i < j)
    BY <1>12, <1>13, <1>17, <2>3, <2>4 DEF InTurn
  <2>6. j \in 1 .. Len(drunk) /\ o = drunk[j]
    BY <1>11, <2>1, <2>3, <2>5
  <2> QED BY <1>15, <2>6
<1>18. Relayed'
  BY <1>1, <1>8, <1>10, <1>12, <1>14, <1>16, <1>17 DEF Relayed, InTurn
<1> QED BY <1>6, <1>7, <1>9, <1>18 DEF EspressoInv

\* A letter that is subscribed to is sent, and it is newer than all that was sent.
LEMMA DrawStep ==
    ASSUME EspressoInv, Draw
    PROVE  EspressoInv'
<1>1. /\ draws' = draws + 1
      /\ UNCHANGED <<subscriber, wishes, wanted, relayed, published, served, drunk, heardAll>>
  BY DEF Draw
<1>2. PICK l \in Letter : drawn' = IF l \in published THEN Append(drawn, <<l, draws>>) ELSE drawn
  BY DEF Draw
<1>3. PICK x, p \in 0 .. 4 : Knows(x, p)
  BY DEF EspressoInv
<1>4. Cup' = Cup /\ Overheard' = Overheard /\ IssuedWishes' = IssuedWishes
  BY <1>1 DEF Cup, Overheard, IssuedWishes
<1>5. Tasted' = Tasted
  BY <1>4 DEF Tasted
<1>6. Relayed'
  BY <1>1, <1>4, <1>5 DEF EspressoInv, Relayed, InTurn
<1>7. /\ EspressoTyped /\ draws \in Nat /\ drawn \in Seq(Drawing) /\ Newer
      /\ \A i \in DOMAIN drawn : drawn[i][1] \in {"A", "B"}
  BY EspressoParts DEF EspressoInv
<1>8. CASE l \notin published
  <2>1. drawn' = drawn
    BY <1>2, <1>8
  <2>2. EspressoTyped'
    BY <1>1, <1>7, <2>1 DEF EspressoTyped
  <2>3. Newer'
    <3>1. \A n \in Nat : \A k \in Nat : n < k => n < k + 1
      OBVIOUS
    <3>2. \A i \in DOMAIN drawn : drawn[i][2] \in Nat
      BY <1>7 DEF Drawing
    <3>3. \A m \in Overheard : m[2] \in Nat
      BY <1>7 DEF EspressoTyped, Overheard, Drawing
    <3> QED BY <1>1, <1>4, <1>7, <2>1, <3>1, <3>2, <3>3 DEF Newer
  <2>4. Knows(x, p)'
    BY <1>1, <1>3, <1>4, <2>1 DEF Knows
  <2> QED BY <1>6, <2>2, <2>3, <2>4 DEF EspressoInv
<1>9. CASE l \in published
  <2> DEFINE e == <<l, draws>>
  <2>1. drawn' = Append(drawn, e) /\ e \in Drawing /\ e[1] = l /\ e[2] = draws
    BY <1>2, <1>7, <1>9 DEF Drawing
  <2>2. published = WantedAfter(p) /\ p <= x /\ x \in 0 .. 4
    BY <1>3 DEF Knows
  <2>3. /\ l \in {"A", "B"} /\ (l = "A" => x >= 1) /\ (l = "B" => x >= 2)
    <3>1. l \in {"A", "B"} /\ (l = "A" => p \in {1, 2}) /\ (l = "B" => p \in {2, 3})
      BY <1>9, <2>2 DEF WantedAfter
    <3> QED BY <2>2, <3>1
  <2> HIDE DEF e
  <2>4. /\ drawn' \in Seq(Drawing) /\ DOMAIN drawn = 1 .. Len(drawn) /\ Len(drawn) \in Nat
        /\ DOMAIN drawn' = 1 .. Len(drawn) + 1
        /\ \A i \in 1 .. Len(drawn) : drawn'[i] = drawn[i]
        /\ drawn'[Len(drawn) + 1] = e
    BY <1>7, <2>1, AppendProperties, LenProperties
  <2>5. \A i \in DOMAIN drawn' : (i \in DOMAIN drawn /\ drawn'[i] = drawn[i]) \/ drawn'[i] = e
    BY <2>4
  <2>6. EspressoTyped'
    <3>1. \A i \in DOMAIN drawn' : drawn'[i][1] \in {"A", "B"}
      BY <1>7, <2>1, <2>3, <2>5
    <3>2. draws' \in Nat
      BY <1>1, <1>7
    <3> QED BY <1>1, <1>7, <2>4, <3>1, <3>2 DEF EspressoTyped
  <2>7. InTurn(drawn')
    <3>1. InTurn(drawn) /\ \A i \in DOMAIN drawn : drawn[i][2] < e[2]
      BY <1>7, <2>1 DEF Newer
    <3> QED BY <1>7, <2>1, <3>1, InTurnAppend
  <2>8. Newer'
    <3>1. \A i \in DOMAIN drawn : drawn[i][2] \in Nat
      BY <1>7 DEF Drawing
    <3>2. \A m \in Overheard : m[2] \in Nat
      BY <1>7 DEF EspressoTyped, Overheard, Drawing
    <3>3. \A i \in DOMAIN drawn' : drawn'[i][2] < draws'
      BY <1>1, <1>7, <2>1, <2>5, <3>1 DEF Newer
    <3>4. ASSUME NEW m \in Overheard PROVE m[2] < draws' /\ \A i \in DOMAIN drawn' : m[2] < drawn'[i][2]
      <4>1. m[2] < draws /\ (\A i \in DOMAIN drawn : m[2] < drawn[i][2]) /\ m[2] \in Nat
        BY <1>7, <3>2 DEF Newer
      <4>2. m[2] < draws'
        BY <1>1, <1>7, <4>1
      <4>3. \A i \in DOMAIN drawn' : m[2] < drawn'[i][2]
        BY <2>1, <2>5, <4>1
      <4> QED BY <4>2, <4>3
    <3> QED BY <1>4, <2>7, <3>3, <3>4 DEF Newer
  <2>9. Knows(x, p)'
    <3>1. \A i \in DOMAIN drawn' : (drawn'[i][1] = "A" => x >= 1) /\ (drawn'[i][1] = "B" => x >= 2)
      BY <1>3, <2>1, <2>3, <2>5 DEF Knows
    <3> QED BY <1>1, <1>3, <1>4, <3>1 DEF Knows
  <2> QED BY <1>6, <2>6, <2>8, <2>9 DEF EspressoInv
<1> QED BY <1>8, <1>9

\* The publisher hears of a wish.
LEMMA HearWishStep ==
    ASSUME EspressoInv, HearWish
    PROVE  EspressoInv'
<1>1. /\ relayed # <<>> /\ published' = Wished(published, Head(relayed)) /\ relayed' = Tail(relayed)
      /\ UNCHANGED <<subscriber, wishes, wanted, draws, drawn, served, drunk, heardAll>>
  BY DEF HearWish
<1>2. PICK x, p \in 0 .. 4 : Knows(x, p)
  BY DEF EspressoInv
<1>3. p < x /\ Head(relayed) = Asked[p + 1] /\ Between(relayed', p + 1, x)
  BY <1>1, <1>2, BetweenTail DEF Knows
<1>4. published' = WantedAfter(p + 1)
  BY <1>1, <1>2, <1>3, AskedIs DEF Knows
<1>5. p + 1 \in 0 .. x /\ p + 1 \in 0 .. 4
  BY <1>3
<1>6. IssuedWishes' = IssuedWishes
  BY <1>1 DEF IssuedWishes
<1>7. Knows(x, p + 1)'
  BY <1>1, <1>2, <1>3, <1>4, <1>5, <1>6 DEF Knows
<1>8. EspressoTyped' /\ Newer' /\ Relayed'
  <2>1. subscriber' \in {"starts", "reads", "left"} /\ (subscriber' = "left" \/ subscriber # "left")
    BY <1>1, EspressoParts
  <2> QED BY <1>1, <2>1, OnlyWishes
<1> QED BY <1>5, <1>7, <1>8 DEF EspressoInv

\* The proxy passes a wish on, and copies it to the listener.
LEMMA RelayWishStep ==
    ASSUME EspressoInv, RelayWish
    PROVE  EspressoInv'
<1> DEFINE e == <<"wish", Head(wishes).letter>>
<1>1. /\ wishes # <<>> /\ wanted' = Wished(wanted, Head(wishes)) /\ wishes' = Tail(wishes)
      /\ relayed' = Append(relayed, Head(wishes)) /\ heardAll' = Append(heardAll, e)
      /\ UNCHANGED <<subscriber, published, draws, drawn, served, drunk>>
  BY DEF RelayWish
<1>2. PICK x, p \in 0 .. 4 : Knows(x, p)
  BY DEF EspressoInv
<1>3. IssuedWishes \in 0 .. 4 /\ IssuedWishes' = IssuedWishes
  BY <1>1 DEF IssuedWishes
<1>4. x < IssuedWishes /\ Head(wishes) = Asked[x + 1] /\ Between(wishes', x + 1, IssuedWishes)
  BY <1>1, <1>2, <1>3, BetweenTail DEF Knows
<1>5. x \in 0 .. 3 /\ x + 1 \in 0 .. IssuedWishes /\ x + 1 \in 0 .. 4 /\ p \in 0 .. x + 1 /\ p <= x
  BY <1>2, <1>3, <1>4 DEF Knows
<1>6. wanted' = WantedAfter(x + 1) /\ Head(wishes) \in Wishing
  BY <1>1, <1>2, <1>4, <1>5, AskedIs DEF Knows
<1>7. Between(relayed', p, x + 1)
  BY <1>1, <1>2, <1>4, <1>5, BetweenAppend DEF Knows
<1>8. e \in {"wish"} \X {"A", "B"} /\ e[1] = "wish"
  BY <1>6 DEF Wishing
<1>9. EspressoTyped /\ Newer /\ Relayed
  BY DEF EspressoInv
<1>10. (x = 0 => e = <<"wish", "A">>) /\ (x = 1 => e = <<"wish", "B">>)
  BY <1>4, AskedIs
<1> HIDE DEF e
<1>11. /\ Overheard' = Overheard
       /\ heardAll' \in Seq(({"wish"} \X {"A", "B"}) \cup Drawing)
       /\ \A w : In(heardAll', w) <=> In(heardAll, w) \/ w = e
       /\ Len(heardAll) \in Nat
       /\ DOMAIN heardAll = 1 .. Len(heardAll) /\ DOMAIN heardAll' = 1 .. Len(heardAll) + 1
       /\ \A i \in 1 .. Len(heardAll) : heardAll'[i] = heardAll[i]
       /\ heardAll'[Len(heardAll) + 1] = e
  BY <1>1, <1>8, <1>9, OverheardAppend
<1>12. Knows(x + 1, p)'
  <2>1. /\ x + 1 >= 1 => In(heardAll', <<"wish", "A">>)
        /\ x + 1 >= 2 => In(heardAll', <<"wish", "B">>)
    <3>1. In(heardAll', <<"wish", "A">>)
      <4>1. x = 0 \/ x >= 1
        BY <1>5
      <4> QED BY <1>2, <1>10, <1>11, <4>1 DEF Knows
    <3>2. x + 1 >= 2 => In(heardAll', <<"wish", "B">>)
      <4>1. x + 1 >= 2 => x = 1 \/ x >= 2
        BY <1>5
      <4> QED BY <1>2, <1>10, <1>11, <4>1 DEF Knows
    <3> QED BY <3>1, <3>2
  <2>2. \A i \in DOMAIN drawn : (drawn[i][1] = "A" => x + 1 >= 1) /\ (drawn[i][1] = "B" => x + 1 >= 2)
    <3>1. \A i \in DOMAIN drawn : (drawn[i][1] = "A" => x >= 1) /\ (drawn[i][1] = "B" => x >= 2)
      BY <1>2 DEF Knows
    <3>2. (x >= 1 => x + 1 >= 1) /\ (x >= 2 => x + 1 >= 2)
      BY <1>5
    <3> QED BY <3>1, <3>2
  <2>3. published' = WantedAfter(p)
    BY <1>1, <1>2 DEF Knows
  <2> QED BY <1>1, <1>3, <1>4, <1>5, <1>6, <1>7, <2>1, <2>2, <2>3 DEF Knows
<1>13. EspressoTyped'
  BY <1>1, <1>9, <1>11 DEF EspressoTyped
<1>14. Newer'
  BY <1>1, <1>9, <1>11 DEF Newer, InTurn
<1>15. Cup' = Cup
  BY <1>1 DEF Cup
<1>16. Tasted' = Tasted
  BY <1>15 DEF Tasted
<1>17. InTurn(heardAll')
  <2>1. heardAll \in Seq(({"wish"} \X {"A", "B"}) \cup Drawing) /\ InTurn(heardAll)
    BY <1>9 DEF EspressoTyped, Relayed
  <2> DEFINE E == ({"wish"} \X {"A", "B"}) \cup Drawing
  <2>2. e \in E
    BY <1>8
  <2> HIDE DEF E
  <2>3. heardAll \in Seq(E)
    BY <2>1 DEF E
  <2> QED BY <1>1, <1>8, <2>1, <2>2, <2>3, InTurnAppend
<1>18. ASSUME NEW i \in DOMAIN heardAll', heardAll'[i][1] # "wish"
       PROVE  \E j \in 1 .. i - 1 : heardAll'[j] = <<"wish", heardAll'[i][1]>>
  <2>1. i \in 1 .. Len(heardAll) /\ heardAll'[i] = heardAll[i]
    BY <1>8, <1>11, <1>18
  <2>2. PICK j \in 1 .. i - 1 : heardAll[j] = <<"wish", heardAll[i][1]>>
    BY <1>9, <1>11, <1>18, <2>1 DEF Relayed
  <2>3. heardAll'[j] = heardAll[j]
    BY <1>11, <2>1
  <2> QED BY <2>1, <2>2, <2>3
<1>19. Relayed'
  <2>1. InTurn(Cup')
    BY <1>9, <1>15 DEF Relayed
  <2>2. /\ Tasted \subseteq Overheard /\ \A m \in Tasted : {o \in Overheard : o[2] < m[2]} \subseteq Tasted
        /\ subscriber # "left" => Tasted = Overheard
    BY <1>9 DEF Relayed
  <2> QED BY <1>1, <1>11, <1>16, <1>17, <1>18, <2>1, <2>2 DEF Relayed
<1> QED BY <1>5, <1>12, <1>13, <1>14, <1>19 DEF EspressoInv

\* The proxy passes a message on, and copies it to the listener.
LEMMA RelayDrawnStep ==
    ASSUME EspressoInv, RelayDrawn
    PROVE  EspressoInv'
<1> DEFINE e == Head(drawn)
<1>1. /\ drawn # <<>> /\ heardAll' = Append(heardAll, e) /\ drawn' = Tail(drawn)
      /\ served' = IF e[1] \in wanted /\ subscriber = "reads" THEN Append(served, e) ELSE served
      /\ UNCHANGED <<subscriber, wishes, wanted, relayed, published, draws, drunk>>
  BY DEF RelayDrawn
<1>2. PICK x, p \in 0 .. 4 : Knows(x, p)
  BY DEF EspressoInv
<1>3. /\ EspressoTyped /\ Newer /\ Relayed /\ drawn \in Seq(Drawing) /\ served \in Seq(Drawing) /\ draws \in Nat
      /\ drunk \in Seq(Drawing) /\ Cup \in Seq(Drawing)
      /\ \A i \in DOMAIN drawn : drawn[i][1] \in {"A", "B"}
      /\ subscriber \in {"starts", "reads", "left"}
  BY EspressoParts DEF EspressoInv
<1>4. /\ e \in Drawing /\ e = drawn[1] /\ 1 \in DOMAIN drawn
      /\ drawn' \in Seq(Drawing) /\ DOMAIN drawn' = 1 .. Len(drawn) - 1 /\ DOMAIN drawn = 1 .. Len(drawn)
      /\ Len(drawn) \in Nat \ {0}
      /\ \A i \in 1 .. Len(drawn) - 1 : drawn'[i] = drawn[i + 1]
  <2>1. Len(drawn) \in Nat \ {0} /\ e = drawn[1] /\ DOMAIN drawn = 1 .. Len(drawn)
    BY <1>1, <1>3
  <2>2. /\ e \in Drawing /\ Tail(drawn) \in Seq(Drawing) /\ Len(Tail(drawn)) = Len(drawn) - 1
        /\ \A i \in 1 .. Len(Tail(drawn)) : Tail(drawn)[i] = drawn[i + 1]
    BY <1>1, <1>3, HeadTailProperties
  <2>3. DOMAIN Tail(drawn) = 1 .. Len(Tail(drawn))
    BY <2>2, LenProperties
  <2> QED BY <1>1, <2>1, <2>2, <2>3
<1> HIDE DEF e
<1>5. /\ e[1] \in {"A", "B"} /\ (e[1] = "A" => x >= 1) /\ (e[1] = "B" => x >= 2) /\ e[1] # "wish"
      /\ e[2] < draws /\ e[2] \in Nat /\ \A m \in Overheard : m[2] < e[2]
  <2>1. e[1] \in {"A", "B"} /\ e[2] < draws /\ \A m \in Overheard : m[2] < e[2]
    BY <1>3, <1>4 DEF Newer
  <2>2. (e[1] = "A" => x >= 1) /\ (e[1] = "B" => x >= 2)
    BY <1>2, <1>4 DEF Knows
  <2>3. e[2] \in Nat
    BY <1>4 DEF Drawing
  <2> QED BY <2>1, <2>2, <2>3
<1>6. /\ Overheard' = Overheard \cup {e}
      /\ heardAll' \in Seq(({"wish"} \X {"A", "B"}) \cup Drawing)
      /\ \A w : In(heardAll', w) <=> In(heardAll, w) \/ w = e
      /\ Len(heardAll) \in Nat
      /\ DOMAIN heardAll = 1 .. Len(heardAll) /\ DOMAIN heardAll' = 1 .. Len(heardAll) + 1
      /\ \A i \in 1 .. Len(heardAll) : heardAll'[i] = heardAll[i]
      /\ heardAll'[Len(heardAll) + 1] = e
  BY <1>1, <1>3, <1>4, <1>5, OverheardAppend
<1>7. \A m \in Overheard : m[2] \in Nat
  BY <1>3 DEF EspressoTyped, Overheard, Drawing
<1>8. Knows(x, p)'
  <2>1. IssuedWishes' = IssuedWishes
    BY <1>1 DEF IssuedWishes
  <2>2. \A i \in DOMAIN drawn' : (drawn'[i][1] = "A" => x >= 1) /\ (drawn'[i][1] = "B" => x >= 2)
    <3>1. \A i \in 1 .. Len(drawn) - 1 : i + 1 \in DOMAIN drawn
      BY <1>4
    <3> QED BY <1>2, <1>4, <3>1 DEF Knows
  <2>3. (x >= 1 => In(heardAll', <<"wish", "A">>)) /\ (x >= 2 => In(heardAll', <<"wish", "B">>))
    BY <1>2, <1>6 DEF Knows
  <2> QED BY <1>1, <1>2, <2>1, <2>2, <2>3 DEF Knows
<1>9. EspressoTyped'
  <2>1. served' \in Seq(Drawing)
    <3>1. Append(served, e) \in Seq(Drawing)
      BY <1>3, <1>4, AppendProperties
    <3> QED BY <1>1, <1>3, <3>1
  <2>2. \A i \in DOMAIN drawn' : drawn'[i][1] \in {"A", "B"}
    <3>1. \A i \in 1 .. Len(drawn) - 1 : i + 1 \in DOMAIN drawn
      BY <1>4
    <3> QED BY <1>3, <1>4, <3>1
  <2> QED BY <1>1, <1>3, <1>4, <1>6, <2>1, <2>2 DEF EspressoTyped
<1>10. Newer'
  <2>1. /\ InTurn(drawn) /\ \A i \in DOMAIN drawn : drawn[i][2] < draws
        /\ \A m \in Overheard : m[2] < draws /\ \A i \in DOMAIN drawn : m[2] < drawn[i][2]
    BY <1>3 DEF Newer
  <2>2. \A i \in DOMAIN drawn' : i + 1 \in DOMAIN drawn /\ drawn'[i] = drawn[i + 1]
    BY <1>4
  <2>3. InTurn(drawn')
    <3> SUFFICES ASSUME NEW i \in DOMAIN drawn', NEW j \in DOMAIN drawn', i < j,
                        drawn'[i][1] # "wish", drawn'[j][1] # "wish"
                 PROVE  drawn'[i][2] < drawn'[j][2]
      BY DEF InTurn
    <3>1. i + 1 < j + 1
      BY <1>4
    <3> QED BY <2>1, <2>2, <3>1 DEF InTurn
  <2>4. \A i \in DOMAIN drawn' : drawn'[i][2] < draws /\ \A m \in Overheard : m[2] < drawn'[i][2]
    BY <2>1, <2>2
  <2>5. ASSUME NEW i \in DOMAIN drawn' PROVE e[2] < drawn'[i][2]
    <3>1. 1 < i + 1 /\ i + 1 \in DOMAIN drawn /\ drawn'[i] = drawn[i + 1]
      BY <1>4, <2>2
    <3>2. drawn[1][1] # "wish" /\ drawn[i + 1][1] # "wish"
      BY <1>3, <1>4, <3>1
    <3> QED BY <1>4, <2>1, <3>1, <3>2 DEF InTurn
  <2> QED BY <1>1, <1>5, <1>6, <2>1, <2>3, <2>4, <2>5 DEF Newer
<1>11. InTurn(heardAll')
  <2> DEFINE E == ({"wish"} \X {"A", "B"}) \cup Drawing
  <2>1. e \in E /\ heardAll \in Seq(E)
    BY <1>3, <1>4 DEF EspressoTyped
  <2> HIDE DEF E
  <2>2. InTurn(heardAll)
    BY <1>3 DEF Relayed
  <2>3. \A i \in DOMAIN heardAll : heardAll[i][1] # "wish" => heardAll[i][2] < e[2]
    BY <1>5 DEF Overheard
  <2> QED BY <1>1, <2>1, <2>2, <2>3, InTurnAppend
<1>12. ASSUME NEW i \in DOMAIN heardAll', heardAll'[i][1] # "wish"
       PROVE  \E j \in 1 .. i - 1 : heardAll'[j] = <<"wish", heardAll'[i][1]>>
  <2>1. CASE i \in 1 .. Len(heardAll)
    <3>1. heardAll'[i] = heardAll[i]
      BY <1>6, <2>1
    <3>2. PICK j \in 1 .. i - 1 : heardAll[j] = <<"wish", heardAll[i][1]>>
      BY <1>3, <1>6, <1>12, <2>1, <3>1 DEF Relayed
    <3>3. heardAll'[j] = heardAll[j]
      BY <1>6, <2>1
    <3> QED BY <3>1, <3>2, <3>3
  <2>2. CASE i = Len(heardAll) + 1
    <3>1. In(heardAll, <<"wish", e[1]>>)
      <4>1. CASE e[1] = "A"
        BY <1>2, <1>5, <4>1 DEF Knows
      <4>2. CASE e[1] = "B"
        BY <1>2, <1>5, <4>2 DEF Knows
      <4> QED BY <1>5, <4>1, <4>2
    <3>2. PICK j \in DOMAIN heardAll : heardAll[j] = <<"wish", e[1]>>
      BY <3>1 DEF In
    <3>3. j \in 1 .. i - 1 /\ heardAll'[j] = heardAll[j] /\ heardAll'[i] = e
      BY <1>6, <2>2
    <3> QED BY <3>2, <3>3
  <2> QED BY <1>6, <2>1, <2>2
<1>13. /\ InTurn(Cup) /\ Tasted \subseteq Overheard
       /\ \A m \in Tasted : {o \in Overheard : o[2] < m[2]} \subseteq Tasted
       /\ subscriber # "left" => Tasted = Overheard
  BY <1>3 DEF Relayed
<1>14. CASE e[1] \in wanted /\ subscriber = "reads"
  <2>1. served' = Append(served, e)
    BY <1>1, <1>14
  <2>2. Cup' = Append(Cup, e)
    <3>1. drunk \o Append(served, e) = Append(drunk \o served, e)
      BY <1>3, JoinedAppend
    <3> QED BY <1>1, <2>1, <3>1 DEF Cup
  <2>3. Tasted = Overheard
    BY <1>13, <1>14
  <2>4. \A i \in DOMAIN Cup : Cup[i][2] < e[2]
    BY <1>5, <2>3 DEF Tasted
  <2>5. InTurn(Cup')
    BY <1>3, <1>4, <1>13, <2>2, <2>4, InTurnAppend
  <2>6. Tasted' = Tasted \cup {e}
    <3>1. /\ DOMAIN Cup = 1 .. Len(Cup) /\ Len(Cup) \in Nat /\ DOMAIN Append(Cup, e) = 1 .. Len(Cup) + 1
          /\ \A i \in 1 .. Len(Cup) : Append(Cup, e)[i] = Cup[i]
          /\ Append(Cup, e)[Len(Cup) + 1] = e
      BY <1>3, <1>4, AppendProperties, LenProperties
    <3>2. Tasted' = {Append(Cup, e)[i] : i \in DOMAIN Append(Cup, e)}
      BY <2>2 DEF Tasted
    <3>3. Tasted = {Cup[i] : i \in DOMAIN Cup}
      BY DEF Tasted
    <3> HIDE DEF Tasted, Cup
    <3> QED BY <3>1, <3>2, <3>3
  <2>7. Tasted' = Overheard'
    BY <1>6, <2>3, <2>6
  <2>8. \A m \in Tasted' : {o \in Overheard' : o[2] < m[2]} \subseteq Tasted'
    BY <2>7
  <2> QED BY <1>8, <1>9, <1>10, <1>11, <1>12, <2>5, <2>7, <2>8 DEF EspressoInv, Relayed
<1>15. CASE ~(e[1] \in wanted /\ subscriber = "reads")
  <2>1. served' = served
    BY <1>1, <1>15
  <2>2. Cup' = Cup
    BY <1>1, <2>1 DEF Cup
  <2>3. Tasted' = Tasted
    BY <2>2 DEF Tasted
  <2>4. subscriber = "left"
    <3>1. subscriber # "starts"
      <4>1. x >= 1
        BY <1>5
      <4>2. subscriber = "starts" => IssuedWishes = 0
        BY DEF IssuedWishes
      <4> QED BY <1>2, <4>1, <4>2 DEF Knows
    <3>2. ASSUME subscriber = "reads" PROVE FALSE
      <4>1. x \in 0 .. 2 /\ wanted = WantedAfter(x)
        BY <1>2, <3>2 DEF Knows, IssuedWishes
      <4>2. CASE e[1] = "A"
        BY <1>5, <1>15, <3>2, <4>1, <4>2 DEF WantedAfter
      <4>3. CASE e[1] = "B"
        BY <1>5, <1>15, <3>2, <4>1, <4>3 DEF WantedAfter
      <4> QED BY <1>5, <4>2, <4>3
    <3> QED BY <1>3, <3>1, <3>2
  <2>5. InTurn(Cup') /\ Tasted' \subseteq Overheard'
    BY <1>6, <1>13, <2>2, <2>3
  <2>6. ASSUME NEW m \in Tasted', NEW o \in Overheard', o[2] < m[2] PROVE o \in Tasted'
    <3>1. m \in Tasted /\ m \in Overheard /\ m[2] < e[2] /\ m[2] \in Nat
      BY <1>5, <1>7, <1>13, <2>3
    <3>2. o # e
      BY <1>5, <2>6, <3>1
    <3> QED BY <1>6, <1>13, <2>3, <2>6, <3>1, <3>2
  <2>7. subscriber' = "left"
    BY <1>1, <2>4
  <2> QED BY <1>8, <1>9, <1>10, <1>11, <1>12, <2>5, <2>6, <2>7 DEF EspressoInv, Relayed
<1> QED BY <1>14, <1>15

\* Every step of the publisher, the proxy and the subscriber keeps the invariant.
LEMMA EspressoStep == EspressoInv /\ [EspressoNext]_espressoVars => EspressoInv'
<1> SUFFICES ASSUME EspressoInv, [EspressoNext]_espressoVars PROVE EspressoInv'
  OBVIOUS
<1>1. CASE UNCHANGED espressoVars
  <2>1. UNCHANGED <<subscriber, wishes, wanted, relayed, published, draws, drawn, served, drunk, heardAll>>
    BY <1>1 DEF espressoVars
  <2>2. PICK x, p \in 0 .. 4 : Knows(x, p)
    BY DEF EspressoInv
  <2>3. Knows(x, p)'
    BY <2>1, <2>2 DEF Knows, IssuedWishes
  <2>4. EspressoTyped' /\ Newer' /\ Relayed'
    <3>1. subscriber' \in {"starts", "reads", "left"} /\ (subscriber' = "left" \/ subscriber # "left")
      BY <2>1, EspressoParts
    <3> QED BY <2>1, <3>1, OnlyWishes
  <2> QED BY <2>3, <2>4 DEF EspressoInv
<1> QED BY <1>1, SubscribeStep, DrinkStep, LeaveStep, DrawStep, HearWishStep, RelayWishStep, RelayDrawnStep
        DEF EspressoNext

\* What the listener has is what passed the proxy.
LEMMA EspressoMeans == EspressoInv => EspressoSound
<1> SUFFICES ASSUME EspressoInv PROVE EspressoSound
  OBVIOUS
<1>1. PICK x, p \in 0 .. 4 : Knows(x, p)
  BY DEF EspressoInv
<1>2. ASSUME NEW l \in published \ wanted PROVE \E i \in DOMAIN relayed : relayed[i].letter = l
  <2>1. x \in 0 .. 4 /\ p \in 0 .. x /\ wanted = WantedAfter(x) /\ published = WantedAfter(p)
    BY <1>1 DEF Knows, IssuedWishes
  <2>2. Len(relayed) = x - p /\ DOMAIN relayed = 1 .. x - p /\ \A i \in 1 .. x - p : relayed[i] = Asked[p + i]
    <3>1. Between(relayed, p, x)
      BY <1>1 DEF Knows
    <3> QED BY <3>1 DEF Between
  <2>3. Asked[3].letter = "A" /\ Asked[4].letter = "B"
    BY AskedIs, WishesAre
  <2>4. CASE l = "A"
    <3>1. p \in {1, 2} /\ x \in {3, 4}
      BY <1>2, <2>1, <2>4 DEF WantedAfter
    <3>2. 3 - p \in 1 .. x - p /\ p + (3 - p) = 3
      BY <3>1
    <3>3. relayed[3 - p] = Asked[3]
      BY <2>2, <3>2
    <3> QED BY <2>2, <2>3, <2>4, <3>2, <3>3
  <2>5. CASE l = "B"
    <3>1. p \in {2, 3} /\ x = 4
      BY <1>2, <2>1, <2>5 DEF WantedAfter
    <3>2. 4 - p \in 1 .. x - p /\ p + (4 - p) = 4
      BY <3>1
    <3>3. relayed[4 - p] = Asked[4]
      BY <2>2, <3>2
    <3> QED BY <2>2, <2>3, <2>5, <3>2, <3>3
  <2>6. l \in {"A", "B"}
    BY <2>1 DEF WantedAfter
  <2> QED BY <2>4, <2>5, <2>6
<1>3. published \ wanted \subseteq {relayed[i].letter : i \in DOMAIN relayed}
  BY <1>2
<1>4. Relayed
  BY DEF EspressoInv
<1> QED BY <1>3, <1>4 DEF EspressoSound, Relayed, Tasted, Cup

\* The subscriber of espresso reads, in order and without a gap, what the listener hears,
\* and no subscription is forgotten on its way to the publisher (espresso.c).
THEOREM AllIsOverheard == EspressoSpec => []EspressoSound
BY EspressoBegins, EspressoStep, EspressoMeans, PTL DEF EspressoSpec

----------------------------------------------------------------------------
(* That PatternsSound holds of the programs together: each of them moves by *)
(* its own steps and no other moves its variables.                          *)

ProgramsSpec == Init /\ [][Next]_programVars

PatternsInv ==
    /\ FileInv /\ RRInv /\ PushInv /\ FeedInv /\ EspressoInv /\ AsyncInv
    /\ program = "nom_test" => TestInv
    /\ program # "nom_test" => verdict = "runs"

\* Whatever program runs, a small program makes its own step or none.
LEMMA SmallSteps ==
    ASSUME [Next]_programVars
    PROVE  /\ [FileNext]_fileVars /\ [RRNext]_rrVars /\ [PushNext]_pushVars
           /\ [FeedNext]_feedVars /\ [EspressoNext]_espressoVars /\ [AsyncNext]_asyncVars
<1>1. CASE UNCHANGED programVars
  BY <1>1 DEF programVars
<1>2. CASE Next
  <2>1. [FileNext]_fileVars
    BY <1>2, Zenon DEF Next, Others
  <2>2. [RRNext]_rrVars
    BY <1>2, Zenon DEF Next, Others
  <2>3. [PushNext]_pushVars
    BY <1>2, Zenon DEF Next, Others
  <2>4. [FeedNext]_feedVars
    BY <1>2, Zenon DEF Next, Others
  <2>5. [EspressoNext]_espressoVars
    BY <1>2, Zenon DEF Next, Others
  <2>6. [AsyncNext]_asyncVars
    BY <1>2, Zenon DEF Next, Others
  <2> QED BY <2>1, <2>2, <2>3, <2>4, <2>5, <2>6
<1> QED BY <1>1, <1>2

\* The self-test drives the server that it started; of the other programs none has one.
LEMMA TestSteps ==
    ASSUME [Next]_programVars
    PROVE  /\ program' = program
           /\ program = "nom_test" => [TestNext]_testAllVars
           /\ program # "nom_test" => verdict' = verdict
<1>1. CASE UNCHANGED programVars
  BY <1>1 DEF programVars, testAllVars, testVars
<1>2. CASE Next
  <2>1. program' = program
    BY <1>2, Zenon DEF Next, Others
  <2>2. ASSUME program = "nom_test" PROVE TestNext
    BY <1>2, <2>2 DEF Next
  <2>3. ASSUME program # "nom_test" PROVE UNCHANGED testVars
    BY <1>2, <2>3, Zenon DEF Next, Others
  <2>4. UNCHANGED testVars => verdict' = verdict
    BY DEF testVars
  <2> QED BY <2>1, <2>2, <2>3, <2>4
<1> QED BY <1>1, <1>2

\* The invariant holds whichever program is started.
LEMMA PatternsBegin == Init => PatternsInv
<1> SUFFICES ASSUME Init PROVE PatternsInv
  OBVIOUS
<1>1. /\ FileInit /\ RRInit /\ PushInit /\ FeedInit /\ EspressoInit /\ AsyncInit /\ NomInit /\ TestInit
  BY DEF Init
<1>2. FileInv /\ RRInv /\ PushInv
  BY <1>1, FileBegins, RRBegins, PushBegins
<1>3. FeedInv /\ EspressoInv /\ AsyncInv
  BY <1>1, FeedBegins, EspressoBegins, AsyncBegins
<1>4. TestInv
  BY <1>1, TestBegins
<1>5. verdict = "runs"
  BY <1>1 DEF TestInit
<1> QED BY <1>2, <1>3, <1>4, <1>5 DEF PatternsInv

\* And every step of that program keeps it.
LEMMA PatternsStep == PatternsInv /\ [Next]_programVars => PatternsInv'
<1> SUFFICES ASSUME PatternsInv, [Next]_programVars PROVE PatternsInv'
  OBVIOUS
<1>1. FileInv' /\ RRInv' /\ PushInv'
  BY SmallSteps, FileStep, RRStep, PushStep DEF PatternsInv
<1>2. FeedInv' /\ EspressoInv' /\ AsyncInv'
  BY SmallSteps, FeedStep, EspressoStep, AsyncStep DEF PatternsInv
<1>3. ASSUME program = "nom_test" PROVE program' = "nom_test" /\ TestInv'
  BY <1>3, TestSteps, TestStep DEF PatternsInv
<1>4. ASSUME program # "nom_test" PROVE program' # "nom_test" /\ verdict' = "runs"
  BY <1>4, TestSteps DEF PatternsInv
<1> QED BY <1>1, <1>2, <1>3, <1>4 DEF PatternsInv

\* It says what the run checks; a test that never starts has no verdict.
LEMMA PatternsMean == PatternsInv => PatternsSound
<1> SUFFICES ASSUME PatternsInv PROVE PatternsSound
  OBVIOUS
<1>1. FileWhole /\ OneReply /\ BatchComplete
  BY FileMeans, RRMeans, PushMeans DEF PatternsInv
<1>2. FeedsSound /\ EspressoSound /\ AsyncSound
  BY FeedMeans, EspressoMeans, AsyncMeans DEF PatternsInv
<1>3. CASE program = "nom_test"
  BY <1>1, <1>2, <1>3, TestMeans DEF PatternsInv, PatternsSound
<1>4. CASE program # "nom_test"
  BY <1>1, <1>2, <1>4 DEF PatternsInv, PatternsSound, TestSound
<1> QED BY <1>3, <1>4

\* What the small programs of the repository are written to show they show, each for any
\* number of clients, workers, chunks, messages and letters: whichever program is started.
THEOREM PatternsAreSound == ProgramsSpec => []PatternsSound
BY PatternsBegin, PatternsStep, PatternsMean, PTL DEF ProgramsSpec


----------------------------------------------------------------------------
(* That a behaviour of Programs is one of each program's own, so that all   *)
(* that is proved of a program alone holds whichever of them is started.    *)

\* Whatever program runs, a larger program makes its own step or none.
LEMMA LargeSteps ==
    ASSUME [Next]_programVars
    PROVE  /\ [TitanicNext]_titanicVars /\ [ClusterNext]_clusterVars /\ [DiscoveryNext]_discoveryVars
           /\ [FireNext]_fireVars /\ [CppNext]_cppVars /\ [AppNext]_appVars /\ [PartedNext]_partedVars
<1>1. CASE UNCHANGED programVars
  BY <1>1 DEF programVars
<1>2. CASE Next
  <2>1. [TitanicNext]_titanicVars
    BY <1>2, Zenon DEF Next, Others
  <2>2. [ClusterNext]_clusterVars
    BY <1>2, Zenon DEF Next, Others
  <2>3. [DiscoveryNext]_discoveryVars
    BY <1>2, Zenon DEF Next, Others
  <2>4. [FireNext]_fireVars
    BY <1>2, Zenon DEF Next, Others
  <2>5. [CppNext]_cppVars
    BY <1>2, Zenon DEF Next, Others
  <2>6. [AppNext]_appVars
    BY <1>2, Zenon DEF Next, Others
  <2>7. [PartedNext]_partedVars
    BY <1>2, Zenon DEF Next, Others
  <2> QED BY <2>1, <2>2, <2>3, <2>4, <2>5, <2>6, <2>7
<1> QED BY <1>1, <1>2

\* Every program, seen alone, behaves as its own specification says: starting one of them
\* adds nothing to what another may do.
THEOREM EachItsOwn ==
    ProgramsSpec => /\ TitanicSpec /\ ClusterSpec /\ DiscoverySpec /\ FireSpec
                    /\ CppSpec /\ AppSpec /\ PartedSpec
<1>1. Init => /\ TitanicInit /\ ClusterInit /\ DiscoveryInit /\ FireInit
              /\ CppInit /\ AppInit /\ PartedInit
  BY DEF Init
<1> QED BY <1>1, LargeSteps, PTL
        DEF ProgramsSpec, TitanicSpec, ClusterSpec, DiscoverySpec, FireSpec, CppSpec, AppSpec, PartedSpec

\* The types of the NOM server, which has a caller of its own or its self-test.
NomServerTyped == NomTyped /\ NomPhases

\* Neither its caller's nor its self-test's steps leave the types.
LEMMA NomServerStep == PatternsInv /\ NomServerTyped /\ [Next]_programVars => NomServerTyped'
<1> SUFFICES ASSUME PatternsInv, NomServerTyped, [Next]_programVars PROVE NomServerTyped'
  OBVIOUS
<1>1. CASE program = "nom_test"
  <2>1. NomTyped'
    BY <1>1, TestSteps, TestStep DEF PatternsInv, TestInv
  <2>2. [TestNext]_testAllVars
    BY <1>1, TestSteps
  <2>3. [NomNext]_nomVars \/ UNCHANGED <<callerVars, bound, agent>>
    BY <2>2, Zenon DEF TestNext, testAllVars, nomVars, TestSend, TestReceive, TestTimeout, TestEnd, TestWake,
              TestTick, NomNext
  <2>4. CASE [NomNext]_nomVars
    BY <2>4, NomStep DEF NomServerTyped
  <2>5. CASE UNCHANGED <<callerVars, bound, agent>>
    BY <2>1, <2>5 DEF NomServerTyped, NomPhases, callerVars
  <2> QED BY <2>3, <2>4, <2>5
<1>2. CASE program # "nom_test"
  <2>1. [NomNext]_nomVars
    BY <1>2, Zenon DEF Next, Others, programVars
  <2> QED BY <2>1, NomStep DEF NomServerTyped
<1> QED BY <1>1, <1>2

\* The state of the larger programs has its types, for any number of clients, workers,
\* brokers and nodes, any bursts, expiries and crashes: whichever program is started.
THEOREM ProgramsTyped == ProgramsSpec => []TypeOK
<1>1. ProgramsSpec => [](TitanicTypeOK /\ ClusterTypeOK /\ DiscoveryTypeOK)
  BY EachItsOwn, TitanicTypes, ClusterTypes, DiscoveryTyped, PTL
<1>2. ProgramsSpec => [](FireTypeOK /\ CppTypeOK)
  BY EachItsOwn, FireTyped, CppIsSound, PTL
<1>3. Init => NomServerTyped
  BY NomBegins DEF Init, NomServerTyped
<1>4. ProgramsSpec => []NomServerTyped
  BY <1>3, PatternsBegin, PatternsStep, NomServerStep, PTL DEF ProgramsSpec
<1>5. TitanicTypeOK /\ ClusterTypeOK /\ DiscoveryTypeOK /\ FireTypeOK /\ CppTypeOK /\ NomServerTyped => TypeOK
  <2>1. NomServerTyped => NomTypeOK
    BY NomTypesAre DEF NomServerTyped
  <2> QED BY <2>1 DEF TypeOK
<1> QED BY <1>1, <1>2, <1>4, <1>5, PTL

\* What the larger programs promise they keep, whichever program is started: no request
\* is lost by Titanic or the cluster, no worker of a broker is listed twice or forgotten,
\* and the C++ broker, the application of the clone agent and the workers of peering serve
\* as they should (titanic.c, full_cluster.c, majordomo/mdbroker.cpp, clones/clone.c).
THEOREM ProgramsKeepTheirs ==
    ProgramsSpec => [](/\ Kept /\ Processed /\ NoFatalError
                       /\ TasksKept /\ WorkersListed
                       /\ CppSound /\ AppSound /\ PartedListed)
<1>1. ProgramsSpec => [](Kept /\ Processed /\ NoFatalError)
  BY EachItsOwn, ToldIsKept, MarkedIsAnswered, NoFatal, PTL
<1>2. ProgramsSpec => [](TasksKept /\ WorkersListed)
  BY EachItsOwn, TasksStayKept, WorkersStayListed, PTL
<1>3. ProgramsSpec => [](CppSound /\ AppSound /\ PartedListed)
  BY EachItsOwn, CppIsSound, ApplicationServed, PartedIsListed, PTL
<1> QED BY <1>1, <1>2, <1>3, PTL

=============================================================================
