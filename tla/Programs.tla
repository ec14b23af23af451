------------------------------ MODULE Programs ------------------------------
(***************************************************************************)
(* The programs of the repository that stand alone, each a system of its   *)
(* own: a behaviour is one of them, and the others never start.            *)
(***************************************************************************)
EXTENDS Titanic, FullCluster, NomServer, Discovery, RouterToReq, MajordomoCpp, MDPCodec, ZMsg,
        KVMessage, CloneApp, FileTransfer, RequestReply, PushPull, Feeds, Parted,
        AsyncClient, StateFlow

VARIABLE program

Programs ==
    {"titanic", "full_cluster", "nom_server", "interface", "router2request", "majordomo",
     "mdp_codec", "zmsg", "kvmsg", "clone", "fileIO", "request_reply", "ventilator", "feeds",
     "espresso", "parted", "nom_test", "mdclient2", "state_flow"}

programVars ==
    <<program, titanicVars, clusterVars, nomVars, discoveryVars, fireVars, cppVars, codecVars, zmsgVars,
      kvVars, appVars, fileVars, rrVars, pushVars, feedVars, espressoVars, partedVars, testVars, asyncVars, flowVars>>

Init ==
    /\ program \in Programs
    /\ TitanicInit /\ ClusterInit /\ NomInit /\ DiscoveryInit /\ FireInit /\ CppInit
    /\ AppInit /\ PushInit /\ EspressoInit /\ PartedInit
    /\ TestInit /\ AsyncInit /\ FlowInit
    \* One initial state for the programs that do not run.
    /\ CodecInit /\ (program # "mdp_codec" => object = Blank("MDPC01", Unset))
    /\ ZmsgInit /\ (program # "zmsg" => returnTo = "text")
    /\ KVInit /\ (program # "kvmsg" => frames = <<>> /\ message = New(Max(Sequence)))
    /\ FileInit /\ (program # "fileIO" => file = Max(FileSizes))
    /\ RRInit /\ (program # "request_reply" => setup = "hello_server")
    /\ FeedInit /\ (program # "feeds" => reader = BangaloreSub)

\* The programs that were not started.
Others(p) ==
    /\ UNCHANGED program
    /\ IF p = "titanic" THEN TRUE ELSE UNCHANGED titanicVars
    /\ IF p = "full_cluster" THEN TRUE ELSE UNCHANGED clusterVars
    /\ IF p \in {"nom_server", "nom_test"} THEN TRUE ELSE UNCHANGED nomVars
    /\ IF p = "interface" THEN TRUE ELSE UNCHANGED discoveryVars
    /\ IF p = "router2request" THEN TRUE ELSE UNCHANGED fireVars
    /\ IF p = "majordomo" THEN TRUE ELSE UNCHANGED cppVars
    /\ IF p = "mdp_codec" THEN TRUE ELSE UNCHANGED codecVars
    /\ IF p = "zmsg" THEN TRUE ELSE UNCHANGED zmsgVars
    /\ IF p = "kvmsg" THEN TRUE ELSE UNCHANGED kvVars
    /\ IF p = "clone" THEN TRUE ELSE UNCHANGED appVars
    /\ IF p = "fileIO" THEN TRUE ELSE UNCHANGED fileVars
    /\ IF p = "request_reply" THEN TRUE ELSE UNCHANGED rrVars
    /\ IF p = "ventilator" THEN TRUE ELSE UNCHANGED pushVars
    /\ IF p = "feeds" THEN TRUE ELSE UNCHANGED feedVars
    /\ IF p = "espresso" THEN TRUE ELSE UNCHANGED espressoVars
    /\ IF p = "parted" THEN TRUE ELSE UNCHANGED partedVars
    /\ IF p = "nom_test" THEN TRUE ELSE UNCHANGED testVars
    /\ IF p = "mdclient2" THEN TRUE ELSE UNCHANGED asyncVars
    /\ IF p = "state_flow" THEN TRUE ELSE UNCHANGED flowVars

Next ==
    \/ program = "titanic" /\ TitanicNext /\ Others("titanic")
    \/ program = "full_cluster" /\ ClusterNext /\ Others("full_cluster")
    \/ program = "nom_server" /\ NomNext /\ Others("nom_server")
    \/ program = "interface" /\ DiscoveryNext /\ Others("interface")
    \/ program = "router2request" /\ FireNext /\ Others("router2request")
    \/ program = "majordomo" /\ CppNext /\ Others("majordomo")
    \/ program = "mdp_codec" /\ CodecNext /\ Others("mdp_codec")
    \/ program = "zmsg" /\ ZmsgNext /\ Others("zmsg")
    \/ program = "kvmsg" /\ KVNext /\ Others("kvmsg")
    \/ program = "clone" /\ AppNext /\ Others("clone")
    \/ program = "fileIO" /\ FileNext /\ Others("fileIO")
    \/ program = "request_reply" /\ RRNext /\ Others("request_reply")
    \/ program = "ventilator" /\ PushNext /\ Others("ventilator")
    \/ program = "feeds" /\ FeedNext /\ Others("feeds")
    \/ program = "espresso" /\ EspressoNext /\ Others("espresso")
    \/ program = "parted" /\ PartedNext /\ Others("parted")
    \/ program = "nom_test" /\ TestNext /\ Others("nom_test")
    \/ program = "mdclient2" /\ AsyncNext /\ Others("mdclient2")
    \/ program = "state_flow" /\ FlowNext /\ Others("state_flow")

----------------------------------------------------------------------------
(* Fairness: the threads and the loops run, their polls return and time    *)
(* passes, in the program that was started.  No client has to send, and no *)
(* user has to press a key.                                                *)

\* The state of the program that was started, for those whose fairness is stated.
own ==
    CASE program = "titanic"        -> titanicVars
      [] program = "full_cluster"   -> clusterVars
      [] program = "nom_server"     -> nomVars
      [] program = "router2request" -> fireVars
      [] program = "request_reply"  -> rrVars
      [] program = "ventilator"     -> pushVars
      [] program = "feeds"          -> feedVars
      [] program = "espresso"       -> espressoVars
      [] program = "mdclient2"      -> asyncVars
      [] program = "state_flow"     -> flowVars
      [] OTHER                      -> <<>>

\* The main loop of a program.
MainLoop ==
    \/ program = "titanic" /\ DispatcherNext
    \/ program = "nom_server" /\ EnterPoll
    \/ program = "router2request" /\ (Encourage \/ Fire)
    \/ program = "request_reply" /\ (PollBoth \/ Forward \/ Back)
    \/ program = "ventilator" /\ Distribute
    \/ program = "feeds" /\ (RecvOne \/ PollAll \/ HearReady)
    \/ program = "espresso" /\ (RelayWish \/ RelayDrawn)
    \/ program = "mdclient2" /\ AsyncProgram

\* Another thread, the end of a poll, or of a time that the loop waits for.
OtherLoop ==
    \/ program = "nom_server" /\ Wake
    \/ program = "router2request" /\ TimeUp
    \/ program = "ventilator" /\ Confirm
    \/ program = "espresso" /\ HearWish
    \/ program = "mdclient2" /\ BrokerReads

\* The workers of router2request run until the broker ends the process.
WorkerLoop(w) ==
    \/ program = "full_cluster" /\ w \in ClusterWorker /\ WorkerSend(w)
    \/ program = "router2request" /\ w \in Hand /\ ~home /\ (Ask(w) \/ Obey(w) \/ Work(w))
    \/ program = "request_reply" /\ w \in Responder /\ (Respond(w) \/ Serve(w))
    \/ program = "ventilator" /\ w \in Puller /\ (TakeTask(w) \/ SendResult(w))

ClientLoop(c) ==
    \/ program = "full_cluster" /\ c \in ClusterClient /\ ClientReceive(c)
    \/ program = "request_reply" /\ c \in Asker /\ (Hello(c) \/ World(c))

BrokerLoop(b) ==
    \/ program = "full_cluster" /\ b \in Broker /\ BrokerStep(b)
    \/ program = "state_flow" /\ b \in Flow /\ FlowStep(b)

\* A service that Titanic asks again and again answers.
FairSpec ==
    /\ Init /\ [][Next]_programVars
    /\ WF_own(UNCHANGED program /\ MainLoop)
    /\ WF_own(UNCHANGED program /\ OtherLoop)
    /\ WF_own(UNCHANGED program /\ program = "nom_server" /\ NomTick)
    /\ \A w \in ClusterWorker \cup Hand \cup Responder \cup Puller : WF_own(UNCHANGED program /\ WorkerLoop(w))
    /\ \A c \in ClusterClient \cup Asker : WF_own(UNCHANGED program /\ ClientLoop(c))
    /\ \A b \in Broker \cup Flow : WF_own(UNCHANGED program /\ BrokerLoop(b))
    /\ \A u \in Uuid : SF_own(UNCHANGED program /\ program = "titanic" /\ AnswerCame /\ Entry.uuid = u)

----------------------------------------------------------------------------
(* Properties. *)

\* The types of the larger programs' state, and of what their messages can say.
TypeOK ==
    CASE program = "titanic"                    -> TitanicTypeOK
      [] program = "full_cluster"               -> ClusterTypeOK
      [] program \in {"nom_server", "nom_test"} -> NomTypeOK
      [] program = "interface"                  -> DiscoveryTypeOK
      [] program = "router2request"             -> FireTypeOK
      [] program = "majordomo"                  -> CppTypeOK
      [] OTHER                                  -> TRUE

\* What is sent is what is read: the generated codecs of the Majordomo protocol read
\* their own messages and none of another make (models/mdp_worker.c, mdp_client.c), the
\* C++ messages keep the address and the parts they wrap (majordomo/zmsg.hpp), and a
\* key-value message arrives whole after any other frames (clones/kvmsg.c).
CodecsAgree == RoundTrip /\ EnvelopeKept /\ MessageWhole

\* What the small programs are written to show: a file comes over whole, chunk by chunk
\* (file/fileIO.c), every request has the one reply that answers it, through either
\* broker, a batch ends when all its tasks are done, readers hear what they take in order
\* though they read two sockets, a proxy copies all that passes it, an asynchronous
\* client counts no reply twice (MMI/mdcliapi2.c), and the self-test of a server that is in
\* time fails only when it is slow itself (models/nom_server.c).
PatternsSound ==
    /\ FileWhole /\ OneReply /\ BatchComplete /\ FeedsSound /\ EspressoSound
    /\ AsyncSound /\ TestSound

Owed ==
    CASE program = "titanic"        -> Undelivered
      [] program = "full_cluster"   -> Unanswered
      [] program = "nom_server"     -> Overdue
      [] program = "router2request" -> Undismissed
      [] program = "request_reply"  -> Unfinished
      [] program = "ventilator"     -> IF entered /\ linked # {} /\ ~BatchEnd THEN {"batch"} ELSE {}
      [] program = "feeds"          -> Unheard
      [] program = "espresso"       -> Stale
      [] program = "mdclient2"      -> Unended
      [] program = "state_flow"     -> Unfed
      [] OTHER                      -> {}

\* What a program owes it gives at last, all of it at one time.
\* Titanic: every request a client was given a uuid for has a whole reply on disk,
\* though the process dies and the dispatcher starts the queue again.
\* Full cluster: requests that were not sent to an unconnected peer are answered,
\* though a broker without an idle worker polls its clients only between two replies
\* and without a timeout, and sends requests by a capacity that is out of date
\* (full_cluster.c:183-191, 240, 254-271).
\* NOM server: the clients of an agent that polls by its timer hear their heartbeats.
\* Router to REQ: the broker leaves its loop, by a count of the workers it fired, and
\* with no worker left that waits for ever (router2request.c:61-83).
\* Request-reply: every client comes to the end of its loop.  Ventilator: the sink comes
\* to the end of the batch once a worker has connected.  Readers of two sockets: neither
\* starves the other.  Espresso: no subscription outlives its subscriber.  Asynchronous
\* client: it comes to its end, though a full pipe blocks it (mdclient2.c:13-25).  State
\* flow: a broker that waits for the second half of what it takes for a message gets it,
\* unless all of them wait (state-flow-prototype.c:55-66).
Served == Owed # {} ~> Owed = {}

=============================================================================
