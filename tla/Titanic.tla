------------------------------ MODULE Titanic ------------------------------
(***************************************************************************)
(* The disconnected service of TitanicPattern/titanic.c and its client     *)
(* ticlient.c.  The process has four threads: three Majordomo workers, for *)
(* titanic.request, titanic.reply and titanic.close, and the dispatcher,   *)
(* which throws requests at other services until one answers.  They share  *)
(* the files of a directory, and a pipe from the first to the last.        *)
(* A file is closed when its action ends, or else it is half written.      *)
(* The Majordomo broker between clients, Titanic and the services is a     *)
(* queue per service that keeps what nobody has taken.                     *)
(***************************************************************************)
EXTENDS Integers, Sequences, FiniteSets, SequencesExt

CONSTANTS Client,       \* processes that run ticlient
          Retries,      \* attempts of a call: the third field of mdcli_t
          MaxCrashes    \* BOUND: crashes of the process in a behaviour

ASSUME TitanicAssumption ==
    IsFiniteSet(Client) /\ Retries \in Nat \ {0} /\ MaxCrashes \in Nat

Service == {"request", "reply", "close"}

\* Every attempt of a titanic.request that arrives takes a uuid: there are enough for
\* all of them.
Uuid == 1 .. Cardinality(Client) * Retries
NoUuid == 0

VARIABLES calls,    \* service -> calls the broker holds: [client, uuid, live], where
                    \*            live is to say that the client waits for it
          thread,   \* service -> its thread: [at, call]
          req,      \* uuids whose .req file is there
          rep,      \* uuid -> its .rep file: "none", "half" or "whole"
          pipe,     \* uuids on their way to the dispatcher
          queue,    \* the file "queue": [uuid, mark]
          pos,      \* the entry the dispatcher is at, 0 while it polls
          step,     \* what it is about to do with that entry
          client,   \* client -> [at, try, uuid], see ticlient
          uuids,    \* uuids given so far
          crashes,
          acked,    \* uuids that clients have been told
          closed,   \* uuids that a client has asked to close
          dropped   \* uuids that were not yet in the queue at a crash

titanicVars == <<calls, thread, req, rep, pipe, queue, pos, step, client, uuids, crashes,
          acked, closed, dropped>>

files == <<req, rep>>
dispatcher == <<queue, pos, step>>
ghosts == <<acked, closed, dropped>>

Call == [client : Client, uuid : Uuid \cup {NoUuid}, live : BOOLEAN]
NoCall == [live |-> FALSE]
Idle == [at |-> "idle", call |-> NoCall]

TitanicInit ==
    /\ calls = [v \in Service |-> <<>>]
    /\ thread = [v \in Service |-> Idle]
    /\ req = {}
    /\ rep = [u \in Uuid |-> "none"]
    /\ pipe = <<>>
    /\ queue = <<>>
    /\ pos = 0
    /\ step = "look"
    /\ client = [c \in Client |-> [at |-> "start", try |-> 1, uuid |-> NoUuid]]
    /\ uuids = 0
    /\ crashes = 0
    /\ acked = {}
    /\ closed = {}
    /\ dropped = {}

TitanicTypeOK ==
    /\ calls \in [Service -> Seq(Call)]
    /\ thread \in [Service -> [at : {"idle", "saved", "piped", "load", "lookup", "delete"},
                               call : Call \cup {NoCall}]]
    /\ req \subseteq Uuid
    /\ rep \in [Uuid -> {"none", "half", "whole"}]
    /\ pipe \in Seq(Uuid)
    /\ queue \in Seq([uuid : Uuid, mark : {"-", "+"}])
    /\ pos \in 0 .. Len(queue)
    /\ step \in {"look", "call", "save", "close", "mark"}
    /\ client \in [Client -> [at : {"start", "done", "failed", "gone"} \cup Service,
                              try : 1 .. Retries, uuid : Uuid \cup {NoUuid}]]
    /\ uuids \in Uuid \cup {NoUuid}
    /\ crashes \in 0 .. MaxCrashes
    /\ acked \subseteq Uuid
    /\ closed \subseteq Uuid
    /\ dropped \subseteq Uuid

-----------------------------------------------------------------------------
\* ticlient, over mdcli_send of mdcliapi.c.

Calls(c, v, try, uuid) ==
    client' = [client EXCEPT ![c] = [at |-> v, try |-> try, uuid |-> uuid]]

\* What the broker holds once client c calls v with a socket to which nothing
\* else is owed.
Added(held, c, v, uuid) ==
    [held EXCEPT ![v] = Append(@, [client |-> c, uuid |-> uuid, live |-> TRUE])]

\* A call to which client c has closed its socket.
Orphaned(c, call) == IF call.live /\ call.client = c THEN [call EXCEPT !.live = FALSE]
                     ELSE call

\* main, 1: the request.
ClientStart(c) ==
    /\ client[c].at = "start"
    /\ Calls(c, "request", 1, NoUuid)
    /\ calls' = Added(calls, c, "request", NoUuid)
    /\ UNCHANGED <<thread, files, pipe, dispatcher, uuids, crashes, ghosts>>

\* A variant with a mistake: a client that gives up closes its request.
ClientTimeoutClosing(c) ==
    LET me   == client[c]
        held == [v \in Service |-> [i \in DOMAIN calls[v] |-> Orphaned(c, calls[v][i])]]
        v    == IF me.try < Retries \/ me.at # "reply" THEN me.at ELSE "close" IN
      /\ me.at \in Service
      /\ thread' = [w \in Service |-> [thread[w] EXCEPT !.call = Orphaned(c, @)]]
      /\ IF me.try < Retries \/ me.at = "reply"
         THEN /\ Calls(c, v, IF me.try < Retries THEN me.try + 1 ELSE 1, me.uuid)
              /\ calls' = Added(held, c, v, me.uuid)
         ELSE /\ client' = [client EXCEPT ![c].at = "gone"]
              /\ calls' = held
      /\ closed' = IF v = "close" THEN closed \cup {me.uuid} ELSE closed
      /\ UNCHANGED <<files, pipe, dispatcher, uuids, crashes, acked, dropped>>

\* mdcli_send: no reply in time, and another attempt on a new socket, or none
\* left: then s_service_call ends the process.
ClientTimeout(c) ==
    LET me   == client[c]
        held == [v \in Service |-> [i \in DOMAIN calls[v] |-> Orphaned(c, calls[v][i])]] IN
      /\ me.at \in Service
      /\ thread' = [v \in Service |-> [thread[v] EXCEPT !.call = Orphaned(c, @)]]
      /\ IF me.try < Retries
         THEN /\ Calls(c, me.at, me.try + 1, me.uuid)
              /\ calls' = Added(held, c, me.at, me.uuid)
         ELSE /\ client' = [client EXCEPT ![c].at = "gone"]
              /\ calls' = held
      /\ UNCHANGED <<files, pipe, dispatcher, uuids, crashes, ghosts>>

\* s_service_call and main on a reply: with the uuid the client asks for the
\* reply, with a reply it asks to close the request, pending makes it ask again,
\* and unknown is a fatal error.
Replied(v, held, code, uuid) ==
    LET call == thread[v].call
        c    == call.client IN
      CASE ~call.live ->
             calls' = held /\ UNCHANGED <<client, acked, closed>>
        [] call.live /\ code = "400" ->
             /\ client' = [client EXCEPT ![c].at = "failed"]
             /\ calls' = held
             /\ UNCHANGED <<acked, closed>>
        [] call.live /\ v = "close" ->
             /\ client' = [client EXCEPT ![c].at = "done"]
             /\ calls' = held
             /\ UNCHANGED <<acked, closed>>
        [] call.live /\ v = "reply" /\ code = "200" ->
             /\ Calls(c, "close", 1, uuid)
             /\ calls' = Added(held, c, "close", uuid)
             /\ closed' = closed \cup {uuid}
             /\ UNCHANGED acked
        [] OTHER ->
             /\ Calls(c, "reply", 1, uuid)
             /\ calls' = Added(held, c, "reply", uuid)
             /\ acked' = acked \cup {uuid}
             /\ UNCHANGED closed

-----------------------------------------------------------------------------
\* The threads that serve clients.

\* mdwrk_recv returns a call.
Takes(v, at, uuid) ==
    /\ thread[v].at = "idle"
    /\ calls[v] # <<>>
    /\ thread' = [thread EXCEPT ![v] =
         [at |-> at, call |-> [Head(calls[v]) EXCEPT !.uuid = IF @ = NoUuid THEN uuid ELSE @]]]
    /\ calls' = [calls EXCEPT ![v] = Tail(@)]

\* mdwrk_recv sends the reply.
Answers(v, code) ==
    /\ thread' = [thread EXCEPT ![v] = Idle]
    /\ Replied(v, calls, code, thread[v].call.uuid)
    /\ UNCHANGED <<pipe, dispatcher, uuids, crashes, dropped>>

\* titanic_request: the request is saved under a new uuid,
RequestSave ==
    /\ uuids + 1 \in Uuid
    /\ Takes("request", "saved", uuids + 1)
    /\ uuids' = uuids + 1
    /\ req' = req \cup {uuids + 1}
    /\ UNCHANGED <<rep, pipe, dispatcher, client, crashes, ghosts>>

\* the uuid is sent to the dispatcher,
RequestPipe ==
    /\ thread["request"].at = "saved"
    /\ thread' = [thread EXCEPT !["request"].at = "piped"]
    /\ pipe' = Append(pipe, thread["request"].call.uuid)
    /\ UNCHANGED <<calls, files, dispatcher, client, uuids, crashes, ghosts>>

\* and then to the client.
RequestAnswer ==
    /\ thread["request"].at = "piped"
    /\ Answers("request", "200")
    /\ UNCHANGED files

\* titanic_reply: is there a reply?
ReplyTest ==
    /\ thread["reply"].at = "idle"
    /\ calls["reply"] # <<>>
    /\ Takes("reply",
             IF rep[Head(calls["reply"]).uuid] # "none" THEN "load" ELSE "lookup", NoUuid)
    /\ UNCHANGED <<files, pipe, dispatcher, client, uuids, crashes, ghosts>>

\* Then it is loaded, as far as it is written.
ReplyLoad ==
    /\ thread["reply"].at = "load"
    /\ Answers("reply", "200")
    /\ UNCHANGED files

\* Else the request is pending, if there is one.
ReplyLookup ==
    /\ thread["reply"].at = "lookup"
    /\ Answers("reply", IF thread["reply"].call.uuid \in req THEN "300" ELSE "400")
    /\ UNCHANGED files

\* titanic_close: both files are deleted, one after the other.
CloseRequest ==
    /\ Takes("close", "delete", NoUuid)
    /\ req' = req \ {Head(calls["close"]).uuid}
    /\ UNCHANGED <<rep, pipe, dispatcher, client, uuids, crashes, ghosts>>

CloseReply ==
    /\ thread["close"].at = "delete"
    /\ rep' = [rep EXCEPT ![thread["close"].call.uuid] = "none"]
    /\ Answers("close", "200")
    /\ UNCHANGED req

-----------------------------------------------------------------------------
\* The dispatcher: main and s_service_success.

Entry == queue[pos]
AtEntry(what) == pos \in DOMAIN queue /\ step = what
Unmoved == UNCHANGED <<calls, thread, client, uuids, crashes, ghosts>>

\* A variant with a mistake: the end of the file is not noticed.
AdvancePast ==
    /\ pos' = pos + 1
    /\ step' = "look"

\* The next entry, or the end of the file and another poll.
Advance ==
    /\ pos' = IF pos < Len(queue) THEN pos + 1 ELSE 0
    /\ step' = "look"

\* A variant with a mistake: a poll that times out is not followed by a dispatch.
PollOnlyNew ==
    /\ pos = 0
    /\ IF pipe = <<>> THEN UNCHANGED <<queue, pipe, pos>>
       ELSE /\ queue' = Append(queue, [uuid |-> Head(pipe), mark |-> "-"])
            /\ pipe' = Tail(pipe)
            /\ pos' = 1
    /\ UNCHANGED step
    /\ UNCHANGED files
    /\ Unmoved

\* zmq_poll returns with a uuid, which joins the queue, or times out.
Poll ==
    /\ pos = 0
    /\ IF pipe = <<>> THEN UNCHANGED <<queue, pipe>>
       ELSE /\ queue' = Append(queue, [uuid |-> Head(pipe), mark |-> "-"])
            /\ pipe' = Tail(pipe)
    /\ pos' = IF queue' = <<>> THEN 0 ELSE 1
    /\ UNCHANGED step
    /\ UNCHANGED files
    /\ Unmoved

\* An entry that is processed is skipped; one whose request is closed will be
\* marked; another is looked up in the broker with mmi.service.
Look ==
    /\ AtEntry("look")
    /\ CASE Entry.mark = "+" -> Advance
         [] Entry.mark = "-" /\ Entry.uuid \notin req -> step' = "mark" /\ UNCHANGED pos
         [] OTHER -> step' = "call" /\ UNCHANGED pos
    /\ UNCHANGED <<files, pipe, queue>>
    /\ Unmoved

\* A variant with a mistake: one failed attempt is all there is.
NoAnswerFinal ==
    /\ AtEntry("call")
    /\ step' = "mark"
    /\ UNCHANGED <<files, pipe, queue, pos>>
    /\ Unmoved

\* mdcli_send: there is no such service, or no reply within its one attempt.
NoAnswer ==
    /\ AtEntry("call")
    /\ Advance
    /\ UNCHANGED <<files, pipe, queue>>
    /\ Unmoved

\* A variant with a mistake: the entry is marked before the reply is saved.
AnswerCameMarked ==
    /\ AtEntry("call")
    /\ step' = "save"
    /\ queue' = [queue EXCEPT ![pos].mark = "+"]
    /\ UNCHANGED <<files, pipe, pos>>
    /\ Unmoved

\* The reply has come.
AnswerCame ==
    /\ AtEntry("call")
    /\ step' = "save"
    /\ UNCHANGED <<files, pipe, queue, pos>>
    /\ Unmoved

\* The reply file is opened, and then written and closed.
OpenReply ==
    /\ AtEntry("save")
    /\ rep' = [rep EXCEPT ![Entry.uuid] = "half"]
    /\ step' = "close"
    /\ UNCHANGED <<req, pipe, queue, pos>>
    /\ Unmoved

\* A file that was deleted while it was open stays deleted.
SaveReply ==
    /\ AtEntry("close")
    /\ rep' = [rep EXCEPT ![Entry.uuid] = IF @ = "none" THEN "none" ELSE "whole"]
    /\ step' = "mark"
    /\ UNCHANGED <<req, pipe, queue, pos>>
    /\ Unmoved

Mark ==
    /\ AtEntry("mark")
    /\ queue' = [queue EXCEPT ![pos].mark = "+"]
    /\ Advance
    /\ UNCHANGED <<files, pipe>>
    /\ Unmoved

-----------------------------------------------------------------------------
\* The process ends and is started again: what is in files stays, what its
\* threads had taken is lost, and what was in the pipe.
Restarts ==
    /\ thread' = [v \in Service |-> Idle]
    /\ pipe' = <<>>
    /\ pos' = 0
    /\ step' = "look"
    /\ dropped' = dropped \cup ToSet(pipe)
         \cup IF thread["request"].at = "saved" THEN {thread["request"].call.uuid} ELSE {}
    /\ UNCHANGED <<calls, files, queue, client, uuids, acked, closed>>

Crash ==
    /\ crashes < MaxCrashes
    /\ crashes' = crashes + 1
    /\ Restarts

ClientNext(c) == ClientStart(c) \/ ClientTimeout(c)
RequestNext == RequestSave \/ RequestPipe \/ RequestAnswer
ReplyNext == ReplyTest \/ ReplyLoad \/ ReplyLookup
CloseNext == CloseRequest \/ CloseReply
DispatcherNext == Poll \/ Look \/ NoAnswer \/ AnswerCame \/ OpenReply \/ SaveReply \/ Mark

TitanicNext ==
    \/ \E c \in Client : ClientNext(c)
    \/ RequestNext \/ ReplyNext \/ CloseNext \/ DispatcherNext
    \/ Crash

-----------------------------------------------------------------------------
\* A client that was given a uuid can count on it, also across crashes: until
\* it closes the request, that is on disk, and there is a whole reply or the
\* request is still to be dispatched.  What a crash catches in the pipe is not
\* claimed: the client was told of a request that nobody will dispatch.
Kept ==
    \A u \in acked \ closed :
       /\ u \in req
       /\ \/ rep[u] = "whole"
          \/ u \in ToSet(pipe) \cup dropped
          \/ [uuid |-> u, mark |-> "-"] \in ToSet(queue)

\* A request is marked as processed only when its reply is whole, or when the
\* client has closed it, whenever the process dies in between.
Processed ==
    \A i \in DOMAIN queue :
       queue[i].mark = "+" => rep[queue[i].uuid] = "whole" \/ queue[i].uuid \in closed

\* Neither side meets what it takes for a fatal error.  No client is told that its
\* request is unknown (s_service_call of ticlient.c), not while it is saved, dispatched,
\* answered, or asked for twice; and titanic_reply's assert (file) holds
\* (titanic.c:116-121): between the test for the reply file and its opening nobody
\* deletes it, also when calls were retried and closed late.
NoFatalError ==
    /\ \A c \in Client : client[c].at # "failed"
    /\ thread["reply"].at = "load" => rep[thread["reply"].call.uuid] # "none"

\* The uuids that clients were given and that have no reply yet, those excepted
\* that the client closes or a crash caught in the pipe.
Undelivered == {u \in acked \ (closed \cup dropped) : rep[u] # "whole"}

=============================================================================
