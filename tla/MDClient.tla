------------------------------ MODULE MDClient ------------------------------
(***************************************************************************)
(* A Majordomo client: an application that makes its calls one after the   *)
(* other through mdcli_send of MMI/mdcliapi.c.  A call sends its request,  *)
(* waits for a reply, and on a timeout opens a new socket and sends again, *)
(* until its retries are used up.  The REQ socket accepts a send only when *)
(* no reply is outstanding on it; mdcli_send ignores the refusal.          *)
(***************************************************************************)
EXTENDS MDNet

CONSTANTS Retries,       \* mdcli_set_retries
          KeepSession    \* whether an application goes on using a session
                         \* after mdcli_send returned NULL

ASSUME ClientAssumption ==
    /\ Retries \in Nat \ {0}
    /\ KeepSession \in BOOLEAN

VARIABLES clientPc,      \* "idle", "waiting" in mdcli_send, "failed" after NULL,
                         \* "aborted" by an assertion
          call,          \* the current or the next request of the client
          retriesLeft,
          outstanding,   \* the REQ socket owes its owner a reply
          calls          \* calls made so far, the tag of the latest

clientVars == <<clientPc, call, retriesLeft, outstanding, calls>>

Calls == Call \cup MmiCall
NoCall == [cmd |-> "NONE"]

ClientInit ==
    /\ clientPc = [c \in Client |-> "idle"]
    /\ call = [c \in Client |-> NoCall]
    /\ retriesLeft = [c \in Client |-> 0]
    /\ outstanding = [c \in Client |-> FALSE]
    /\ calls = [c \in Client |-> 0]

ClientTypeOK ==
    /\ clientPc \in [Client -> {"idle", "waiting", "failed", "aborted"}]
    /\ call \in [Client -> Calls \cup {NoCall}]
    /\ retriesLeft \in [Client -> 0 .. Retries]
    /\ outstanding \in [Client -> BOOLEAN]
    /\ calls \in [Client -> 0 .. MaxCalls]

-----------------------------------------------------------------------------
\* The calls an application may make next: of a service, or to mmi.service.
NextCalls(c) ==
    [cmd : {"CALL"}, svc : Service, tag : {calls[c] + 1}] \cup MmiCall

\* mdcli_send up to its first poll.
ClientCall(c) ==
    /\ clientPc[c] = "idle" \/ (KeepSession /\ clientPc[c] = "failed")
    /\ calls[c] < MaxCalls
    /\ \E m \in NextCalls(c) :
         /\ call' = [call EXCEPT ![c] = m]
         /\ IF outstanding[c] THEN UNCHANGED toBroker ELSE Send(c, m)
    /\ calls' = [calls EXCEPT ![c] = @ + 1]
    /\ retriesLeft' = [retriesLeft EXCEPT ![c] = Retries]
    /\ outstanding' = [outstanding EXCEPT ![c] = TRUE]
    /\ clientPc' = [clientPc EXCEPT ![c] = "waiting"]
    /\ UNCHANGED <<session, open, toPeer>>

\* A reply: it is returned if it names the service called, else the assertion
\* on the service name ends the process.
ClientReply(c) ==
    /\ clientPc[c] = "waiting"
    /\ Inbox(c) # <<>>
    /\ Take(c)
    /\ outstanding' = [outstanding EXCEPT ![c] = FALSE]
    /\ clientPc' = [clientPc EXCEPT ![c] =
         IF Head(Inbox(c)).svc = call[c].svc THEN "idle" ELSE "aborted"]
    /\ UNCHANGED <<session, open, toBroker, call, retriesLeft, calls>>

\* A variant of ClientRetry with a mistake: the REQ socket is kept and made to
\* send again, so a reply to an earlier attempt can still arrive on it.
ClientRetrySameSocket(c) ==
    /\ clientPc[c] = "waiting"
    /\ retriesLeft[c] > 1
    /\ retriesLeft' = [retriesLeft EXCEPT ![c] = @ - 1]
    /\ Send(c, call[c])
    /\ UNCHANGED <<session, open, toPeer, clientPc, call, outstanding, calls>>

\* No reply in time: a new socket, and the request again.
ClientRetry(c) ==
    /\ clientPc[c] = "waiting"
    /\ retriesLeft[c] > 1
    /\ retriesLeft' = [retriesLeft EXCEPT ![c] = @ - 1]
    /\ Reopen(c, call[c])
    /\ outstanding' = [outstanding EXCEPT ![c] = TRUE]
    /\ UNCHANGED <<clientPc, call, calls>>

\* No reply to the last attempt: NULL, and the socket stays as it is.
ClientAbandon(c) ==
    /\ clientPc[c] = "waiting"
    /\ retriesLeft[c] = 1
    /\ retriesLeft' = [retriesLeft EXCEPT ![c] = 0]
    /\ clientPc' = [clientPc EXCEPT ![c] = "failed"]
    /\ UNCHANGED <<netVars, call, outstanding, calls>>

ClientNext(c) ==
    \/ ClientCall(c)
    \/ ClientReply(c)
    \/ ClientRetry(c)
    \/ ClientAbandon(c)

=============================================================================
