------------------------------ MODULE MDPCodec ------------------------------
(***************************************************************************)
(* The generated codecs models/mdp_worker.c and models/mdp_client.c: an    *)
(* object is filled in by its setters, sent over a socket as frames, and   *)
(* made anew from the frames that a peer receives.  A frame is a name for  *)
(* its bytes; the peer may be of another make, or speak the other protocol.*)
(* Of the frame of an id the code reads the first byte, whatever follows.  *)
(* A frame of no bytes where the id belongs is not among what it sends:    *)
(* what the code reads of it is undefined.                                 *)
(***************************************************************************)
EXTENDS Integers, Sequences, SequencesExt

CONSTANTS Text,         \* what a field can hold
          Sender,       \* an address, as a ROUTER gives it to a peer
          Unset         \* a field that was not set

ASSUME CodecAssumption == Unset \notin Text \cup {Sender}

Empty == "empty frame"
Protocol == {"MDPW01", "MDPC01"}
Id == {"READY", "REQUEST", "REPLY", "HEARBEAT", "DISCONNECT"}

\* Frames that begin with the byte of an id and go on.  A field may hold one.
AndMore == [READY |-> "READY and more", REQUEST |-> "REQUEST and more",
           REPLY |-> "REPLY and more", HEARBEAT |-> "HEARBEAT and more",
           DISCONNECT |-> "DISCONNECT and more"]
Begins(frame, id) == frame \in {id, AndMore[id]}

\* The fields of a message, in the order of its frames.
WorkerFields(id) ==
    CASE id = "READY" -> <<"service">>
      [] id \in {"REQUEST", "REPLY"} -> <<"client", "body">>
      [] OTHER -> <<>>

ClientFields == <<"service", "body">>

VARIABLES object,       \* the sender's object
          codecAt,      \* where the exchange is
          wire,         \* the frames as the receiver's socket gives them
          result        \* the receiver's object

codecVars == <<object, codecAt, wire, result>>

\* mdp_worker_new, mdp_client_new: the fields are zero.
Blank(protocol, id) ==
    [protocol |-> protocol, id |-> id, address |-> Unset, service |-> Unset,
     client |-> Unset, body |-> Unset]

CodecInit ==
    /\ object \in {Blank("MDPW01", id) : id \in Id} \cup {Blank("MDPC01", Unset)}
    /\ codecAt = "setting"
    /\ wire = <<>>
    /\ result = Unset

Header(o) == IF o.protocol = "MDPW01" THEN <<Empty, "MDPW01", o.id>> ELSE <<Empty, "MDPC01">>
FieldsOf(o) == IF o.protocol = "MDPW01" THEN WorkerFields(o.id) ELSE ClientFields
FramesOf(o) == Header(o) \o [i \in DOMAIN FieldsOf(o) |-> o[FieldsOf(o)[i]]]

----------------------------------------------------------------------------
(* The sender. *)

\* mdp_worker_service_set and the like.  A field that the message does not have is
\* not sent, and left out here.
SetService ==
    /\ codecAt = "setting" /\ "service" \in ToSet(FieldsOf(object))
    /\ \E t \in Text : object' = [object EXCEPT !.service = t]
    /\ UNCHANGED <<codecAt, wire, result>>

SetClient ==
    /\ codecAt = "setting" /\ "client" \in ToSet(FieldsOf(object))
    /\ \E t \in Text : object' = [object EXCEPT !.client = t]
    /\ UNCHANGED <<codecAt, wire, result>>

SetBody ==
    /\ codecAt = "setting" /\ "body" \in ToSet(FieldsOf(object))
    /\ \E t \in Text : object' = [object EXCEPT !.body = t]
    /\ UNCHANGED <<codecAt, wire, result>>

SetAddress ==
    /\ codecAt = "setting"
    /\ object' = [object EXCEPT !.address = Sender]
    /\ UNCHANGED <<codecAt, wire, result>>

Complete(o) == \A i \in DOMAIN FieldsOf(o) : o[FieldsOf(o)[i]] # Unset

\* mdp_worker_send, mdp_client_send: over a ROUTER the address goes first, and the
\* socket takes it off; what is not set ends the process.  A ROUTER that receives
\* puts the sender's address before what was sent.
CodecSend(type, peer) ==
    /\ codecAt = "setting"
    /\ IF (type = "ROUTER" => object.address # Unset) /\ Complete(object)
       THEN /\ codecAt' = "sent"
            /\ wire' = IF peer = "ROUTER" THEN <<Sender>> \o FramesOf(object) ELSE FramesOf(object)
       ELSE codecAt' = "aborted" /\ UNCHANGED wire
    /\ UNCHANGED <<object, result>>

\* The peer has another frame in one place, or none, or one more at the end.
OtherPeer ==
    /\ codecAt = "sent"
    /\ \/ \E i \in DOMAIN wire : wire' = RemoveAt(wire, i)
       \/ \E i \in DOMAIN wire, f \in {Sender} \cup Protocol \cup Id \cup {AndMore[id] : id \in Id} :
             wire' = [wire EXCEPT ![i] = f]
       \/ wire' = Append(wire, Empty)
    /\ codecAt' = "foreign"
    /\ UNCHANGED <<object, result>>

----------------------------------------------------------------------------
(* The receiver. *)

\* The fields are popped one after the other; what follows is not looked at.
Popped(o, frames, fields) ==
    IF Len(frames) < Len(fields) THEN Unset
    ELSE [f \in DOMAIN o |-> IF f \in ToSet(fields)
                             THEN frames[CHOOSE i \in DOMAIN fields : fields[i] = f] ELSE o[f]]

\* mdp_worker_recv from the switch on the id.
Body(frames, address, id) ==
    Popped([Blank("MDPW01", id) EXCEPT !.address = address],
           SubSeq(frames, 4, Len(frames)), WorkerFields(id))

\* Plausible bug: the protocol frame is popped and not compared.
WorkerParseAny(frames, address) ==
    IF Len(frames) >= 3 /\ frames[1] = Empty /\ \E id \in Id : Begins(frames[3], id)
    THEN Body(frames, address, CHOOSE id \in Id : Begins(frames[3], id))
    ELSE Unset

\* mdp_worker_recv after the address.
WorkerParse(frames, address) ==
    IF /\ Len(frames) >= 3
       /\ frames[1] = Empty
       /\ frames[2] = "MDPW01"
       /\ \E id \in Id : Begins(frames[3], id)
    THEN Body(frames, address, CHOOSE id \in Id : Begins(frames[3], id))
    ELSE Unset

\* mdp_client_recv after the address.
ClientParse(frames, address) ==
    IF Len(frames) >= 2 /\ frames[1] = Empty /\ frames[2] = "MDPC01"
    THEN Popped([Blank("MDPC01", Unset) EXCEPT !.address = address],
                SubSeq(frames, 3, Len(frames)), ClientFields)
    ELSE Unset

CodecRecv(type, protocol) ==
    LET routed  == type = "ROUTER"
        address == IF routed THEN Head(wire) ELSE Unset
        frames  == IF routed THEN Tail(wire) ELSE wire
    IN  /\ codecAt \in {"sent", "foreign"}
        /\ wire # <<>>
        /\ codecAt = "sent" => routed = (wire[1] # Empty)
        /\ result' = IF protocol = "MDPW01" THEN WorkerParse(frames, address)
                     ELSE ClientParse(frames, address)
        /\ codecAt' = IF codecAt = "sent" /\ protocol = object.protocol THEN "received" ELSE "parsed"
        /\ UNCHANGED <<object, wire>>

\* The messages in the order of mdp_worker_test.
TestOrder == <<"READY", "REQUEST", "REPLY", "HEARBEAT", "DISCONNECT">>

\* mdp_worker_test and mdp_client_test, where a DEALER sends to a ROUTER: the message is
\* looked at and destroyed, the sockets are kept, and the next one is made.  Their
\* assertions are a part of RoundTrip.
TestGoesOn ==
    /\ codecAt = "received" /\ wire[1] = Sender /\ result # Unset
    /\ \/ /\ object.id \in {Unset, Last(TestOrder)}
          /\ codecAt' = "OK"
          /\ UNCHANGED <<object, wire, result>>
       \/ \E k \in 1 .. Len(TestOrder) - 1 :
             /\ object.id = TestOrder[k]
             /\ object' = Blank("MDPW01", TestOrder[k + 1])
             /\ codecAt' = "setting" /\ wire' = <<>> /\ result' = Unset

CodecNext ==
    \/ SetService \/ SetClient \/ SetBody \/ SetAddress \/ TestGoesOn
    \/ \E type, peer \in {"ROUTER", "DEALER"} : CodecSend(type, peer)
    \/ OtherPeer
    \/ \E type \in {"ROUTER", "DEALER"}, protocol \in Protocol : CodecRecv(type, protocol)

----------------------------------------------------------------------------
(* Properties. *)

\* What one codec sends the same codec reads as it was set; and of what other peers
\* and the other codec send, a message is accepted only if it would be sent as these
\* frames, up to what is not looked at: frames at the end, and what follows the first
\* byte in the frame of the id (mdp_worker.c:60-141, 147-192).
RoundTrip ==
    /\ codecAt = "received" => result # Unset /\ FramesOf(result) = FramesOf(object)
    /\ codecAt \in {"received", "parsed"} /\ result # Unset =>
         LET frames == IF result.address # Unset THEN Tail(wire) ELSE wire
             seen   == IF result.protocol = "MDPW01" /\ Begins(frames[3], result.id)
                       THEN [frames EXCEPT ![3] = result.id] ELSE frames
         IN  IsPrefix(FramesOf(result), seen) /\ Complete(result)

=============================================================================
