------------------------------ MODULE KVMessage ------------------------------
(***************************************************************************)
(* The class of clones/kvmsg.c with its frames: a message is made, filled  *)
(* in, sent as five frames and read again, after frames of another sender  *)
(* that are no message of five.  Where KVMsg has what the servers and the  *)
(* agent need of a message, this module has how its parts are kept.        *)
(* The 64 bits of a sequence number are Digits digits of one byte, and a   *)
(* byte has Base values.                                                   *)
(***************************************************************************)
EXTENDS Integers, Sequences, SequencesExt, FiniteSetsExt

CONSTANTS Base, Digits,
          Sequence,     \* the sequence numbers that are set
          Bogus,        \* lengths of multipart messages that come before
          MaxProps      \* bound on the properties that are set

ASSUME KVMessageAssumption ==
    /\ Base \in Nat \ {0, 1} /\ Base % 2 = 0 /\ Digits \in Nat \ {0}
    /\ Sequence \subseteq -(Base ^ Digits \div 2) .. Base ^ Digits \div 2 - 1
    /\ Bogus \subseteq Nat /\ MaxProps \in Nat

Absent == "absent"
KeyText == {"k1", "k2"}
PropName == {"ttl", "tt"}
PropValue == {"", "v"}

VARIABLES message,      \* the object of the sender
          frames,       \* the frames in the socket, each with whether more follow
          read,         \* the objects the receiver has got
          posted        \* ghost: the object as it was sent, once it was

kvVars == <<message, frames, read, posted>>

\* Most significant byte first; two's complement both ways.
Encode(n) == [i \in 1 .. Digits |-> ((n % Base ^ Digits) \div Base ^ (Digits - i)) % Base]
Decode(bytes) ==
    LET unsigned == FoldLeft(LAMBDA n, byte : n * Base + byte, 0, bytes)
    IN  IF 2 * unsigned >= Base ^ Digits THEN unsigned - Base ^ Digits ELSE unsigned

\* kvmsg_new: the key that was copied is empty, there are no properties.
New(n) == [key |-> Absent, copied |-> "", sequence |-> Encode(n), uuid |-> Absent,
           body |-> Absent, props |-> <<>>, size |-> 0]

PropSize(p) == (IF p.name = "ttl" THEN 3 ELSE 2) + (IF p.value = "v" THEN 1 ELSE 0) + 1 + 1
PropsSize(props) == FoldLeft(LAMBDA n, p : n + PropSize(p), 0, props)

\* s_encode_props copies every property into a frame of props_size bytes.  Where that
\* is too small, it writes past the frame, which is undefined: the receiver finds some
\* of the lines, or bytes that are none of them; or see Overrun.
Sized(o) == o.size = PropsSize(o.props)
Garbled == <<[name |-> "tt", value |-> "?"]>>
PropsFrames(o) ==
    IF Sized(o) THEN {o.props}
    ELSE {SubSeq(o.props, 1, i) : i \in 0 .. Len(o.props)} \cup {Garbled}

\* kvmsg_send: a frame that is not present goes as one of no bytes.
Filled(f) == IF f = Absent THEN "" ELSE f
FiveFrames(o, props) ==
    LET content == <<Filled(o.key), o.sequence, Filled(o.uuid), props, Filled(o.body)>>
    IN  [i \in 1 .. 5 |-> [bytes |-> content[i], more |-> i < 5]]

OtherFrames(n) == [i \in 1 .. n |-> [bytes |-> "x", more |-> i < n]]

KVInit ==
    /\ message \in {New(n) : n \in Sequence}
    /\ \E n \in Bogus : frames = OtherFrames(n)
    /\ read = <<>>
    /\ posted = <<>>

----------------------------------------------------------------------------

SetKey == \* the copy of a key that was read stays
    /\ posted = <<>>
    /\ \E k \in KeyText : message' = [message EXCEPT !.key = k]
    /\ UNCHANGED <<frames, read, posted>>

ReadKey == \* kvmsg_key
    /\ posted = <<>> /\ message.key # Absent /\ message.copied = ""
    /\ message' = [message EXCEPT !.copied = message.key]
    /\ UNCHANGED <<frames, read, posted>>

SetSequence ==
    /\ posted = <<>>
    /\ \E n \in Sequence : message' = [message EXCEPT !.sequence = Encode(n)]
    /\ UNCHANGED <<frames, read, posted>>

SetUuid ==
    /\ posted = <<>>
    /\ message' = [message EXCEPT !.uuid = "uuid"]
    /\ UNCHANGED <<frames, read, posted>>

SetKVBody == \* kvmsg_set_body, kvmsg_fmt_body
    /\ posted = <<>>
    /\ \E b \in {"", "body"} : message' = [message EXCEPT !.body = b]
    /\ UNCHANGED <<frames, read, posted>>

\* kvmsg_set_prop: a property of the name is taken out, the new one goes to the end.
\* No program sets a property of a copy.
SetProp ==
    /\ posted = <<>> /\ Sized(message) /\ Len(message.props) < MaxProps
    /\ \E name \in PropName, value \in PropValue :
         LET p    == [name |-> name, value |-> value]
             old  == {i \in DOMAIN message.props : message.props[i].name = name}
             kept == IF old = {} THEN message.props ELSE RemoveAt(message.props, Min(old))
             gone == IF old = {} THEN 0 ELSE PropSize(message.props[Min(old)])
         IN  message' = [message EXCEPT !.props = Append(kept, p), !.size = @ - gone + PropSize(p)]
    /\ UNCHANGED <<frames, read, posted>>

\* kvmsg_dup: the frames are copied, and the properties are counted, not their bytes;
\* the frame of the properties, if one was made, is made anew when the copy is sent.
Duplicate ==
    /\ posted = <<>>
    /\ message' = [message EXCEPT !.copied = "", !.size = Len(message.props)]
    /\ UNCHANGED <<frames, read, posted>>

KVSend ==
    /\ posted = <<>>
    /\ \E props \in PropsFrames(message) : frames' = frames \o FiveFrames(message, props)
    /\ posted' = <<message>>
    /\ UNCHANGED <<message, read>>

\* Writing past the frame may also end the process, before anything is sent.
Overrun ==
    /\ posted = <<>> /\ ~Sized(message)
    /\ posted' = <<message>>
    /\ UNCHANGED <<message, frames, read>>

\* kvmsg_recv: frames are read until one has more after it and should not, or has no
\* more and should; the rest of its message stays in the socket.
Stops == {i \in DOMAIN frames : frames[i].more # (i < 5)}
KVRecv ==
    /\ posted # <<>> /\ frames # <<>>
    /\ LET n == IF \E i \in Stops : i <= 5 THEN Min(Stops) ELSE 5
       IN  /\ frames' = SubSeq(frames, n + 1, Len(frames))
           /\ read' = IF \E i \in Stops : i <= 5 THEN read
                      ELSE Append(read, [i \in 1 .. 5 |-> frames[i].bytes])
    /\ UNCHANGED <<message, posted>>

KVNext ==
    \/ SetKey \/ ReadKey \/ SetSequence \/ SetUuid \/ SetKVBody \/ SetProp
    \/ Duplicate \/ KVSend \/ Overrun \/ KVRecv

----------------------------------------------------------------------------
(* Properties. *)

\* When everything is read, the last object read is the one that was posted, whatever
\* multipart messages came before: the same key, number, uuid, body and properties in
\* their order, and its number decodes to the one set.  Nothing is claimed of a copy
\* of a message with properties (kvmsg.c:40-78, 133-185, 191-213, 266-308).
MessageWhole ==
    posted # <<>> /\ frames = <<>> /\ Sized(posted[1]) =>
        LET got == Last(read)
        IN  /\ read # <<>>
            /\ got[1] = Filled(posted[1].key)
            /\ got[2] = posted[1].sequence /\ Decode(got[2]) \in Sequence
            /\ got[3] = Filled(posted[1].uuid)
            /\ got[4] = posted[1].props
            /\ got[5] = Filled(posted[1].body)

=============================================================================
