-------------------------------- MODULE ZMsg --------------------------------
(***************************************************************************)
(* The messages of the C++ programs, majordomo/zmsg.hpp: parts that are    *)
(* kept as printable strings.  A part of 17 bytes that starts with a zero  *)
(* byte is an identity and is written as "@" and 32 hex digits; a part     *)
(* that looks like that is sent as 17 bytes.  Parts that are set by a char *)
(* pointer end at their first zero byte.                                   *)
(* A DEALER builds a message and sends it to a ROUTER, which answers it,   *)
(* as the test method of the class does.                                   *)
(***************************************************************************)
EXTENDS Integers, Sequences, SequencesExt

\* Strings: empty, text, and 33 characters from "@" on: capital hex digits, small
\* ones, or other ones, with what comes back for those.  Bytes: an identity, and
\* what is decoded from letters that are no digits.
Typed == {"", "text", "@1AF", "@1af", "@xyz"}
Part == Typed \cup {"@GARBAGE", "0 1AF", "0 garbage"}

VARIABLES built,        \* the dealer's message
          between,      \* the parts on the wire
          routed,       \* the router's message
          returnTo,     \* the address it took off
          dealt,        \* ghost: what the dealer sent
          zmsgAt        \* "builds", "sent", "received", "unwrapped", "wrapped", "answered", "back"

zmsgVars == <<built, between, routed, returnTo, dealt, zmsgAt>>

\* encode_uuid: to capital digits.
FromWire(p) == CASE p = "0 1AF" -> "@1AF" [] p = "0 garbage" -> "@GARBAGE" [] OTHER -> p

\* decode_uuid: from digits of both kinds; another letter is -1, whose bits are mixed in.
OnZWire(p) == CASE p \in {"@1AF", "@1af"} -> "0 1AF" [] p \in {"@xyz", "@GARBAGE"} -> "0 garbage" [] OTHER -> p

Sent(m) == [i \in DOMAIN m |-> OnZWire(m[i])]
Got(m) == [i \in DOMAIN m |-> FromWire(m[i])]

BodySet(m, p) == Append(SubSeq(m, 1, Len(m) - 1), p)
SetPart(m, i, p) == IF i \in DOMAIN m THEN [m EXCEPT ![i] = p] ELSE m
Wrap(m, address, delim) == <<address>> \o delim \o m

\* unwrap: with the address goes a part after it that is empty as a C string.
Unwrap(m) == IF Len(m) > 1 /\ m[2] = "" THEN SubSeq(m, 3, Len(m)) ELSE Tail(m)

Delim == {<<>>, <<"">>}

----------------------------------------------------------------------------

\* The identities that the programs have: text by s_set_id, or 17 bytes of libzmq.
ZmsgInit ==
    /\ built = <<>> /\ between = <<>> /\ routed = <<>> /\ dealt = <<>>
    /\ returnTo \in {"text", "0 1AF"} \* until the router has it, the dealer's identity
    /\ zmsgAt = "builds"

\* body_set, append, push_front, set_part, wrap, pop_front, clear, of at most three parts.
Build ==
    /\ zmsgAt = "builds"
    /\ \/ \E p \in Typed : built' = BodySet(built, p)
       \/ \E p \in Typed : Len(built) < 3 /\ built' \in {Append(built, p), <<p>> \o built}
       \/ \E p \in Typed, i \in 1 .. 3 : built' = SetPart(built, i, p)
       \/ \E p \in Typed, d \in Delim : Len(built \o d) < 3 /\ built' = Wrap(built, p, d)
       \/ built # <<>> /\ built' \in {Tail(built), Unwrap(built), <<>>}
    /\ UNCHANGED <<between, routed, returnTo, dealt, zmsgAt>>

\* send: it clears the message.  Without parts nothing is sent.
DealerSend ==
    /\ zmsgAt = "builds" /\ built # <<>>
    /\ between' = Sent(built)
    /\ dealt' = built
    /\ built' = <<>>
    /\ zmsgAt' = "sent"
    /\ UNCHANGED <<routed, returnTo>>

\* recv: the ROUTER puts the identity of the dealer before the parts.
RouterRecv ==
    /\ zmsgAt = "sent"
    /\ routed' = Got(<<returnTo>> \o between)
    /\ between' = <<>>
    /\ zmsgAt' = "received"
    /\ UNCHANGED <<built, returnTo, dealt>>

RouterUnwrap ==
    /\ zmsgAt = "received"
    /\ returnTo' = routed[1]
    /\ routed' = Unwrap(routed)
    /\ zmsgAt' = "unwrapped"
    /\ UNCHANGED <<built, between, dealt>>

\* body_set or body_fmt may replace the body on the way.
RouterWrap ==
    /\ zmsgAt = "unwrapped"
    /\ \E d \in Delim, m \in {routed, BodySet(routed, "text")} : routed' = Wrap(m, returnTo, d)
    /\ zmsgAt' = "wrapped"
    /\ UNCHANGED <<built, between, returnTo, dealt>>

\* The ROUTER takes the identity off, and drops a message for one it does not know.
RouterSend ==
    /\ zmsgAt = "wrapped"
    /\ between' = IF Sent(routed)[1] \in {"text", "0 1AF"} THEN Tail(Sent(routed)) ELSE <<>>
    /\ routed' = <<>>
    /\ zmsgAt' = "answered"
    /\ UNCHANGED <<built, returnTo, dealt>>

DealerRecv ==
    /\ zmsgAt = "answered" /\ between # <<>>
    /\ built' = Got(between)
    /\ between' = <<>>
    /\ zmsgAt' = "back"
    /\ UNCHANGED <<routed, returnTo, dealt>>

ZmsgNext == \/ Build \/ DealerSend \/ RouterRecv \/ RouterUnwrap \/ RouterWrap \/ RouterSend \/ DealerRecv

----------------------------------------------------------------------------
(* Properties. *)

\* An identity that ends in capitals is one that began in small digits.
SameId(p) == IF p = "@1af" THEN "@1AF" ELSE p

\* A reply finds its way back by the address that was taken off, with identities of
\* both kinds, and carries what the dealer sent up to the body and one empty frame in
\* front: no part is lost, doubled or in another place.  A part that looks like an
\* identity and is none is exempt (zmsg.hpp:72-79, 91-100, 230-246).
EnvelopeKept ==
    LET bare == IF dealt # <<>> /\ dealt[1] = "" THEN Tail(dealt) ELSE dealt
        kept == [i \in DOMAIN bare |-> SameId(bare[i])]
    IN  /\ zmsgAt = "answered" /\ between = <<>> => bare = <<>>
        /\ zmsgAt = "back" /\ "@xyz" \notin ToSet(dealt) =>
             \E d \in Delim, m \in {kept, BodySet(kept, "text")} : built = d \o m

=============================================================================
