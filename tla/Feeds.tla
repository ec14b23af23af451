-------------------------------- MODULE Feeds --------------------------------
(***************************************************************************)
(* Programs that publish and programs that read what is published: the     *)
(* weather examples of extended-pub-sub and weather_station, and those     *)
(* that read from two sockets, z_pool, multisocket_reader and              *)
(* extended-multisocket-poller.  One of the readers runs, and what it      *)
(* connects to.  A message is its topic, its first word, with its number;  *)
(* the figures after it are left out.  A subscription is the set of topics *)
(* that start with its bytes.  The second part of the module is the proxy  *)
(* of Espresso.                                                            *)
(***************************************************************************)
EXTENDS Integers, Sequences, FiniteSets, FiniteSetsExt

CONSTANTS MaxSent,      \* bound: messages of a source
          HighWater     \* messages a socket holds, 1000 in libzmq

ASSUME FeedsAssumption == MaxSent \in Nat /\ HighWater \in Nat \ {0}

----------------------------------------------------------------------------
(* The sources: their socket, and in turn what the next message may be about. *)

Cities == <<{"BANGALORE"}, {"CHENNAI"}, {"DELHI"}>>
MultiPubServer == [socket |-> "PUB", says |-> Cities]
MultiTopicPubServer == [socket |-> "PUB", says |-> Cities]
WuServer == [socket |-> "PUB", says |-> Cities]
OneCityServer == [socket |-> "PUB", says |-> <<{"BANGALORE"}>>]
CityAndSleepServer == [socket |-> "PUB", says |-> <<{"BANGALORE"}>>]

\* A zip code is a random number below a million, with five digits at least.
WsServer == [socket |-> "PUB", says |-> <<{"10001", "100010", "20002"}>>]

SourceOne == [socket |-> "PUB", says |-> <<{"source-one"}>>]
SourceTwo == [socket |-> "PUB", says |-> <<{"source-two"}>>]
TaskVentilator == [socket |-> "PUSH", says |-> <<{"task"}>>]

(* The readers: their loop, and what each socket connects to and lets through. *)

Reading(source, takes) == [source |-> source, takes |-> takes]
Receiver(source, takes) == [loop |-> "recv", sockets |-> <<Reading(source, takes)>>]

BangaloreSub == Receiver(MultiPubServer, {"BANGALORE"})
ChennaiSub == Receiver(MultiPubServer, {"CHENNAI"})
DelhiSub == Receiver(MultiPubServer, {"DELHI"})
MultiSubClient == Receiver(MultiTopicPubServer, {"BANGALORE", "CHENNAI", "DELHI"})
WuClient == Receiver(WuServer, {"BANGALORE", "CHENNAI"})
OneCityClient == Receiver(OneCityServer, {"BANGALORE"})
ClientSeparateOne == Receiver(OneCityServer, {"BANGALORE"})

\* "10001" is also how six digits begin.
WsClient == Receiver(WsServer, {"10001", "100010"})

\* Six bytes of "10001" are its digits and a zero byte, which no update has.
MultipleSocketPoller ==
    [loop |-> "poll", sockets |-> <<Reading(TaskVentilator, {"task"}), Reading(WsServer, {})>>]
MultiPollerCorrect ==
    [loop |-> "poll", sockets |-> <<Reading(TaskVentilator, {"task"}), Reading(WsServer, {})>>]

\* Three bytes of "BANGALORE".
MsPoller == [loop |-> "poll", sockets |-> <<Reading(TaskVentilator, {"task"}),
                                            Reading(CityAndSleepServer, {"BANGALORE"})>>]
TwoSourcePoller == [loop |-> "poll", sockets |-> <<Reading(SourceOne, {"source-one"}),
                                                   Reading(SourceTwo, {"source-two"})>>]

\* rc is compared and never assigned: the first of its two inner loops has no end.
MultisocketReader ==
    [loop |-> "spin", sockets |-> <<Reading(TaskVentilator, {"task"}), Reading(WsServer, {})>>]

Readers == {BangaloreSub, ChennaiSub, DelhiSub, MultiSubClient, WuClient, OneCityClient,
            ClientSeparateOne, WsClient, MultipleSocketPoller, MultiPollerCorrect, MsPoller,
            TwoSourcePoller, MultisocketReader}

----------------------------------------------------------------------------

VARIABLES reader,       \* the reader that runs
          joined,       \* sockets whose connection has come to its source
          said,         \* per socket, how many messages its source has sent
          held,         \* per socket, the messages in it
          ready,        \* the sockets the last poll found ready and that are not read yet
          heard,        \* per socket, the messages that were read
          passed        \* ghost: per socket, the messages sent before it joined or when full

feedVars == <<reader, joined, said, held, ready, heard, passed>>

Sockets == DOMAIN reader.sockets

FeedInit ==
    /\ reader \in Readers
    /\ joined = {}
    /\ said = [i \in Sockets |-> 0]
    /\ held = [i \in Sockets |-> <<>>]
    /\ ready = {}
    /\ heard = [i \in Sockets |-> <<>>]
    /\ passed = [i \in Sockets |-> {}]

Join(i) ==
    /\ i \notin joined
    /\ joined' = joined \cup {i}
    /\ UNCHANGED <<reader, said, held, ready, heard, passed>>

Fits(i) == i \in joined /\ Len(held[i]) < HighWater

\* One turn of a source's loop: a PUSH socket waits for room, a PUB socket does not.
Say(i) ==
    LET in == reader.sockets[i]
    IN  /\ said[i] < MaxSent
        /\ in.source.socket = "PUSH" => Fits(i)
        /\ said' = [said EXCEPT ![i] = @ + 1]
        /\ \E topic \in in.source.says[(said[i] % Len(in.source.says)) + 1] :
             LET m == [topic |-> topic, n |-> said[i] + 1]
             IN  IF topic \notin in.takes THEN UNCHANGED <<held, passed>>
                 ELSE IF Fits(i) THEN held' = [held EXCEPT ![i] = Append(@, m)] /\ UNCHANGED passed
                 ELSE passed' = [passed EXCEPT ![i] = @ \cup {m}] /\ UNCHANGED held
        /\ UNCHANGED <<reader, joined, ready, heard>>

Hear(i) ==
    /\ held[i] # <<>>
    /\ heard' = [heard EXCEPT ![i] = Append(@, Head(held[i]))]
    /\ held' = [held EXCEPT ![i] = Tail(@)]

\* s_recv of a loop with one socket, and the inner loop that never ends.
RecvOne ==
    /\ reader.loop \in {"recv", "spin"}
    /\ Hear(1)
    /\ UNCHANGED <<reader, joined, said, ready, passed>>

\* zmq_poll without a timeout
PollAll ==
    /\ reader.loop = "poll" /\ ready = {}
    /\ ready' = {i \in Sockets : held[i] # <<>>}
    /\ ready' # {}
    /\ UNCHANGED <<reader, joined, said, held, heard, passed>>

\* One message from each of the sockets that were ready, the first socket first.
HearReady ==
    /\ ready # {}
    /\ Hear(Min(ready))
    /\ ready' = ready \ {Min(ready)}
    /\ UNCHANGED <<reader, joined, said, passed>>

FeedNext ==
    \/ \E i \in Sockets : Join(i) \/ Say(i)
    \/ RecvOne \/ PollAll \/ HearReady

----------------------------------------------------------------------------
(* Properties. *)

Numbers(s) == {s[i].n : i \in DOMAIN s}

\* A reader hears what it subscribed to in the order in which it was sent: no message of
\* a topic it takes is gone but those it missed, none comes twice, a task is never
\* missed; and no read of a socket that was found ready can wait.
FeedsSound ==
    /\ ready \subseteq {i \in Sockets : held[i] # <<>>}
    /\ \A i \in Sockets :
         LET kept == heard[i] \o held[i]
             in   == reader.sockets[i]
         IN  /\ \A j \in DOMAIN kept : kept[j].topic \in in.takes
             /\ \A j, k \in DOMAIN kept : j < k => kept[j].n < kept[k].n
             /\ \A n \in 1 .. said[i] : in.source.says[((n - 1) % Len(in.source.says)) + 1] \subseteq in.takes
                                          => n \in Numbers(kept) \cup {m.n : m \in passed[i]}
             /\ in.source.socket = "PUSH" => passed[i] = {}

\* The sockets with a message that the reader has still to read.
Unheard == {i \in Sockets : held[i] # <<>>}

----------------------------------------------------------------------------
(* Espresso/espresso.c: a publisher, a subscriber that leaves after a few     *)
(* messages, a proxy between them (XSUB, XPUB), and a listener that gets a    *)
(* copy of all that passes the proxy, subscriptions too.  A publisher sends   *)
(* only what is subscribed to at its own socket.                              *)

CONSTANTS Letter,       \* what the random first letter may be, with "A" and "B"
          Count,        \* messages the subscriber reads, 5 in the code
          MaxDraws      \* bound: messages the publisher draws

ASSUME EspressoAssumption ==
    /\ {"A", "B"} \subseteq Letter /\ "wish" \notin Letter
    /\ Count \in Nat /\ MaxDraws \in Nat

VARIABLES subscriber,   \* "starts", "reads", "left"
          wishes,       \* subscriptions and ends of them, from the subscriber to the proxy
          wanted,       \* what the proxy's XPUB socket lets through
          relayed,      \* the same messages from the proxy's XSUB to the publisher
          published,    \* what the publisher's PUB socket lets through
          draws,        \* messages the publisher has drawn
          drawn,        \* messages on their way to the proxy
          served,       \* messages in the subscriber's socket
          drunk,        \* messages the subscriber has read
          heardAll      \* what the listener got

espressoVars == <<subscriber, wishes, wanted, relayed, published, draws, drawn, served, drunk, heardAll>>

EspressoInit ==
    /\ subscriber = "starts"
    /\ wanted = {} /\ published = {}
    /\ wishes = <<>> /\ relayed = <<>> /\ drawn = <<>> /\ served = <<>> /\ drunk = <<>>
    /\ heardAll = <<>>
    /\ draws = 0

Wish(adds, letter) == [adds |-> adds, letter |-> letter]
Wished(set, wish) == IF wish.adds THEN set \cup {wish.letter} ELSE set \ {wish.letter}

\* subscriber_thread
SubscribeAB ==
    /\ subscriber = "starts"
    /\ subscriber' = "reads"
    /\ wishes' = wishes \o <<Wish(TRUE, "A"), Wish(TRUE, "B")>>
    /\ UNCHANGED <<wanted, relayed, published, draws, drawn, served, drunk, heardAll>>

Drink ==
    /\ subscriber = "reads" /\ served # <<>> /\ Len(drunk) < Count
    /\ drunk' = Append(drunk, Head(served))
    /\ served' = Tail(served)
    /\ UNCHANGED <<subscriber, wishes, wanted, relayed, published, draws, drawn, heardAll>>

\* After its loop it closes the socket, and that ends its subscriptions.
Leave ==
    /\ subscriber = "reads" /\ Len(drunk) = Count
    /\ subscriber' = "left"
    /\ wishes' = wishes \o <<Wish(FALSE, "A"), Wish(FALSE, "B")>>
    /\ served' = <<>>
    /\ UNCHANGED <<wanted, relayed, published, draws, drawn, drunk, heardAll>>

\* publisher_thread: a random letter.
Draw ==
    /\ draws < MaxDraws
    /\ draws' = draws + 1
    /\ \E l \in Letter : drawn' = IF l \in published THEN Append(drawn, <<l, draws>>) ELSE drawn
    /\ UNCHANGED <<subscriber, wishes, wanted, relayed, published, served, drunk, heardAll>>

HearWish == \* in the publisher's socket
    /\ relayed # <<>>
    /\ published' = Wished(published, Head(relayed))
    /\ relayed' = Tail(relayed)
    /\ UNCHANGED <<subscriber, wishes, wanted, draws, drawn, served, drunk, heardAll>>

\* zmq_proxy: each message is copied to the listener and goes through.
RelayWish ==
    /\ wishes # <<>>
    /\ wanted' = Wished(wanted, Head(wishes))
    /\ relayed' = Append(relayed, Head(wishes))
    /\ heardAll' = Append(heardAll, <<"wish", Head(wishes).letter>>)
    /\ wishes' = Tail(wishes)
    /\ UNCHANGED <<subscriber, published, draws, drawn, served, drunk>>

RelayDrawn ==
    /\ drawn # <<>>
    /\ heardAll' = Append(heardAll, Head(drawn))
    /\ served' = IF Head(drawn)[1] \in wanted /\ subscriber = "reads"
                 THEN Append(served, Head(drawn)) ELSE served
    /\ drawn' = Tail(drawn)
    /\ UNCHANGED <<subscriber, wishes, wanted, relayed, published, draws, drunk>>

EspressoNext ==
    \/ SubscribeAB \/ Drink \/ Leave
    \/ Draw \/ HearWish
    \/ RelayWish \/ RelayDrawn

----------------------------------------------------------------------------
(* Properties. *)

\* The messages that the listener heard, without the subscriptions, and their order.
Overheard   == {heardAll[i] : i \in {i \in DOMAIN heardAll : heardAll[i][1] # "wish"}}
InTurn(s)   == \A i, j \in DOMAIN s : i < j /\ s[i][1] # "wish" /\ s[j][1] # "wish" => s[i][2] < s[j][2]

\* What the subscriber reads the listener heard, both in the order in which it was drawn,
\* and the subscriber missed nothing before it; the listener hears no message that was not
\* asked for before; and a letter that nobody wants any more is on its way to be known at
\* the publisher (espresso.c:10-24, 33-44, 74).
EspressoSound ==
    LET mine == drunk \o served
        got  == {mine[i] : i \in DOMAIN mine}
    IN  /\ InTurn(heardAll) /\ InTurn(mine)
        /\ got \subseteq Overheard
        /\ \A m \in got : {o \in Overheard : o[2] < m[2]} \subseteq got
        /\ \A i \in DOMAIN heardAll :
             heardAll[i][1] # "wish" => \E j \in 1 .. i - 1 : heardAll[j] = <<"wish", heardAll[i][1]>>
        /\ published \ wanted \subseteq {relayed[i].letter : i \in DOMAIN relayed}

\* The subscriptions that are left at the publisher when the subscriber is gone.
Stale == IF subscriber = "left" THEN published ELSE {}

=============================================================================
