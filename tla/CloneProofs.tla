----------------------------- MODULE CloneProofs -----------------------------
(***************************************************************************)
(* Proofs about the Clone pattern, module Clone, for every set of agents,  *)
(* every table and any number of crashes and failovers: its types, that    *)
(* its servers implement one replicated map, that no update sent to a      *)
(* server that runs is lost with its peer, and that a client which was     *)
(* synced has the values of the log.                                       *)
(*                                                                         *)
(* The invariant of the two servers, ServerInv, is stated of the log of    *)
(* all numbered updates.  A table that counts is a prefix of the log       *)
(* (CopyOf); the active server has the whole log; a queue between the      *)
(* servers is a piece of the log that begins within the reader's prefix    *)
(* (StreamOf), and a snapshot under way is a prefix beyond which the       *)
(* queue goes on (SnapFrom).  The rest says which states, connections and  *)
(* requests go together (RolesOf, AskOf).  Kept adds, for NothingLost,     *)
(* where each uuid that a server was sent is; Agents adds, for             *)
(* AgentAgrees, that what the active server has sent an agent and the      *)
(* agent has not read is the log from some position on, which neither the  *)
(* agent's table nor a snapshot on its way to it is behind.                *)
(***************************************************************************)
EXTENDS Clone, SequenceTheorems, FiniteSetTheorems, NaturalsInduction,
        WellFoundedInduction, TLAPS

(* Sequences, tables and messages. *)

\* A set of positions that is not empty has a last one.
LEMMA LastPosition ==
    ASSUME NEW n \in Nat, NEW of \in SUBSET (1 .. n), of # {}
    PROVE  \E i \in of : \A j \in of : j <= i
<1> DEFINE T == {n - i : i \in of}
<1>0. \A i \in of : i \in Int /\ 1 <= i /\ i <= n
  OBVIOUS
<1>1. T \subseteq Nat /\ T # {}
  <2>1. \A i \in of : n - i \in Nat
    BY <1>0
  <2> QED BY <2>1
<1>2. IsWellFoundedOn(OpToRel(<, Nat), Nat)
  BY NatLessThanWellFounded
<1>3. PICK x \in T : \A y \in T : ~ (<<y, x>> \in OpToRel(<, Nat))
  <2> HIDE DEF T
  <2> QED BY <1>1, <1>2, WFMin
<1>4. \A y \in T : x <= y
  <2>1. x \in Nat /\ \A y \in T : y \in Nat
    BY <1>1, <1>3
  <2>2. \A y \in T : ~ (y < x)
    BY <2>1, <1>3, Zenon DEF OpToRel
  <2> HIDE DEF T
  <2> QED BY <2>1, <2>2
<1>5. PICK i \in of : x = n - i
  BY <1>3
<1>6. \A j \in of : j <= i
  <2> TAKE j \in of
  <2>1. n - j \in T
    OBVIOUS
  <2>2. n - i <= n - j
    BY <1>4, <1>5, <2>1
  <2> QED BY <1>0, <2>2
<1> QED BY <1>6

\* The last of the positions of a key, as Stored and TableOf choose it.
LastOf(of) == CHOOSE i \in of : \A j \in of : j <= i

\* Stored takes the last position of a key.
LEMMA LastOfIs ==
    ASSUME NEW n \in Nat, NEW of \in SUBSET (1 .. n), of # {}
    PROVE  LastOf(of) \in of /\ \A j \in of : j <= LastOf(of)
BY LastPosition DEF LastOf

\* And a first one.
LEMMA FirstPosition ==
    ASSUME NEW n \in Nat, NEW of \in SUBSET (1 .. n), of # {}
    PROVE  Min(of) \in of /\ \A j \in of : Min(of) <= j
<1>1. of \subseteq Nat /\ IsWellFoundedOn(OpToRel(<, Nat), Nat)
  <2>1. of \subseteq Nat
    OBVIOUS
  <2> QED BY <2>1, NatLessThanWellFounded
<1>2. PICK x \in of : \A y \in of : ~ (<<y, x>> \in OpToRel(<, Nat))
  BY <1>1, WFMin
<1>3. \A y \in of : x <= y
  <2>1. x \in Nat /\ \A y \in of : y \in Nat
    BY <1>1, <1>2
  <2>2. \A y \in of : ~ (y < x)
    BY <2>1, <1>2, Zenon DEF OpToRel
  <2> QED BY <2>1, <2>2
<1> QED BY <1>3 DEF Min

\* The messages of two lists, one after the other.
LEMMA UpdateFields ==
    ASSUME NEW m \in Update
    PROVE  /\ m \in Message
           /\ m.key \in Key /\ m.seq \in Nat /\ m.uuid \in Nat \ {0} /\ m.body \in BOOLEAN
           /\ m.ttl \in Ttl /\ m.cut \in BOOLEAN
           /\ m # NoMsg
BY CloneAssumption DEF Update, Message, Uuid

\* The operators of KVMsg keep the types of messages and tables.
LEMMA StoreType ==
    ASSUME NEW map \in Table, NEW m \in Update
    PROVE  Store(map, m) \in Table
BY UpdateFields DEF Store, Table

\* Storing a list of messages in a table makes a table.
LEMMA StoredType ==
    ASSUME NEW map \in Table, NEW msgs \in Seq(Update)
    PROVE  Stored(map, msgs) \in Table
<1>1. SUFFICES ASSUME NEW k \in Key PROVE Stored(map, msgs)[k] \in Update \cup {NoMsg}
  BY DEF Stored, Table
<1> DEFINE of == {i \in DOMAIN msgs : msgs[i].key = k}
<1>2. Stored(map, msgs)[k] = IF of = {} THEN map[k]
                             ELSE IF msgs[LastOf(of)].body THEN msgs[LastOf(of)] ELSE NoMsg
  BY DEF Stored, LastOf
<1>3. of \subseteq 1 .. Len(msgs) /\ Len(msgs) \in Nat /\ map[k] \in Update \cup {NoMsg}
  BY DEF Table
<1>4. of # {} => LastOf(of) \in 1 .. Len(msgs)
  BY <1>3, LastOfIs
<1>5. of # {} => msgs[LastOf(of)] \in Update
  BY <1>4, ElementOfSeq
<1> HIDE DEF of
<1> QED BY <1>2, <1>3, <1>5

\* The empty table is a table.
LEMMA EmptyMapType == EmptyMap \in Table /\ EmptyMap # Null
BY CloneAssumption DEF EmptyMap, Table, Message

\* No table is the value for no table.
LEMMA TableIsNotNull ==
    ASSUME NEW map \in Table
    PROVE  map # Null
BY CloneAssumption, UpdateFields DEF Table, Update

\* A message with a number is one that can be published.
LEMMA NumberedType ==
    ASSUME NEW m \in Update, NEW n \in Nat \ {0}
    PROVE  /\ Numbered(m, n) \in Published
           /\ Numbered(m, n).key = m.key /\ Numbered(m, n).seq = n
           /\ Numbered(m, n).uuid = m.uuid /\ Numbered(m, n).body = m.body
BY DEF Numbered, Published, Update, Message, Uuid

\* So is a list of messages that are numbered one after another.
LEMMA RenumberedType ==
    ASSUME NEW msgs \in Seq(Update), NEW from \in Nat
    PROVE  /\ Renumbered(msgs, from) \in Seq(Published)
           /\ Len(Renumbered(msgs, from)) = Len(msgs)
           /\ DOMAIN Renumbered(msgs, from) = 1 .. Len(msgs)
           /\ \A i \in 1 .. Len(msgs) :
                /\ Renumbered(msgs, from)[i] = Numbered(msgs[i], from + i)
                /\ msgs[i] \in Update
<1>1. /\ Len(msgs) \in Nat /\ DOMAIN msgs = 1 .. Len(msgs)
      /\ \A i \in 1 .. Len(msgs) : msgs[i] \in Update
  OBVIOUS
<1>2. \A i \in 1 .. Len(msgs) : from + i \in Nat \ {0}
  BY <1>1
<1>3. \A i \in 1 .. Len(msgs) : Numbered(msgs[i], from + i) \in Published
  BY <1>1, <1>2, NumberedType
<1> QED BY <1>1, <1>3 DEF Renumbered

\* Sending changes neither key, number, uuid nor body.
LEMMA OnWireType ==
    ASSUME NEW m \in Update
    PROVE  /\ OnWire(m) \in Update
           /\ OnWire(m).key = m.key /\ OnWire(m).seq = m.seq
           /\ OnWire(m).uuid = m.uuid /\ OnWire(m).body = m.body
BY DEF OnWire, Update, Message, Uuid, Ttl

\* The same of a list of messages.
LEMMA WiredType ==
    ASSUME NEW msgs \in Seq(Update)
    PROVE  /\ Wired(msgs) \in Seq(Update)
           /\ msgs \in Seq(Published) => Wired(msgs) \in Seq(Published)
           /\ Len(Wired(msgs)) = Len(msgs)
           /\ \A i \in 1 .. Len(msgs) : Wired(msgs)[i] = OnWire(msgs[i])
<1>1. /\ Len(msgs) \in Nat /\ DOMAIN msgs = 1 .. Len(msgs)
      /\ \A i \in 1 .. Len(msgs) : msgs[i] \in Update
  OBVIOUS
<1>2. \A i \in 1 .. Len(msgs) : OnWire(msgs[i]) \in Update
  BY <1>1, OnWireType
<1>3. msgs \in Seq(Published) => \A i \in 1 .. Len(msgs) : OnWire(msgs[i]) \in Published
  BY <1>1, OnWireType DEF Published
<1> QED BY <1>1, <1>2, <1>3 DEF Wired

\* What is published is an update.
LEMMA PublishedIsUpdate == Published \subseteq Update /\ Seq(Published) \subseteq Seq(Update)
<1>1. Published \subseteq Update
  BY DEF Published
<1> QED BY <1>1, SeqMonotonic

\* A copy is an update.
LEMMA DupType ==
    ASSUME NEW m \in Update
    PROVE  Dup(m) \in Update /\ Dup(m).uuid = m.uuid
BY DEF Dup, Update, Message, Uuid

\* Dating a time to live keeps the type.
LEMMA DatedType ==
    ASSUME NEW m \in Update
    PROVE  /\ Dated(m) \in Update /\ Dated(m).key = m.key /\ Dated(m).uuid = m.uuid
           /\ Dated(m).body = m.body
BY DEF Dated, Update, Message, Uuid, Ttl

\* So does taking the body away.
LEMMA EmptiedType ==
    ASSUME NEW m \in Update
    PROVE  /\ Emptied(m) \in Update /\ Emptied(m).key = m.key /\ Emptied(m).uuid = m.uuid
           /\ Emptied(m).body = FALSE
BY DEF Emptied, Update, Message, Uuid

\* A finite set as a sequence: every member once.
LEMMA SetToSeqIs ==
    ASSUME NEW S, IsFiniteSet(S)
    PROVE  /\ SetToSeq(S) \in Seq(S)
           /\ \A x \in S : \E i \in 1 .. Len(SetToSeq(S)) : SetToSeq(S)[i] = x
           /\ \A i, j \in 1 .. Len(SetToSeq(S)) :
                 SetToSeq(S)[i] = SetToSeq(S)[j] => i = j
<1> DEFINE n == Cardinality(S)
<1>1. n \in Nat /\ ExistsBijection(1 .. n, S)
  BY FS_CardinalityType
<1>2. PICK f \in [1 .. n -> S] : /\ \A a, b \in 1 .. n : f[a] = f[b] => a = b
                                 /\ \A x \in S : \E i \in 1 .. n : f[i] = x
  BY <1>1 DEF ExistsBijection, Bijection, Injection, Surjection, IsInjective
<1>3. IsInjective(f)
  BY <1>2 DEF IsInjective
<1>4. SetToSeq(S) \in [1 .. n -> S] /\ IsInjective(SetToSeq(S))
  BY <1>3 DEF SetToSeq
<1> DEFINE g == SetToSeq(S)
<1>5. g \in Injection(1 .. n, S)
  BY <1>4 DEF Injection, IsInjective
<1>6. IsFiniteSet(1 .. n) /\ Cardinality(1 .. n) = n
  BY <1>1, FS_Interval
<1>7. g \in Surjection(1 .. n, S)
  BY <1>5, <1>6, FS_Injection
<1>8. g \in Seq(S) /\ Len(g) = n
  BY <1>1, <1>4
<1>9. \A x \in S : \E i \in 1 .. n : g[i] = x
  BY <1>7 DEF Surjection
<1>10. \A i, j \in 1 .. n : g[i] = g[j] => i = j
  BY <1>4 DEF IsInjective
<1> QED BY <1>8, <1>9, <1>10

ServerRecord == [state : State \cup {"DOWN"}, kvmap : Table \cup {Null},
                 sequence : Nat, pending : Seq(Update), asking : BOOLEAN]

\* The fields of a server's record, by type.
LEMMA ServerRecords ==
    ASSUME ServerTypeOK, NEW s \in Server
    PROVE  /\ server \in [Server -> ServerRecord]
           /\ server[s] \in ServerRecord
           /\ server[s].state \in State \cup {"DOWN"}
           /\ server[s].kvmap \in Table \cup {Null}
           /\ ~ NoTable(s) => server[s].kvmap \in Table
           /\ server[s].sequence \in Nat
           /\ server[s].pending \in Seq(Update)
           /\ server[s].asking \in BOOLEAN
           /\ Peer(s) \in Server /\ Peer(s) # s /\ Peer(Peer(s)) = s
           /\ \A q \in Server : q # s => q = Peer(s)
BY DEF ServerTypeOK, ServerRecord, NoTable, Peer, Server

\* Both servers are connected to each other, and the peer's peer is oneself.
LEMMA PairOfServers ==
    ASSUME NEW s \in Server
    PROVE  <<s, Peer(s)>> \in Pair /\ <<Peer(s), s>> \in Pair
BY DEF Pair, Peer, Server

\* An agent has a connection to each server.
LEMMA PairOfAgent ==
    ASSUME NEW a \in Agent, NEW s \in Server
    PROVE  <<a, s>> \in Pair /\ <<a, s>> \in Agent \X Server /\ a \notin Server
BY CloneAssumption DEF Pair

\* What a message of a list with some property, the first one, is.
LEMMA FirstIs ==
    ASSUME NEW list \in Seq(Update), NEW u,
           \E i \in DOMAIN list : list[i].uuid = u
    PROVE  LET first == SelectInSeq(list, LAMBDA held : held.uuid = u) IN
             first \in 1 .. Len(list) /\ list[first].uuid = u
<1> DEFINE of == {i \in 1 .. Len(list) : list[i].uuid = u}
<1>1. Len(list) \in Nat /\ of \in SUBSET (1 .. Len(list)) /\ of # {}
  OBVIOUS
<1>2. SelectInSeq(list, LAMBDA held : held.uuid = u) = Min(of)
  BY <1>1 DEF SelectInSeq
<1>3. Min(of) \in of
  <2> HIDE DEF of
  <2> QED BY <1>1, FirstPosition
<1> QED BY <1>2, <1>3

\* A list without its member at place n.
LEMMA RemoveAtIs ==
    ASSUME NEW S, NEW list \in Seq(S), NEW n \in 1 .. Len(list)
    PROVE  /\ RemoveAt(list, n) \in Seq(S)
           /\ Len(RemoveAt(list, n)) = Len(list) - 1
           /\ \A i \in 1 .. Len(list) - 1 :
                 RemoveAt(list, n)[i] = IF i < n THEN list[i] ELSE list[i + 1]
<1> DEFINE front == SubSeq(list, 1, n - 1)
           rest  == SubSeq(list, n + 1, Len(list))
<1>1. /\ n \in Int /\ 1 <= n /\ n <= Len(list) /\ Len(list) \in Nat
      /\ \A i \in 1 .. Len(list) : list[i] \in S
  OBVIOUS
<1>2. /\ front \in Seq(S) /\ Len(front) = n - 1
      /\ \A i \in 1 .. n - 1 : front[i] = list[i]
  BY <1>1, SubSeqProperties
<1>3. /\ rest \in Seq(S) /\ Len(rest) = Len(list) - n
      /\ \A i \in 1 .. Len(list) - n : rest[i] = list[n + i]
  BY <1>1, SubSeqProperties
<1> HIDE DEF front, rest
<1>4. /\ front \o rest \in Seq(S)
      /\ Len(front \o rest) = Len(list) - 1
      /\ \A i \in 1 .. Len(list) - 1 :
            (front \o rest)[i] = IF i <= n - 1 THEN front[i] ELSE rest[i - (n - 1)]
  <2>1. Len(front) + Len(rest) = Len(list) - 1
    BY <1>1, <1>2, <1>3
  <2>2. /\ front \o rest \in Seq(S)
        /\ Len(front \o rest) = Len(front) + Len(rest)
        /\ \A i \in 1 .. Len(front) + Len(rest) :
              (front \o rest)[i] = IF i <= Len(front) THEN front[i] ELSE rest[i - Len(front)]
    BY <1>2, <1>3, ConcatProperties
  <2>3. Len(front) = n - 1
    BY <1>2
  <2> QED BY <2>1, <2>2, <2>3
<1>5. ASSUME NEW i \in 1 .. Len(list) - 1
      PROVE  (front \o rest)[i] = IF i < n THEN list[i] ELSE list[i + 1]
  <2>1. CASE i < n
    BY <1>1, <1>2, <1>4, <2>1
  <2>2. CASE ~ (i < n)
    <3>1. i - (n - 1) \in 1 .. Len(list) - n /\ n + (i - (n - 1)) = i + 1
      BY <1>1, <2>2
    <3> QED BY <1>1, <1>3, <1>4, <2>2, <3>1
  <2> QED BY <2>1, <2>2
<1> QED BY <1>4, <1>5 DEF RemoveAt, front, rest

\* The list of what is pending, after a message: without the first one of that
\* uuid, or with the message at its end.
LEMMA PendedIs ==
    ASSUME ServerTypeOK, NEW s \in Server, NEW m \in Update
    PROVE  /\ Pended(s, m) \in Seq(Update)
           /\ IsPending(s, m) =>
                \E n \in 1 .. Len(server[s].pending) :
                   /\ server[s].pending[n].uuid = m.uuid
                   /\ Pended(s, m) = RemoveAt(server[s].pending, n)
           /\ ~ IsPending(s, m) => Pended(s, m) = Append(server[s].pending, m)
<1>1. server[s].pending \in Seq(Update)
  BY ServerRecords
<1>2. CASE IsPending(s, m)
  <2> DEFINE n == SelectInSeq(server[s].pending, LAMBDA held : held.uuid = m.uuid)
  <2>1. n \in 1 .. Len(server[s].pending) /\ server[s].pending[n].uuid = m.uuid
    BY <1>1, <1>2, FirstIs DEF IsPending
  <2>2. Pended(s, m) = RemoveAt(server[s].pending, n)
    BY <1>2 DEF Pended, Unpended
  <2> HIDE DEF n
  <2>3. RemoveAt(server[s].pending, n) \in Seq(Update)
    BY <1>1, <2>1, RemoveAtIs
  <2> QED BY <1>2, <2>1, <2>2, <2>3
<1>3. CASE ~ IsPending(s, m)
  BY <1>1, <1>3 DEF Pended
<1> QED BY <1>2, <1>3

\* What is published goes to the end of the queues of those that read.
LEMMA PublishIs ==
    ASSUME NetTypeOK, NEW s \in Server, NEW msgs \in Seq(Published), NEW wanted
    PROVE  /\ Publish(s, msgs, wanted) \in [Pair -> Seq(Published)]
           /\ \A p \in Pair : Publish(s, msgs, wanted)[p] =
                IF p[2] = s /\ p \in subs /\ p \in wanted THEN out[p] \o Wired(msgs) ELSE out[p]
<1>1. Wired(msgs) \in Seq(Published)
  BY WiredType, PublishedIsUpdate
<1>2. \A p \in Pair : out[p] \in Seq(Published) /\ out[p] \o Wired(msgs) \in Seq(Published)
  BY <1>1, ConcatProperties DEF NetTypeOK
<1> QED BY <1>2 DEF Publish, Readers

\* What is left of the queues of a server that closes its sockets.
LEMMA RemainsIs ==
    ASSUME NEW S, NEW queue \in [Pair -> Seq(S)], NEW s \in Server,
           NEW left \in Remains(s, queue)
    PROVE  /\ left \in [Pair -> Seq(S)]
           /\ \A p \in Pair :
                /\ p[1] = s => left[p] = <<>>
                /\ p[2] = s => \E k \in 0 .. Len(queue[p]) : left[p] = SubSeq(queue[p], 1, k)
                /\ p[1] # s /\ p[2] # s => left[p] = queue[p]
<1> DEFINE lengths == UNION {0 .. Len(queue[p]) : p \in Readers(s)}
           cuts == {k \in [Readers(s) -> lengths] :
                       \A p \in Readers(s) : k[p] <= Len(queue[p])}
<1>1. PICK k \in cuts :
         left = [p \in Pair |-> CASE p[1] = s -> <<>>
                                  [] p[2] = s -> SubSeq(queue[p], 1, k[p])
                                  [] OTHER    -> queue[p]]
  BY DEF Remains
<1>2. \A p \in Readers(s) : k[p] \in 0 .. Len(queue[p])
  <2> TAKE p \in Readers(s)
  <2>1. k[p] \in lengths /\ k[p] <= Len(queue[p]) /\ Len(queue[p]) \in Nat
    BY DEF Readers
  <2>2. k[p] \in Nat
    <3>1. PICK q \in Readers(s) : k[p] \in 0 .. Len(queue[q])
      BY <2>1
    <3> QED BY <3>1
  <2> QED BY <2>1, <2>2
<1> HIDE DEF cuts
<1>3. ASSUME NEW p \in Pair
      PROVE  /\ left[p] \in Seq(S)
             /\ p[1] = s => left[p] = <<>>
             /\ p[2] = s => \E n \in 0 .. Len(queue[p]) : left[p] = SubSeq(queue[p], 1, n)
             /\ p[1] # s /\ p[2] # s => left[p] = queue[p]
  <2>1. p[1] # p[2] /\ queue[p] \in Seq(S)
    BY DEF Pair
  <2>2. CASE p[1] = s
    BY <1>1, <2>1, <2>2
  <2>3. CASE p[2] = s
    <3>1. left[p] = SubSeq(queue[p], 1, k[p]) /\ k[p] \in 0 .. Len(queue[p])
      BY <1>1, <1>2, <2>1, <2>3 DEF Readers
    <3>2. SubSeq(queue[p], 1, k[p]) \in Seq(S)
      BY <2>1, <3>1, SubSeqProperties
    <3> QED BY <2>1, <2>3, <3>1, <3>2
  <2>4. CASE p[1] # s /\ p[2] # s
    BY <1>1, <2>1, <2>4
  <2> QED BY <2>2, <2>3, <2>4
<1> QED BY <1>1, <1>3

Types == NetTypeOK /\ ServerTypeOK

\* A server that may become the active one: nothing is known of its peer, or
\* that it has just started.
MayTakeOver(s) ==
    /\ Runs(s)
    /\ server[s].state \in {"PRIMARY", "PASSIVE"}
    /\ ~ (server[Peer(s)].state \in {"ACTIVE", "PASSIVE"} /\ Runs(Peer(s)))

TurnsPassive(s) ==
    /\ Runs(s)
    /\ server[s].state \in {"PRIMARY", "BACKUP"} /\ Active(Peer(s))
    /\ server' = [server EXCEPT ![s] = [@ EXCEPT !.state = "PASSIVE", !.kvmap = Null]]
    /\ UNCHANGED <<netVars, log, tainted, crashes>>

\* The end of a process, which may have published when it found no table.
Dies(s) ==
    \E msgs \in Seq(Published) :
       /\ Die(s, msgs)
       /\ msgs = <<>> \/ (NoTable(s) /\ server[s].state \in {"ACTIVE", "PASSIVE", "PRIMARY"})

\* What a server publishes of its pending list before it finds no table.
LEMMA FirstPendingIs ==
    ASSUME ServerTypeOK, NEW s \in Server
    PROVE  FirstPending(s) \in Seq(Published)
<1>1. server[s].pending \in Seq(Update) /\ server[s].sequence \in Nat
  BY ServerRecords
<1>2. CASE server[s].pending # <<>>
  <2>1. Head(server[s].pending) \in Update /\ server[s].sequence + 1 \in Nat \ {0}
    BY <1>1, <1>2
  <2> PICK m : m = Numbered(Head(server[s].pending), server[s].sequence + 1)
    OBVIOUS
  <2>2. m \in Published
    BY <2>1, NumberedType
  <2>3. FirstPending(s) = <<m>>
    BY <1>2 DEF FirstPending
  <2> QED BY <2>2, <2>3
<1>3. CASE server[s].pending = <<>>
  BY <1>3 DEF FirstPending
<1> QED BY <1>2, <1>3

\* A state of the peer makes a server passive, active, or it fails an assertion.
LEMMA RecvCases ==
    ASSUME ServerTypeOK, NEW s \in Server, RecvState(s)
    PROVE  \/ TurnsPassive(s)
           \/ Runs(s) /\ Dies(s) /\ UNCHANGED crashes
           \/ /\ MayTakeOver(s) /\ (NoTable(s) => server[s].pending = <<>>)
              /\ server' = [server EXCEPT ![s] = NewActive(s)]
              /\ TakesOver(s)
              /\ UNCHANGED <<subs, pubs, ask, snap, updates, tainted, crashes>>
<1> DEFINE next == NextState(server[s].state, server[Peer(s)].state, FALSE)
<1>1. /\ Runs(s) /\ Runs(Peer(s)) /\ next # server[s].state
      /\ UNCHANGED crashes
  BY DEF RecvState
<1>2. \/ /\ next = "ACTIVE"
         /\ \/ server[s].state = "PRIMARY" /\ server[Peer(s)].state = "BACKUP"
            \/ server[s].state = "PASSIVE" /\ server[Peer(s)].state \in {"PRIMARY", "BACKUP"}
      \/ /\ next = "PASSIVE" /\ server[s].state \in {"PRIMARY", "BACKUP"}
         /\ server[Peer(s)].state = "ACTIVE"
  BY <1>1 DEF NextState
<1>3. CASE next = "PASSIVE"
  <2>1. /\ server' = [server EXCEPT ![s] = [@ EXCEPT !.state = "PASSIVE", !.kvmap = Null]]
        /\ UNCHANGED <<netVars, log, tainted>>
    BY <1>3 DEF RecvState
  <2> QED BY <1>1, <1>2, <1>3, <2>1 DEF TurnsPassive, Active
<1>4. CASE next = "ACTIVE" /\ NoTable(s) /\ server[s].pending # <<>>
  <2>1. Die(s, FirstPending(s))
    BY <1>4 DEF RecvState
  <2>2. server[s].state \in {"ACTIVE", "PASSIVE", "PRIMARY"}
    BY <1>2, <1>4
  <2>3. Dies(s)
    BY <1>4, <2>1, <2>2, FirstPendingIs DEF Dies
  <2> QED BY <1>1, <2>3
<1>5. CASE next = "ACTIVE" /\ ~ (NoTable(s) /\ server[s].pending # <<>>)
  <2>1. /\ server' = [server EXCEPT ![s] = NewActive(s)]
        /\ TakesOver(s)
        /\ UNCHANGED <<subs, pubs, ask, snap, updates, tainted>>
    BY <1>5 DEF RecvState
  <2>2. MayTakeOver(s)
    BY <1>1, <1>2, <1>5 DEF MayTakeOver
  <2> QED BY <1>1, <1>5, <2>1, <2>2
<1> QED BY <1>2, <1>3, <1>4, <1>5

Refuses(s, x) ==
    /\ ask[<<x, s>>] > 0
    /\ ask' = [ask EXCEPT ![<<x, s>>] = @ - 1]
    /\ UNCHANGED <<subs, pubs, snap, out, updates, server, log, tainted, crashes>>

\* The reply to a request of x, by a server that is active or becomes it.
Replies(s, x) ==
    /\ Runs(s) /\ ~ NoTable(s) /\ ask[<<x, s>>] > 0
    /\ ask' = [ask EXCEPT ![<<x, s>>] = @ - 1]
    /\ UNCHANGED <<subs, pubs, updates, tainted, crashes>>

\* A request is refused or answered, the latter maybe after a takeover, or an
\* assertion fails.
LEMMA VoterCases ==
    ASSUME ServerTypeOK, NEW s \in Server, NEW x \in Agent \cup {Peer(s)}, Voter(s, x)
    PROVE  \/ Refuses(s, x)
           \/ Runs(s) /\ Dies(s) /\ UNCHANGED crashes
           \/ /\ Replies(s, x) /\ Active(s)
              /\ snap' = [snap EXCEPT ![<<x, s>>] = @ \o Snapshot(server[s])]
              /\ UNCHANGED <<server, out, log>>
           \/ /\ Replies(s, x) /\ MayTakeOver(s)
              /\ snap' = [snap EXCEPT ![<<x, s>>] = @ \o Snapshot(NewActive(s))]
              /\ server' = [server EXCEPT ![s] = NewActive(s)]
              /\ TakesOver(s)
<1>0. /\ Runs(s) /\ ask[<<x, s>>] > 0 /\ UNCHANGED crashes
  BY DEF Voter
<1>1. PICK expired \in Expired(s) :
         LET refused == Refused(server[s].state, "REQUEST", expired)
             takes   == NextState(server[s].state, "REQUEST", expired) # server[s].state
             record  == IF takes THEN NewActive(s) ELSE server[s] IN
           CASE refused ->
                  /\ ask' = [ask EXCEPT ![<<x, s>>] = @ - 1]
                  /\ UNCHANGED <<subs, pubs, snap, out, updates, server, log, tainted>>
             [] ~refused /\ NoTable(s) -> Die(s, FirstPending(s))
             [] OTHER ->
                  /\ ask' = [ask EXCEPT ![<<x, s>>] = @ - 1]
                  /\ snap' = [snap EXCEPT ![<<x, s>>] = @ \o Snapshot(record)]
                  /\ server' = [server EXCEPT ![s] = record]
                  /\ IF takes THEN TakesOver(s) ELSE UNCHANGED <<out, log>>
                  /\ UNCHANGED <<subs, pubs, updates, tainted>>
  BY DEF Voter
<1> DEFINE refused == Refused(server[s].state, "REQUEST", expired)
           takes   == NextState(server[s].state, "REQUEST", expired) # server[s].state
<1>2. expired \in BOOLEAN
  BY DEF Expired
<1>3. CASE refused
  BY <1>0, <1>1, <1>3 DEF Refuses
<1>4. CASE ~ refused /\ NoTable(s)
  <2>1. Die(s, FirstPending(s))
    BY <1>1, <1>4
  <2>2. server[s].state \in {"ACTIVE", "PASSIVE", "PRIMARY"}
    <3>1. server[s].state \in State \cup {"DOWN"} /\ server[s].state # "DOWN"
      BY <1>0 DEF Runs, Up, ServerTypeOK
    <3>2. server[s].state # "BACKUP"
      BY <1>4 DEF Refused
    <3> QED BY <3>1, <3>2 DEF State
  <2>3. Dies(s)
    BY <1>4, <2>1, <2>2, FirstPendingIs DEF Dies
  <2> QED BY <1>0, <2>3
<1>5. CASE ~ refused /\ ~ NoTable(s) /\ takes
  <2>1. /\ ask' = [ask EXCEPT ![<<x, s>>] = @ - 1]
        /\ snap' = [snap EXCEPT ![<<x, s>>] = @ \o Snapshot(NewActive(s))]
        /\ server' = [server EXCEPT ![s] = NewActive(s)]
        /\ TakesOver(s)
        /\ UNCHANGED <<subs, pubs, updates, tainted>>
    BY <1>1, <1>5
  <2>2. server[s].state \in {"PRIMARY", "PASSIVE"} /\ expired
    BY <1>2, <1>5 DEF NextState
  <2>3. MayTakeOver(s)
    BY <1>0, <1>2, <2>2 DEF MayTakeOver, Expired
  <2> QED BY <1>0, <1>5, <2>1, <2>3 DEF Replies
<1>6. CASE ~ refused /\ ~ NoTable(s) /\ ~ takes
  <2>1. /\ ask' = [ask EXCEPT ![<<x, s>>] = @ - 1]
        /\ snap' = [snap EXCEPT ![<<x, s>>] = @ \o Snapshot(server[s])]
        /\ server' = [server EXCEPT ![s] = server[s]]
        /\ UNCHANGED <<out, log, subs, pubs, updates, tainted>>
    BY <1>1, <1>6
  <2>2. server[s].state = "ACTIVE"
    <3>1. server[s].state \in State \cup {"DOWN"} /\ server[s].state # "DOWN"
      BY <1>0 DEF Runs, Up, ServerTypeOK
    <3>2. server[s].state # "BACKUP"
      BY <1>6 DEF Refused
    <3>3. server[s].state \notin {"PRIMARY", "PASSIVE"}
      <4>1. CASE expired
        BY <1>6, <4>1 DEF NextState
      <4>2. CASE ~ expired
        BY <1>6, <4>2 DEF Refused
      <4> QED BY <4>1, <4>2
    <3> QED BY <3>1, <3>2, <3>3 DEF State
  <2>3. server' = server
    BY <2>1 DEF ServerTypeOK
  <2> QED BY <1>0, <1>6, <2>1, <2>2, <2>3 DEF Replies, Active
<1> QED BY <1>3, <1>4, <1>5, <1>6

\* The record of a server that takes over, and what it numbers.
LEMMA NewActiveIs ==
    ASSUME ServerTypeOK, NEW s \in Server, NoTable(s) => server[s].pending = <<>>
    PROVE  LET msgs == Renumbered(server[s].pending, server[s].sequence) IN
           /\ msgs \in Seq(Published)
           /\ Len(msgs) = Len(server[s].pending)
           /\ NewActive(s) \in ServerRecord
           /\ NewActive(s).state = "ACTIVE"
           /\ NewActive(s).pending = <<>>
           /\ NewActive(s).asking = server[s].asking
           /\ NewActive(s).sequence = server[s].sequence + Len(msgs)
           /\ NoTable(s) => NewActive(s).kvmap = Null /\ Len(msgs) = 0 /\ msgs = <<>>
           /\ ~ NoTable(s) => /\ NewActive(s).kvmap = Stored(server[s].kvmap, msgs)
                              /\ NewActive(s).kvmap \in Table
<1> DEFINE msgs == Renumbered(server[s].pending, server[s].sequence)
<1>1. server[s] \in ServerRecord
  BY ServerRecords
<1>2. /\ msgs \in Seq(Published) /\ Len(msgs) = Len(server[s].pending)
      /\ msgs \in Seq(Update) /\ Len(msgs) \in Nat
  BY <1>1, RenumberedType, PublishedIsUpdate DEF ServerRecord
<1>3. NoTable(s) => msgs = <<>> /\ Len(msgs) = 0
  BY <1>2 DEF NoTable
<1>4. ~ NoTable(s) => Stored(server[s].kvmap, msgs) \in Table
  BY <1>1, <1>2, StoredType DEF NoTable, ServerRecord
<1> HIDE DEF msgs
<1>5. NewActive(s) = [server[s] EXCEPT !.state = "ACTIVE", !.pending = <<>>,
                                       !.sequence = @ + Len(msgs),
                                       !.kvmap = IF @ = Null THEN Null ELSE Stored(@, msgs)]
  BY DEF NewActive, msgs
<1>6. NewActive(s) \in ServerRecord
  <2>1. /\ "ACTIVE" \in State \cup {"DOWN"} /\ <<>> \in Seq(Update)
        /\ server[s].sequence + Len(msgs) \in Nat
    BY <1>1, <1>2 DEF ServerRecord, State
  <2>2. (IF server[s].kvmap = Null THEN Null ELSE Stored(server[s].kvmap, msgs))
           \in Table \cup {Null}
    BY <1>4 DEF NoTable
  <2> QED BY <1>1, <1>5, <2>1, <2>2 DEF ServerRecord
<1>7. /\ NewActive(s).state = "ACTIVE" /\ NewActive(s).pending = <<>>
      /\ NewActive(s).asking = server[s].asking
      /\ NewActive(s).sequence = server[s].sequence + Len(msgs)
      /\ NewActive(s).kvmap = IF server[s].kvmap = Null THEN Null ELSE Stored(server[s].kvmap, msgs)
  BY <1>1, <1>5 DEF ServerRecord
<1> QED BY <1>2, <1>3, <1>4, <1>6, <1>7 DEF NoTable, msgs

\* A change of one server's record.
LEMMA OneRecord ==
    ASSUME ServerTypeOK, NEW s \in Server, NEW r \in ServerRecord,
           server' = [server EXCEPT ![s] = r]
    PROVE  /\ server' \in [Server -> ServerRecord]
           /\ server'[s] = r
           /\ \A q \in Server : q # s => server'[q] = server[q]
BY ServerRecords

\* Position i is the last of the first n that has key k.
LastWith(list, n, k, i) ==
    /\ i \in 1 .. n
    /\ list[i].key = k
    /\ \A j \in 1 .. n : list[j].key = k => j <= i

NoneWith(list, n, k) == \A i \in 1 .. n : list[i].key # k

\* Of a key some message is the last one in a list, or none has it.
LEMMA LastOrNone ==
    ASSUME NEW list, NEW n \in Nat, NEW k
    PROVE  NoneWith(list, n, k) \/ \E i \in 1 .. n : LastWith(list, n, k, i)
<1> DEFINE of == {i \in 1 .. n : list[i].key = k}
<1>1. of \in SUBSET (1 .. n)
  OBVIOUS
<1>2. CASE of = {}
  BY <1>2 DEF NoneWith
<1>3. CASE of # {}
  <2>1. PICK i \in of : \A j \in of : j <= i
    <3> HIDE DEF of
    <3> QED BY <1>1, <1>3, LastPosition
  <2> QED BY <2>1 DEF LastWith
<1> QED BY <1>2, <1>3

\* The last one is one.
LEMMA LastOfUnique ==
    ASSUME NEW list, NEW n \in Nat, NEW k, NEW i, LastWith(list, n, k, i)
    PROVE  LET of == {j \in 1 .. n : list[j].key = k} IN
             of # {} /\ (CHOOSE j \in of : \A h \in of : h <= j) = i
<1> DEFINE of == {j \in 1 .. n : list[j].key = k}
<1>1. /\ i \in of /\ \A h \in of : h <= i
      /\ of \subseteq Int
  BY DEF LastWith
<1>2. \A j \in of : (\A h \in of : h <= j) => j = i
  <2> TAKE j \in of
  <2> HAVE \A h \in of : h <= j
  <2>1. i <= j /\ j <= i /\ i \in Int /\ j \in Int
    BY <1>1
  <2> QED BY <2>1
<1> HIDE DEF of
<1>3. (CHOOSE j \in of : \A h \in of : h <= j) = i
  BY <1>1, <1>2
<1> QED BY <1>1, <1>3 DEF of

\* What the table of a list of updates holds of a key, and what is stored of a
\* list of messages.
LEMMA TableOfIs ==
    ASSUME NEW list, NEW n \in Nat, NEW k \in Key
    PROVE  /\ NoneWith(list, n, k) => Map!TableOf(list, n)[k] = NoMsg
           /\ \A i : LastWith(list, n, k, i) =>
                Map!TableOf(list, n)[k] = IF list[i].body THEN list[i].uuid ELSE NoMsg
<1> DEFINE of == {j \in 1 .. n : list[j].key = k}
<1>1. Map!TableOf(list, n)[k] =
        IF of = {} THEN NoMsg
        ELSE LET last == CHOOSE i \in of : \A j \in of : j <= i IN
               IF list[last].body THEN list[last].uuid ELSE NoMsg
  BY DEF Map!TableOf
<1>2. NoneWith(list, n, k) => of = {}
  BY DEF NoneWith
<1>3. ASSUME NEW i, LastWith(list, n, k, i)
      PROVE  of # {} /\ (CHOOSE j \in of : \A h \in of : h <= j) = i
  BY <1>3, LastOfUnique
<1> HIDE DEF of
<1> QED BY <1>1, <1>2, <1>3

\* Stored by the last message of each key.
LEMMA StoredIs ==
    ASSUME NEW map, NEW S, NEW msgs \in Seq(S), NEW k \in Key
    PROVE  /\ NoneWith(msgs, Len(msgs), k) => Stored(map, msgs)[k] = map[k]
           /\ \A i : LastWith(msgs, Len(msgs), k, i) =>
                Stored(map, msgs)[k] = IF msgs[i].body THEN msgs[i] ELSE NoMsg
<1> DEFINE of == {j \in 1 .. Len(msgs) : msgs[j].key = k}
<1>0. DOMAIN msgs = 1 .. Len(msgs) /\ Len(msgs) \in Nat
  OBVIOUS
<1>1. Stored(map, msgs)[k] =
        IF of = {} THEN map[k]
        ELSE LET last == CHOOSE i \in of : \A j \in of : j <= i IN
               IF msgs[last].body THEN msgs[last] ELSE NoMsg
  BY <1>0 DEF Stored
<1>2. NoneWith(msgs, Len(msgs), k) => of = {}
  BY DEF NoneWith
<1>3. ASSUME NEW i, LastWith(msgs, Len(msgs), k, i)
      PROVE  of # {} /\ (CHOOSE j \in of : \A h \in of : h <= j) = i
  BY <1>0, <1>3, LastOfUnique
<1> HIDE DEF of
<1> QED BY <1>1, <1>2, <1>3

\* The first n updates alone decide on their table.
LEMMA TablePrefix ==
    ASSUME NEW list, NEW other, NEW n \in Nat, \A i \in 1 .. n : list[i] = other[i]
    PROVE  Map!TableOf(list, n) = Map!TableOf(other, n)
<1>1. ASSUME NEW k \in Key
      PROVE  Map!TableOf(list, n)[k] = Map!TableOf(other, n)[k]
  <2>1. CASE NoneWith(list, n, k)
    <3>1. NoneWith(other, n, k)
      BY <2>1 DEF NoneWith
    <3> QED BY <2>1, <3>1, TableOfIs
  <2>2. CASE \E i \in 1 .. n : LastWith(list, n, k, i)
    <3>1. PICK i \in 1 .. n : LastWith(list, n, k, i)
      BY <2>2
    <3>2. LastWith(other, n, k, i)
      BY <3>1 DEF LastWith
    <3> QED BY <3>1, <3>2, TableOfIs
  <2> QED BY <2>1, <2>2, LastOrNone
<1> QED BY <1>1 DEF Map!TableOf

\* A table as uuids, key by key.
LEMMA NamesIs ==
    ASSUME NEW map, NEW k \in Key
    PROVE  Names(map)[k] = IF map[k] = NoMsg THEN NoMsg ELSE map[k].uuid
BY DEF Names

\* Nothing has been stored in the empty table.
LEMMA EmptyTable ==
    ASSUME NEW list
    PROVE  Names(EmptyMap) = Map!TableOf(list, 0)
<1>1. ASSUME NEW k \in Key
      PROVE  Names(EmptyMap)[k] = NoMsg /\ Map!TableOf(list, 0)[k] = NoMsg
  <2>1. NoneWith(list, 0, k)
    BY DEF NoneWith
  <2> QED BY <2>1, TableOfIs DEF Names, EmptyMap
<1> QED BY <1>1 DEF Names, Map!TableOf

\* One update more.
LEMMA TableStore ==
    ASSUME NEW map \in Table, NEW m \in Update, NEW list, NEW n \in Nat,
           list[n + 1].key = m.key, list[n + 1].uuid = m.uuid, list[n + 1].body = m.body,
           Names(map) = Map!TableOf(list, n)
    PROVE  Names(Store(map, m)) = Map!TableOf(list, n + 1)
<1>0. n + 1 \in Nat
  OBVIOUS
<1>1. ASSUME NEW k \in Key
      PROVE  Names(Store(map, m))[k] = Map!TableOf(list, n + 1)[k]
  <2>1. CASE k = m.key
    <3>1. LastWith(list, n + 1, k, n + 1)
      BY <2>1 DEF LastWith
    <3>2. Map!TableOf(list, n + 1)[k] = IF m.body THEN m.uuid ELSE NoMsg
      BY <1>0, <3>1, TableOfIs
    <3>3. Store(map, m)[k] = IF m.body THEN m ELSE NoMsg
      BY <2>1 DEF Store, Table
    <3> QED BY <3>2, <3>3, NamesIs, UpdateFields
  <2>2. CASE k # m.key
    <3>1. Store(map, m)[k] = map[k]
      BY <2>2 DEF Store, Table
    <3>2. Names(Store(map, m))[k] = Map!TableOf(list, n)[k]
      BY <3>1, NamesIs
    <3>3. CASE NoneWith(list, n, k)
      <4>1. NoneWith(list, n + 1, k)
        BY <2>2, <3>3 DEF NoneWith
      <4> QED BY <1>0, <3>2, <3>3, <4>1, TableOfIs
    <3>4. CASE \E i \in 1 .. n : LastWith(list, n, k, i)
      <4>1. PICK i \in 1 .. n : LastWith(list, n, k, i)
        BY <3>4
      <4>2. LastWith(list, n + 1, k, i)
        BY <2>2, <4>1 DEF LastWith
      <4> QED BY <1>0, <3>2, <4>1, <4>2, TableOfIs
    <3> QED BY <3>3, <3>4, LastOrNone
  <2> QED BY <2>1, <2>2
<1> QED BY <1>1 DEF Names, Map!TableOf

\* More updates, stored one after another.
LEMMA TableStored ==
    ASSUME NEW map \in Table, NEW msgs \in Seq(Update), NEW list, NEW n \in Nat,
           \A i \in 1 .. Len(msgs) : list[n + i] = msgs[i],
           Names(map) = Map!TableOf(list, n)
    PROVE  Names(Stored(map, msgs)) = Map!TableOf(list, n + Len(msgs))
<1>0. Len(msgs) \in Nat /\ n + Len(msgs) \in Nat /\ \A i \in 1 .. Len(msgs) : msgs[i] \in Update
  OBVIOUS
<1> PICK len \in Nat : len = Len(msgs)
  BY <1>0
<1>1. ASSUME NEW k \in Key
      PROVE  Names(Stored(map, msgs))[k] = Map!TableOf(list, n + len)[k]
  <2>0. \A j \in 1 .. n + len : j \in 1 .. n \/ (j - n \in 1 .. len /\ list[j] = msgs[j - n])
    <3> TAKE j \in 1 .. n + len
    <3>1. CASE j <= n
      BY <3>1
    <3>2. CASE ~ (j <= n)
      <4>1. j - n \in 1 .. len /\ n + (j - n) = j
        BY <3>2
      <4> QED BY <4>1
    <3> QED BY <3>1, <3>2
  <2>1. CASE NoneWith(msgs, len, k)
    <3>1. Names(Stored(map, msgs))[k] = Map!TableOf(list, n)[k]
      BY <2>1, StoredIs, NamesIs
    <3>2. CASE NoneWith(list, n, k)
      <4>1. NoneWith(list, n + len, k)
        BY <2>0, <2>1, <3>2 DEF NoneWith
      <4> QED BY <1>0, <3>1, <3>2, <4>1, TableOfIs
    <3>3. CASE \E i \in 1 .. n : LastWith(list, n, k, i)
      <4>1. PICK i \in 1 .. n : LastWith(list, n, k, i)
        BY <3>3
      <4>2. LastWith(list, n + len, k, i)
        BY <2>0, <2>1, <4>1 DEF LastWith, NoneWith
      <4> QED BY <1>0, <3>1, <4>1, <4>2, TableOfIs
    <3> QED BY <3>2, <3>3, LastOrNone
  <2>2. CASE \E i \in 1 .. len : LastWith(msgs, len, k, i)
    <3>1. PICK i \in 1 .. len : LastWith(msgs, len, k, i)
      BY <2>2
    <3>2. LastWith(list, n + len, k, n + i)
      <4>1. n + i \in 1 .. n + len /\ list[n + i] = msgs[i] /\ msgs[i].key = k
        BY <3>1 DEF LastWith
      <4>2. \A j \in 1 .. n + len : list[j].key = k => j <= n + i
        <5> TAKE j \in 1 .. n + len
        <5> HAVE list[j].key = k
        <5>1. CASE j \in 1 .. n
          BY <5>1
        <5>2. CASE j - n \in 1 .. len /\ list[j] = msgs[j - n]
          <6>1. j - n <= i
            BY <3>1, <5>2 DEF LastWith
          <6> QED BY <6>1
        <5> QED BY <2>0, <5>1, <5>2
      <4> QED BY <4>1, <4>2 DEF LastWith
    <3>3. Map!TableOf(list, n + len)[k] = IF msgs[i].body THEN msgs[i].uuid ELSE NoMsg
      BY <1>0, <3>1, <3>2, TableOfIs
    <3>4. Stored(map, msgs)[k] = IF msgs[i].body THEN msgs[i] ELSE NoMsg
      BY <3>1, StoredIs
    <3>5. msgs[i] \in Update
      BY <1>0
    <3> QED BY <3>3, <3>4, <3>5, NamesIs, UpdateFields
  <2> QED BY <2>1, <2>2, LastOrNone
<1>2. Names(Stored(map, msgs)) = Map!TableOf(list, n + len)
  BY <1>1 DEF Names, Map!TableOf
<1> QED BY <1>2

\* Every value of a table stands under its key, and has a body.
Tidy(map) == \A k \in Key : map[k] # NoMsg => map[k].key = k /\ map[k].body

\* A tidy table has every value at its own key, with a body.
LEMMA TidyEmpty == Tidy(EmptyMap)
BY DEF Tidy, EmptyMap

\* Storing a message keeps a table tidy.
LEMMA TidyStore ==
    ASSUME NEW map \in Table, Tidy(map), NEW m \in Update
    PROVE  Tidy(Store(map, m))
BY UpdateFields DEF Tidy, Store, Table

\* So does storing a list.
LEMMA TidyStored ==
    ASSUME NEW map \in Table, Tidy(map), NEW msgs \in Seq(Update)
    PROVE  Tidy(Stored(map, msgs))
<1>1. SUFFICES ASSUME NEW k \in Key, Stored(map, msgs)[k] # NoMsg
               PROVE  Stored(map, msgs)[k].key = k /\ Stored(map, msgs)[k].body
  BY DEF Tidy
<1>2. CASE NoneWith(msgs, Len(msgs), k)
  BY <1>1, <1>2, StoredIs DEF Tidy
<1>3. CASE \E i \in 1 .. Len(msgs) : LastWith(msgs, Len(msgs), k, i)
  <2>1. PICK i \in 1 .. Len(msgs) : LastWith(msgs, Len(msgs), k, i)
    BY <1>3
  <2>2. Stored(map, msgs)[k] = IF msgs[i].body THEN msgs[i] ELSE NoMsg
    BY <2>1, StoredIs
  <2> QED BY <1>1, <2>1, <2>2 DEF LastWith
<1>4. Len(msgs) \in Nat
  OBVIOUS
<1> QED BY <1>2, <1>3, <1>4, LastOrNone

Reply == Update \cup [kthxbai : Nat]

\* Only the last message of a snapshot is an end.
LEMMA EndIs ==
    /\ \A m \in Update : ~ IsEnd(m)
    /\ \A m \in [kthxbai : Nat] : IsEnd(m) /\ m.kthxbai \in Nat
    /\ \A n \in Nat : Kthxbai(n) \in [kthxbai : Nat] /\ Kthxbai(n).kthxbai = n
<1>1. ASSUME NEW m \in Update PROVE ~ IsEnd(m)
  <2>1. DOMAIN m = {"key", "seq", "uuid", "body", "ttl", "cut"}
    BY DEF Update, Message
  <2> QED BY <2>1 DEF IsEnd
<1>2. ASSUME NEW m \in [kthxbai : Nat] PROVE IsEnd(m) /\ m.kthxbai \in Nat
  BY DEF IsEnd
<1>3. \A n \in Nat : Kthxbai(n) \in [kthxbai : Nat] /\ Kthxbai(n).kthxbai = n
  BY DEF Kthxbai
<1> QED BY <1>1, <1>2, <1>3

\* The values of a table as a sequence.
LEMMA ValuesIs ==
    ASSUME NEW map \in Table
    PROVE  LET values == SetToSeq({map[k] : k \in Key} \ {NoMsg}) IN
           /\ values \in Seq(Update)
           /\ \A i \in 1 .. Len(values) : \E k \in Key : values[i] = map[k] /\ map[k] # NoMsg
           /\ \A k \in Key : map[k] # NoMsg => \E i \in 1 .. Len(values) : values[i] = map[k]
           /\ \A i, j \in 1 .. Len(values) : values[i] = values[j] => i = j
<1> DEFINE S == {map[k] : k \in Key} \ {NoMsg}
<1>1. IsFiniteSet(S)
  <2> DEFINE T == {map[k] : k \in Key}
             f == [k \in Key |-> map[k]]
  <2>1. f \in Surjection(Key, T)
    BY DEF Surjection
  <2>2. IsFiniteSet(T)
    <3> HIDE DEF f, T
    <3> QED BY <2>1, FS_Surjection, CloneAssumption
  <2>3. S \in SUBSET T
    OBVIOUS
  <2> HIDE DEF S, T
  <2> QED BY <2>2, <2>3, FS_Subset
<1>2. S \subseteq Update
  BY DEF Table
<1>3. /\ SetToSeq(S) \in Seq(S)
      /\ \A x \in S : \E i \in 1 .. Len(SetToSeq(S)) : SetToSeq(S)[i] = x
      /\ \A i, j \in 1 .. Len(SetToSeq(S)) : SetToSeq(S)[i] = SetToSeq(S)[j] => i = j
  <2> HIDE DEF S
  <2> QED BY <1>1, SetToSeqIs
<1>4. SetToSeq(S) \in Seq(Update)
  <2> HIDE DEF S
  <2> QED BY <1>2, <1>3, SeqMonotonic
<1>5. \A i \in 1 .. Len(SetToSeq(S)) : SetToSeq(S)[i] \in S
  <2> HIDE DEF S
  <2> QED BY <1>3, ElementOfSeq
<1> PICK values : values = SetToSeq(S)
  OBVIOUS
<1>6. \A i \in 1 .. Len(values) : \E k \in Key : values[i] = map[k] /\ map[k] # NoMsg
  BY <1>5
<1>7. \A k \in Key : map[k] # NoMsg => \E i \in 1 .. Len(values) : values[i] = map[k]
  BY <1>3
<1>8. \A i, j \in 1 .. Len(values) : values[i] = values[j] => i = j
  BY <1>3
<1>9. values \in Seq(Update)
  BY <1>4
<1> QED BY <1>6, <1>7, <1>8, <1>9

\* A snapshot is a list of values and an end, from which the table is made
\* again.
LEMMA SnapshotIs ==
    ASSUME NEW r, r.kvmap \in Table, Tidy(r.kvmap), r.sequence \in Nat
    PROVE  LET reply == Snapshot(r)
               n == Len(reply) IN
           /\ reply \in Seq(Reply)
           /\ n \in Nat \ {0}
           /\ IsEnd(reply[n]) /\ reply[n].kthxbai = r.sequence
           /\ \A i \in 1 .. n - 1 : reply[i] \in Update /\ ~ IsEnd(reply[i])
           /\ Names(Stored(EmptyMap, SubSeq(reply, 1, n - 1))) = Names(r.kvmap)
<1> PICK map : map = r.kvmap
  OBVIOUS
<1> PICK values : values = SetToSeq({map[k] : k \in Key} \ {NoMsg})
  OBVIOUS
<1>1. /\ values \in Seq(Update)
      /\ \A i \in 1 .. Len(values) : \E k \in Key : values[i] = map[k] /\ map[k] # NoMsg
      /\ \A k \in Key : map[k] # NoMsg => \E i \in 1 .. Len(values) : values[i] = map[k]
      /\ \A i, j \in 1 .. Len(values) : values[i] = values[j] => i = j
  <2>1. map \in Table
    OBVIOUS
  <2>2. LET vs == SetToSeq({map[k] : k \in Key} \ {NoMsg}) IN
        /\ vs \in Seq(Update)
        /\ \A i \in 1 .. Len(vs) : \E k \in Key : vs[i] = map[k] /\ map[k] # NoMsg
        /\ \A k \in Key : map[k] # NoMsg => \E i \in 1 .. Len(vs) : vs[i] = map[k]
        /\ \A i, j \in 1 .. Len(vs) : vs[i] = vs[j] => i = j
    BY <2>1, ValuesIs
  <2> QED BY <2>2
<1> PICK kvs : kvs = Wired(values)
  OBVIOUS
<1>2. /\ kvs \in Seq(Update) /\ Len(kvs) = Len(values) /\ Len(kvs) \in Nat
      /\ \A i \in 1 .. Len(kvs) : kvs[i] = OnWire(values[i]) /\ kvs[i] \in Update
                                  /\ values[i] \in Update
  <2>1. kvs \in Seq(Update) /\ Len(kvs) = Len(values)
        /\ \A i \in 1 .. Len(values) : kvs[i] = OnWire(values[i])
    BY <1>1, WiredType
  <2>2. Len(kvs) \in Nat /\ \A i \in 1 .. Len(kvs) : kvs[i] \in Update
    BY <2>1, LenProperties, ElementOfSeq
  <2>3. \A i \in 1 .. Len(values) : values[i] \in Update
    BY <1>1
  <2> QED BY <2>1, <2>2, <2>3
<1>3. Snapshot(r) = Append(kvs, Kthxbai(r.sequence))
  BY DEF Snapshot
<1> PICK reply : reply = Snapshot(r)
  OBVIOUS
<1>4. /\ reply \in Seq(Reply) /\ Len(reply) = Len(kvs) + 1
      /\ reply[Len(reply)] = Kthxbai(r.sequence)
      /\ \A i \in 1 .. Len(reply) - 1 : reply[i] = kvs[i]
  <2>1. kvs \in Seq(Reply) /\ Kthxbai(r.sequence) \in Reply
    BY <1>2, EndIs, SeqMonotonic DEF Reply
  <2> QED BY <1>2, <1>3, <2>1
<1>5. SubSeq(reply, 1, Len(reply) - 1) = kvs
  <2>1. Len(reply) - 1 = Len(kvs) /\ Len(reply) - 1 \in Int /\ Len(kvs) \in Nat
    BY <1>2, <1>4
  <2>2. \A i \in 1 .. Len(reply) - 1 : reply[i] \in Update
    BY <1>2, <1>4, <2>1
  <2>3. /\ SubSeq(reply, 1, Len(reply) - 1) \in Seq(Update)
        /\ Len(SubSeq(reply, 1, Len(reply) - 1)) = Len(kvs)
        /\ \A i \in 1 .. Len(kvs) : SubSeq(reply, 1, Len(reply) - 1)[i] = reply[i]
    <3> PICK n \in Nat : n = Len(reply) - 1 /\ n = Len(kvs)
      BY <2>1
    <3>1. n \in Int /\ 1 \in Int /\ n - 1 + 1 = n /\ (1 <= n \/ n = 0)
      OBVIOUS
    <3>2. /\ SubSeq(reply, 1, n) \in Seq(Update)
          /\ Len(SubSeq(reply, 1, n)) = IF 1 <= n THEN n - 1 + 1 ELSE 0
          /\ \A i \in 1 .. n - 1 + 1 : SubSeq(reply, 1, n)[i] = reply[1 + i - 1]
      BY <2>2, <3>1, SubSeqProperties
    <3>3. \A i \in 1 .. n : SubSeq(reply, 1, n)[i] = reply[i]
      BY <3>1, <3>2
    <3> QED BY <3>1, <3>2, <3>3
  <2> QED BY <1>2, <1>4, <2>1, <2>3, SeqEqual
<1>6. ASSUME NEW k \in Key
      PROVE  Names(Stored(EmptyMap, kvs))[k] = Names(map)[k]
  <2>1. CASE map[k] = NoMsg
    <3>1. NoneWith(kvs, Len(kvs), k)
      <4>1. SUFFICES ASSUME NEW i \in 1 .. Len(kvs), kvs[i].key = k PROVE FALSE
        BY DEF NoneWith
      <4>2. values[i].key = k
        BY <1>2, <4>1, OnWireType
      <4>3. PICK h \in Key : values[i] = map[h] /\ map[h] # NoMsg
        BY <1>1, <1>2
      <4>4. h = k
        BY <4>2, <4>3 DEF Tidy
      <4> QED BY <2>1, <4>3, <4>4
    <3>2. Stored(EmptyMap, kvs)[k] = NoMsg
      BY <1>2, <3>1, StoredIs DEF EmptyMap
    <3> QED BY <2>1, <3>2, NamesIs
  <2>2. CASE map[k] # NoMsg
    <3>1. PICK i \in 1 .. Len(kvs) : values[i] = map[k]
      BY <1>1, <1>2, <2>2
    <3>2. kvs[i].key = k /\ kvs[i].body /\ kvs[i].uuid = map[k].uuid /\ kvs[i] \in Update
      BY <1>2, <2>2, <3>1, OnWireType DEF Tidy
    <3>3. ASSUME NEW j \in 1 .. Len(kvs), kvs[j].key = k PROVE j = i
      <4>1. values[j].key = k
        BY <1>2, <3>3, OnWireType
      <4>2. PICK h \in Key : values[j] = map[h] /\ map[h] # NoMsg
        BY <1>1, <1>2
      <4>3. h = k
        BY <4>1, <4>2 DEF Tidy
      <4> QED BY <1>1, <1>2, <3>1, <4>2, <4>3
    <3>4. LastWith(kvs, Len(kvs), k, i)
      <4>1. \A j \in 1 .. Len(kvs) : kvs[j].key = k => j <= i
        <5> TAKE j \in 1 .. Len(kvs)
        <5> HAVE kvs[j].key = k
        <5>1. j = i
          BY <3>3
        <5> QED BY <5>1
      <4> QED BY <3>2, <4>1 DEF LastWith
    <3>5. Stored(EmptyMap, kvs)[k] = kvs[i]
      BY <1>2, <3>2, <3>4, StoredIs
    <3> QED BY <2>2, <3>2, <3>5, NamesIs, UpdateFields
  <2> QED BY <2>1, <2>2
<1>7. Names(Stored(EmptyMap, kvs)) = Names(map)
  BY <1>6 DEF Names
<1>8. IsEnd(reply[Len(reply)]) /\ reply[Len(reply)].kthxbai = r.sequence
  BY <1>4, EndIs
<1>9. \A i \in 1 .. Len(reply) - 1 : reply[i] \in Update /\ ~ IsEnd(reply[i])
  <2>1. Len(reply) - 1 = Len(kvs)
    BY <1>2, <1>4
  <2>2. \A i \in 1 .. Len(kvs) : reply[i] \in Update
    BY <1>2, <1>4, <2>1
  <2> QED BY <2>1, <2>2, EndIs
<1>10. Len(reply) \in Nat \ {0}
  BY <1>2, <1>4
<1> QED BY <1>4, <1>5, <1>7, <1>8, <1>9, <1>10

\* Where the first end of a snapshot is, and what comes before it.
LEMMA FirstEnd ==
    ASSUME NEW reply \in Seq(Reply)
    PROVE  LET end == SelectInSeq(reply, IsEnd) IN
           /\ end \in 0 .. Len(reply)
           /\ end > 0 => /\ IsEnd(reply[end]) /\ reply[end].kthxbai \in Nat
                         /\ SubSeq(reply, 1, end - 1) \in Seq(Update)
           /\ \A n \in 1 .. Len(reply) :
                IsEnd(reply[n]) /\ (\A i \in 1 .. n - 1 : ~ IsEnd(reply[i])) => end = n
<1> DEFINE of == {i \in 1 .. Len(reply) : IsEnd(reply[i])}
<1>1. /\ Len(reply) \in Nat /\ of \in SUBSET (1 .. Len(reply))
      /\ \A i \in 1 .. Len(reply) : reply[i] \in Reply
  OBVIOUS
<1> PICK end : end = SelectInSeq(reply, IsEnd)
  OBVIOUS
<1>2. end = IF of # {} THEN Min(of) ELSE 0
  BY DEF SelectInSeq
<1>3. of # {} => end \in of /\ \A j \in of : end <= j
  <2> HIDE DEF of
  <2> SUFFICES ASSUME of # {} PROVE end \in of /\ \A j \in of : end <= j
    OBVIOUS
  <2>1. end = Min(of)
    BY <1>2
  <2>2. Len(reply) \in Nat /\ of \in SUBSET (1 .. Len(reply))
    BY <1>1
  <2>3. Min(of) \in of /\ \A j \in of : Min(of) <= j
    BY <2>2, FirstPosition
  <2> QED BY <2>1, <2>3
<1>4. end \in 0 .. Len(reply) /\ (end > 0 => of # {})
  BY <1>1, <1>2, <1>3
<1>5. ASSUME end > 0
      PROVE  /\ IsEnd(reply[end]) /\ reply[end].kthxbai \in Nat
             /\ SubSeq(reply, 1, end - 1) \in Seq(Update)
  <2>1. end \in 1 .. Len(reply) /\ IsEnd(reply[end]) /\ \A j \in of : end <= j
    BY <1>3, <1>4, <1>5
  <2>2. reply[end].kthxbai \in Nat
    BY <1>1, <2>1, EndIs DEF Reply
  <2>3. \A i \in 1 .. end - 1 : reply[i] \in Update
    <3> TAKE i \in 1 .. end - 1
    <3>1. i \in 1 .. Len(reply) /\ ~ (end <= i)
      BY <1>1, <2>1
    <3>2. ~ IsEnd(reply[i])
      BY <2>1, <3>1
    <3> QED BY <1>1, <3>1, <3>2, EndIs DEF Reply
  <2>4. SubSeq(reply, 1, end - 1) \in Seq(Update)
    <3>1. end - 1 \in Int
      BY <2>1
    <3> QED BY <2>3, <3>1, SubSeqProperties
  <2> QED BY <2>1, <2>2, <2>4
<1>6. ASSUME NEW n \in 1 .. Len(reply), IsEnd(reply[n]), \A i \in 1 .. n - 1 : ~ IsEnd(reply[i])
      PROVE  end = n
  <2>1. n \in of
    BY <1>6
  <2>2. end \in of /\ end <= n /\ IsEnd(reply[end])
    BY <1>3, <2>1
  <2>3. end \in Int /\ n \in Int /\ end >= 1
    BY <1>1, <2>2
  <2>4. ~ (end \in 1 .. n - 1)
    BY <1>6, <2>2
  <2> QED BY <2>2, <2>3, <2>4
<1> QED BY <1>4, <1>5, <1>6

\* The updates of a list from place j + 1 to place k, as they arrive.
Piece(list, j, k) == Wired(SubSeq(list, j + 1, k))

\* The part of the log behind j up to k, as it is sent.
LEMMA PieceIs ==
    ASSUME NEW list \in Seq(Published), NEW k \in 0 .. Len(list), NEW j \in 0 .. k
    PROVE  /\ Piece(list, j, k) \in Seq(Published)
           /\ Len(Piece(list, j, k)) = k - j
           /\ \A i \in 1 .. k - j : Piece(list, j, k)[i] = OnWire(list[j + i])
           /\ \A i \in 1 .. k : list[i] \in Published
<1>1. /\ j \in Int /\ k \in Int /\ 0 <= j /\ j <= k /\ k <= Len(list) /\ Len(list) \in Int
      /\ \A i \in 1 .. k : list[i] \in Published
  OBVIOUS
<1> PICK part : part = SubSeq(list, j + 1, k)
  OBVIOUS
<1>2. /\ part \in Seq(Published) /\ Len(part) = k - j
      /\ \A i \in 1 .. k - j : part[i] = list[j + i]
  <2>1. j + 1 \in Int /\ (j + 1 <= k \/ k - j = 0) /\ k - (j + 1) + 1 = k - j
    BY <1>1
  <2>2. \A i \in j + 1 .. k : list[i] \in Published
    BY <1>1
  <2>3. /\ part \in Seq(Published)
        /\ Len(part) = IF j + 1 <= k THEN k - (j + 1) + 1 ELSE 0
        /\ \A i \in 1 .. k - (j + 1) + 1 : part[i] = list[j + 1 + i - 1]
    BY <1>1, <2>1, <2>2, SubSeqProperties
  <2>4. \A i \in 1 .. k - j : j + 1 + i - 1 = j + i
    BY <1>1
  <2> QED BY <1>1, <2>1, <2>3, <2>4
<1>3. part \in Seq(Update)
  BY <1>2, PublishedIsUpdate
<1>4. /\ Wired(part) \in Seq(Published) /\ Len(Wired(part)) = Len(part)
      /\ \A i \in 1 .. Len(part) : Wired(part)[i] = OnWire(part[i])
  BY <1>2, <1>3, WiredType
<1> QED BY <1>1, <1>2, <1>4 DEF Piece

\* It depends on no more than that part.
LEMMA PieceSame ==
    ASSUME NEW list \in Seq(Published), NEW other \in Seq(Published),
           NEW k \in 0 .. Len(list), k <= Len(other), NEW j \in 0 .. k,
           \A i \in 1 .. k : list[i] = other[i]
    PROVE  Piece(list, j, k) = Piece(other, j, k)
<1>1. k \in 0 .. Len(other)
  OBVIOUS
<1>2. \A i \in 1 .. k - j : j + i \in 1 .. k
  OBVIOUS
<1>3. /\ Piece(list, j, k) \in Seq(Published) /\ Len(Piece(list, j, k)) = k - j
      /\ \A i \in 1 .. k - j : Piece(list, j, k)[i] = OnWire(list[j + i])
  BY PieceIs
<1>4. /\ Piece(other, j, k) \in Seq(Published) /\ Len(Piece(other, j, k)) = k - j
      /\ \A i \in 1 .. k - j : Piece(other, j, k)[i] = OnWire(other[j + i])
  BY <1>1, PieceIs
<1>5. \A i \in 1 .. k - j : Piece(list, j, k)[i] = Piece(other, j, k)[i]
  BY <1>2, <1>3, <1>4
<1> QED BY <1>3, <1>4, <1>5, SeqEqual

\* A queue that has lost a suffix is a shorter piece.
LEMMA PieceTaken ==
    ASSUME NEW list \in Seq(Published), NEW k \in 0 .. Len(list), NEW j \in 0 .. k,
           NEW n \in 0 .. k - j
    PROVE  SubSeq(Piece(list, j, k), 1, n) = Piece(list, j, j + n)
<1> PICK whole : whole = Piece(list, j, k)
  OBVIOUS
<1>1. /\ whole \in Seq(Published) /\ Len(whole) = k - j
      /\ \A i \in 1 .. k - j : whole[i] = OnWire(list[j + i])
  BY PieceIs
<1>2. /\ n \in Int /\ 0 <= n /\ n <= k - j /\ j + n \in 0 .. Len(list) /\ j \in 0 .. j + n
      /\ j + n - j = n /\ k - j \in Int
  OBVIOUS
<1>3. \A i \in 1 .. n : whole[i] \in Published
  BY <1>1, <1>2, ElementOfSeq
<1>4. /\ SubSeq(whole, 1, n) \in Seq(Published) /\ Len(SubSeq(whole, 1, n)) = n
      /\ \A i \in 1 .. n : SubSeq(whole, 1, n)[i] = whole[i]
  <2>1. 1 \in Int /\ n - 1 + 1 = n /\ (1 <= n \/ n = 0) /\ \A i \in 1 .. n : 1 + i - 1 = i
    BY <1>2
  <2>2. /\ SubSeq(whole, 1, n) \in Seq(Published)
        /\ Len(SubSeq(whole, 1, n)) = IF 1 <= n THEN n - 1 + 1 ELSE 0
        /\ \A i \in 1 .. n - 1 + 1 : SubSeq(whole, 1, n)[i] = whole[1 + i - 1]
    BY <1>2, <1>3, <2>1, SubSeqProperties
  <2> QED BY <1>2, <2>1, <2>2
<1>5. /\ Piece(list, j, j + n) \in Seq(Published) /\ Len(Piece(list, j, j + n)) = n
      /\ \A i \in 1 .. n : Piece(list, j, j + n)[i] = OnWire(list[j + i])
  <2> PICK h \in Nat : h = j + n
    BY <1>2
  <2>1. h \in 0 .. Len(list) /\ j \in 0 .. h /\ h - j = n
    BY <1>2
  <2>2. /\ Piece(list, j, h) \in Seq(Published) /\ Len(Piece(list, j, h)) = h - j
        /\ \A i \in 1 .. h - j : Piece(list, j, h)[i] = OnWire(list[j + i])
    BY <2>1, PieceIs
  <2> QED BY <2>1, <2>2
<1>6. \A i \in 1 .. n : SubSeq(whole, 1, n)[i] = Piece(list, j, j + n)[i]
  BY <1>1, <1>2, <1>4, <1>5
<1> QED BY <1>4, <1>5, <1>6, SeqEqual

\* The first message of a piece, and the rest.
LEMMA PieceRead ==
    ASSUME NEW list \in Seq(Published), NEW k \in 0 .. Len(list), NEW j \in 0 .. k,
           Piece(list, j, k) # <<>>
    PROVE  /\ j < k
           /\ Head(Piece(list, j, k)) = OnWire(list[j + 1])
           /\ Tail(Piece(list, j, k)) = Piece(list, j + 1, k)
           /\ list[j + 1] \in Published
<1> PICK whole : whole = Piece(list, j, k)
  OBVIOUS
<1>1. /\ whole \in Seq(Published) /\ Len(whole) = k - j
      /\ \A i \in 1 .. k - j : whole[i] = OnWire(list[j + i])
      /\ \A i \in 1 .. k : list[i] \in Published
  BY PieceIs
<1>2. j < k
  BY <1>1, EmptySeq
<1>3. /\ j + 1 \in 0 .. k /\ k - (j + 1) = k - j - 1 /\ 1 \in 1 .. k - j
      /\ \A i \in 1 .. k - j - 1 : j + 1 + i = j + (i + 1) /\ i + 1 \in 1 .. k - j
  BY <1>2
<1>4. /\ Tail(whole) \in Seq(Published) /\ Len(Tail(whole)) = k - j - 1
      /\ \A i \in 1 .. k - j - 1 : Tail(whole)[i] = whole[i + 1]
  BY <1>1, HeadTailProperties
<1>5. /\ Piece(list, j + 1, k) \in Seq(Published)
      /\ Len(Piece(list, j + 1, k)) = k - (j + 1)
      /\ \A i \in 1 .. k - (j + 1) : Piece(list, j + 1, k)[i] = OnWire(list[j + 1 + i])
  BY <1>3, PieceIs
<1>6. \A i \in 1 .. k - j - 1 : Tail(whole)[i] = Piece(list, j + 1, k)[i]
  BY <1>1, <1>3, <1>4, <1>5
<1>7. Tail(whole) = Piece(list, j + 1, k)
  BY <1>3, <1>4, <1>5, <1>6, SeqEqual
<1>8. Head(whole) = whole[1]
  BY <1>1
<1> QED BY <1>1, <1>2, <1>3, <1>7, <1>8

\* The first k updates of a list, and others; what is published after what has
\* not been read.
Extended(list, k, msgs) == SubSeq(list, 1, k) \o msgs
Behind(queue, msgs) == queue \o Wired(msgs)

\* What is published goes to the end of what has not been read.
LEMMA PieceMore ==
    ASSUME NEW list \in Seq(Published), NEW k \in 0 .. Len(list), NEW j \in 0 .. k,
           NEW msgs \in Seq(Published)
    PROVE  /\ Extended(list, k, msgs) \in Seq(Published)
           /\ Len(Extended(list, k, msgs)) = k + Len(msgs)
           /\ \A i \in 1 .. k : Extended(list, k, msgs)[i] = list[i]
           /\ \A i \in 1 .. Len(msgs) : Extended(list, k, msgs)[k + i] = msgs[i]
           /\ Behind(Piece(list, j, k), msgs)
                = Piece(Extended(list, k, msgs), j, k + Len(msgs))
<1> PICK longer : longer = SubSeq(list, 1, k) \o msgs
  OBVIOUS
<1> PICK n \in Nat : n = Len(msgs)
  OBVIOUS
<1>1. /\ k \in Int /\ 0 <= k /\ k <= Len(list) /\ Len(list) \in Int
      /\ j \in Int /\ 0 <= j /\ j <= k
      /\ \A i \in 1 .. k : list[i] \in Published
  OBVIOUS
<1>2. /\ SubSeq(list, 1, k) \in Seq(Published) /\ Len(SubSeq(list, 1, k)) = k
      /\ \A i \in 1 .. k : SubSeq(list, 1, k)[i] = list[i]
  <2>1. 1 \in Int /\ k - 1 + 1 = k /\ (1 <= k \/ k = 0) /\ \A i \in 1 .. k : 1 + i - 1 = i
    BY <1>1
  <2>2. /\ SubSeq(list, 1, k) \in Seq(Published)
        /\ Len(SubSeq(list, 1, k)) = IF 1 <= k THEN k - 1 + 1 ELSE 0
        /\ \A i \in 1 .. k - 1 + 1 : SubSeq(list, 1, k)[i] = list[1 + i - 1]
    BY <1>1, <2>1, SubSeqProperties
  <2> QED BY <1>1, <2>1, <2>2
<1>3. /\ longer \in Seq(Published) /\ Len(longer) = k + n
      /\ \A i \in 1 .. k + n :
            longer[i] = IF i <= k THEN SubSeq(list, 1, k)[i] ELSE msgs[i - k]
  BY <1>2, ConcatProperties
<1>4. \A i \in 1 .. k : longer[i] = list[i]
  BY <1>1, <1>2, <1>3
<1>5. \A i \in 1 .. n : longer[k + i] = msgs[i]
  <2> TAKE i \in 1 .. n
  <2>1. k + i \in 1 .. k + n /\ ~ (k + i <= k) /\ k + i - k = i
    BY <1>1
  <2> QED BY <1>3, <2>1
<1> PICK old : old = Piece(list, j, k)
  OBVIOUS
<1>6. /\ old \in Seq(Published) /\ Len(old) = k - j
      /\ \A i \in 1 .. k - j : old[i] = OnWire(list[j + i])
  BY PieceIs
<1>7. /\ Wired(msgs) \in Seq(Published) /\ Len(Wired(msgs)) = n
      /\ \A i \in 1 .. n : Wired(msgs)[i] = OnWire(msgs[i])
  BY WiredType, PublishedIsUpdate
<1>8. /\ old \o Wired(msgs) \in Seq(Published) /\ Len(old \o Wired(msgs)) = k - j + n
      /\ \A i \in 1 .. k - j + n : (old \o Wired(msgs))[i] =
            IF i <= k - j THEN old[i] ELSE Wired(msgs)[i - (k - j)]
  <2> PICK wires : wires = Wired(msgs)
    OBVIOUS
  <2>1. old \in Seq(Published) /\ wires \in Seq(Published) /\ Len(old) = k - j /\ Len(wires) = n
    BY <1>6, <1>7
  <2>2. /\ old \o wires \in Seq(Published) /\ Len(old \o wires) = Len(old) + Len(wires)
        /\ \A i \in 1 .. Len(old) + Len(wires) : (old \o wires)[i] =
              IF i <= Len(old) THEN old[i] ELSE wires[i - Len(old)]
    BY ONLY <2>1, ConcatProperties
  <2> QED BY <2>1, <2>2
<1>9. /\ Piece(longer, j, k + n) \in Seq(Published) /\ Len(Piece(longer, j, k + n)) = k + n - j
      /\ \A i \in 1 .. k + n - j : Piece(longer, j, k + n)[i] = OnWire(longer[j + i])
  <2> PICK h \in Nat : h = k + n
    BY <1>1
  <2>1. h \in 0 .. Len(longer) /\ j \in 0 .. h
    BY <1>1, <1>3
  <2>2. /\ Piece(longer, j, h) \in Seq(Published) /\ Len(Piece(longer, j, h)) = h - j
        /\ \A i \in 1 .. h - j : Piece(longer, j, h)[i] = OnWire(longer[j + i])
    BY <1>3, <2>1, PieceIs
  <2> QED BY <2>2
<1>10. ASSUME NEW i \in 1 .. k - j + n
       PROVE  (old \o Wired(msgs))[i] = Piece(longer, j, k + n)[i]
  <2>1. i \in 1 .. k + n - j
    BY <1>1
  <2>2. CASE i <= k - j
    <3>1. j + i \in 1 .. k /\ i \in 1 .. k - j
      BY <1>1, <2>2
    <3> QED BY <1>4, <1>6, <1>8, <1>9, <2>1, <2>2, <3>1
  <2>3. CASE ~ (i <= k - j)
    <3>1. i - (k - j) \in 1 .. n /\ k + (i - (k - j)) = j + i
      BY <1>1, <2>3
    <3> QED BY <1>5, <1>7, <1>8, <1>9, <2>1, <2>3, <3>1
  <2> QED BY <2>2, <2>3
<1>11. k - j + n = k + n - j
  BY <1>1
<1>12. old \o Wired(msgs) = Piece(longer, j, k + n)
  BY <1>8, <1>9, <1>10, <1>11, SeqEqual
<1>13. Extended(list, k, msgs) = longer /\ Behind(Piece(list, j, k), msgs) = old \o Wired(msgs)
  BY DEF Extended, Behind
<1> QED BY <1>3, <1>4, <1>5, <1>12, <1>13

\* A piece that ends where it begins is empty.
LEMMA PieceEmpty ==
    ASSUME NEW list \in Seq(Published), NEW k \in 0 .. Len(list)
    PROVE  Piece(list, k, k) = <<>>
BY PieceIs, EmptySeq

\* A server whose table counts.
Holder(s) == s \notin tainted /\ ~ NoTable(s)

\* A server that is not active and has still to load its table.
Joining(q) == ~ Active(q) /\ (Passive(q) => NoTable(q))

FromPeer(q) == <<q, Peer(q)>>
Stretch(q, j, k) == out[FromPeer(q)] = Piece(log, j, k)
TableIs(kvmap, n) == Names(kvmap) = Map!TableOf(log, n)

Numbers == \A i \in 1 .. Len(log) : log[i].seq = i

RolesOf(s) ==
    /\ server[s].state = "PRIMARY" => s = "primary" /\ server[s].kvmap = EmptyMap
    /\ server[s].state = "BACKUP" => s = "backup"
    /\ server[s].state \in {"BACKUP", "DOWN"} => NoTable(s)
    /\ Active(s) => ~ Active(Peer(s))
    /\ Passive(s) => ~ Passive(Peer(s))
    /\ server[s].asking => Passive(s) /\ NoTable(s)
    /\ NoTable(s) \/ (~ Active(s) /\ ~ Passive(s)) => server[s].sequence = 0

Roles ==
    /\ \A s \in Server : RolesOf(s)
    /\ \A p \in subs : Up(p[2]) /\ (p[1] \in Server => Up(p[1]))

CopyOf(s) ==
    ~ NoTable(s) =>
       /\ Tidy(server[s].kvmap)
       /\ s \notin tainted =>
            /\ server[s].sequence <= Len(log)
            /\ TableIs(server[s].kvmap, server[s].sequence)
            /\ Active(s) => server[s].sequence = Len(log)

Copies == \A s \in Server : CopyOf(s)

\* A server that waits for its snapshot has subscribed to a peer that may send it.
AskSubs(q) ==
    /\ server[q].asking /\ q \notin tainted /\ Peer(q) \notin tainted
    /\ ~ (Active(Peer(q)) /\ NoTable(Peer(q)))
    => FromPeer(q) \in subs

AskOf(q) ==
    /\ ask[FromPeer(q)] > 0 => server[q].asking /\ ask[FromPeer(q)] = 1
    /\ ~ Up(q) => snap[FromPeer(q)] = <<>>
    /\ AskSubs(q)

Asked == \A q \in Server : AskOf(q)

\* The snapshot on its way to a server that asked, and what follows it.
SnapFrom(q) ==
    LET reply == snap[FromPeer(q)]
        end   == Len(reply)
        s     == Peer(q) IN
      reply # <<>> =>
        /\ server[q].asking /\ ask[FromPeer(q)] = 0
        /\ Active(s) /\ ~ NoTable(s)
        /\ s \notin tainted =>
               /\ FromPeer(q) \in subs
               /\ IsEnd(reply[end])
               /\ \A i \in 1 .. end - 1 : ~ IsEnd(reply[i])
               /\ reply[end].kthxbai \in 0 .. Len(log)
               /\ TableIs(Stored(EmptyMap, SubSeq(reply, 1, end - 1)), reply[end].kthxbai)
               /\ \E j \in 0 .. reply[end].kthxbai : Stretch(q, j, Len(log))

\* What a server has still to read of its peer, when it has a table; when it
\* has none and the peer is active; and when neither holds.
StreamOf(q) ==
    LET s == Peer(q) IN
      /\ ~ Up(q) => out[FromPeer(q)] = <<>>
      /\ q \notin tainted /\ Passive(q) /\ ~ NoTable(q) =>
            /\ Active(s) => Holder(s) /\ FromPeer(q) \in subs
            /\ \E k \in 0 .. Len(log) : \E j \in 0 .. k :
                  /\ Stretch(q, j, k)
                  /\ j <= server[q].sequence
                  /\ Active(s) => k = Len(log)
      /\ q \notin tainted /\ Joining(q) /\ Active(s) /\ Holder(s) =>
            /\ \E j \in 0 .. Len(log) : Stretch(q, j, Len(log))
            /\ FromPeer(q) \notin subs => out[FromPeer(q)] = <<>>
      /\ q \notin tainted /\ Joining(q) /\ ~ Active(s) /\ s \notin tainted =>
            \/ out[FromPeer(q)] = <<>>
            \/ server[q].state = "PRIMARY" /\ server[s].state \in {"DOWN", "BACKUP"}

Streams == \A q \in Server : StreamOf(q)
Snapshots == \A q \in Server \ tainted : SnapFrom(q)

ServerInv == Types /\ Numbers /\ Roles /\ Copies /\ Asked /\ Streams /\ Snapshots

\* What a step keeps that neither ends a subscription nor lets a server ask.
LEMMA AskSubsKept ==
    ASSUME NEW q \in Server, AskSubs(q), server'[q].asking => server[q].asking,
           tainted \subseteq tainted', subs \subseteq subs',
           Active(Peer(q)) /\ NoTable(Peer(q)) => (Active(Peer(q)) /\ NoTable(Peer(q)))'
    PROVE  AskSubs(q)'
BY DEF AskSubs, FromPeer

\* What ServerInv says of one server.
LEMMA ServerFacts ==
    ASSUME ServerInv, NEW s \in Server
    PROVE  /\ NetTypeOK /\ ServerTypeOK /\ log \in Seq(Published)
           /\ Len(log) \in Nat
           /\ server[s] \in ServerRecord
           /\ server[s].sequence \in Nat /\ server[s].pending \in Seq(Update)
           /\ ~ NoTable(s) => server[s].kvmap \in Table
           /\ RolesOf(s) /\ CopyOf(s) /\ AskOf(s) /\ StreamOf(s)
           /\ s \notin tainted => SnapFrom(s)
           /\ Peer(s) \in Server /\ Peer(s) # s /\ Peer(Peer(s)) = s
           /\ \A q \in Server : q # s => q = Peer(s)
           /\ FromPeer(s) \in Pair /\ FromPeer(Peer(s)) = <<Peer(s), s>>
           /\ out[FromPeer(s)] \in Seq(Published)
           /\ snap[FromPeer(s)] \in Seq(Reply)
           /\ ask[FromPeer(s)] \in Nat
<1>1. NetTypeOK /\ ServerTypeOK
  BY DEF ServerInv, Types
<1>2. log \in Seq(Published) /\ Len(log) \in Nat
  BY <1>1 DEF ServerTypeOK
<1>3. FromPeer(s) \in Pair /\ FromPeer(Peer(s)) = <<Peer(s), s>>
  BY <1>1, PairOfServers, ServerRecords DEF FromPeer
<1>4. /\ out[FromPeer(s)] \in Seq(Published) /\ snap[FromPeer(s)] \in Seq(Reply)
      /\ ask[FromPeer(s)] \in Nat
  BY <1>1, <1>3 DEF NetTypeOK, Reply
<1>5. RolesOf(s) /\ CopyOf(s) /\ AskOf(s) /\ StreamOf(s) /\ (s \notin tainted => SnapFrom(s))
  BY DEF ServerInv, Roles, Copies, Asked, Streams, Snapshots
<1> QED BY <1>1, <1>2, <1>3, <1>4, <1>5, ServerRecords

\* The peer of a server that numbers updates is not active; when the server
\* takes over, its peer has no table.
LEMMA PeerOfWriter ==
    ASSUME ServerInv, NEW s \in Server, Active(s) \/ MayTakeOver(s)
    PROVE  /\ ~ Active(Peer(s))
           /\ MayTakeOver(s) => /\ Joining(Peer(s)) /\ server[Peer(s)].sequence = 0
                                /\ ~ Active(s)
                                /\ Passive(Peer(s)) => server[Peer(s)].asking
                                /\ Joining(s) \/ (Passive(s) /\ ~ NoTable(s))
<1> PICK q \in Server : q = Peer(s)
  BY ServerFacts
<1>1. RolesOf(s) /\ RolesOf(q)
  BY ServerFacts
<1>2. Active(s) => ~ Active(q)
  BY <1>1 DEF RolesOf
<1>3. MayTakeOver(s) => ~ Active(q) /\ (Passive(q) => server[q].asking)
  BY <1>1 DEF MayTakeOver, RolesOf, Active, Passive, Runs, Up
<1>4. MayTakeOver(s) => Joining(q) /\ server[q].sequence = 0
  BY <1>1, <1>3 DEF Joining, RolesOf, Passive
<1>5. MayTakeOver(s) => ~ Active(s) /\ (Joining(s) \/ (Passive(s) /\ ~ NoTable(s)))
  BY DEF MayTakeOver, Active, Passive, Joining
<1> QED BY <1>2, <1>3, <1>4, <1>5

\* Server s, active afterwards with the record r, has numbered and published
\* the messages msgs.
Writes_(s, msgs, r) ==
    /\ server' = [server EXCEPT ![s] = r]
    /\ r.state = "ACTIVE" /\ r.asking = server[s].asking
    /\ r.sequence = server[s].sequence + Len(msgs)
    /\ NoTable(s) => r.kvmap = Null /\ msgs = <<>>
    /\ ~ NoTable(s) => /\ r.kvmap \in Table /\ Tidy(r.kvmap)
                       /\ Names(r.kvmap) = Names(Stored(server[s].kvmap, msgs))
    /\ \A i \in 1 .. Len(msgs) : msgs[i].seq = server[s].sequence + i
    /\ log' = IF Holder(s) THEN SubSeq(log, 1, server[s].sequence) \o msgs ELSE log
    /\ out' \in [Pair -> Seq(Published)]
    /\ \A p \in Pair : p # FromPeer(s) => out'[p] = Publish(s, msgs, Wanted)[p]
    /\ UNCHANGED <<subs, pubs, tainted, crashes>>

\* The log after a server of whose table it is made has numbered some messages.
LEMMA WriteLog ==
    ASSUME ServerInv, NEW s \in Server, Runs(s), Active(s) \/ MayTakeOver(s),
           NEW msgs \in Seq(Published), NEW r \in ServerRecord, Writes_(s, msgs, r)
    PROVE  /\ log' \in Seq(Published) /\ Len(log') \in Nat
           /\ ~ Holder(s) => log' = log
           /\ Holder(s) => /\ Len(log') = server[s].sequence + Len(msgs)
                           /\ server[s].sequence <= Len(log)
                           /\ \A i \in 1 .. server[s].sequence : log'[i] = log[i]
                           /\ \A i \in 1 .. Len(msgs) : log'[server[s].sequence + i] = msgs[i]
                           /\ Active(s) => server[s].sequence = Len(log)
                           /\ \A j \in 0 .. server[s].sequence :
                                Behind(Piece(log, j, server[s].sequence), msgs) =
                                   Piece(log, j, Len(log))'
<1> PICK n \in Nat : n = server[s].sequence
  BY ServerFacts
<1>1. log \in Seq(Published) /\ Len(log) \in Nat /\ Len(msgs) \in Nat
  BY ServerFacts
<1>2. CASE Holder(s)
  <2>1. n \in 0 .. Len(log) /\ (Active(s) => n = Len(log))
    <3>1. n <= Len(log) /\ (Active(s) => n = Len(log))
      BY <1>2, ServerFacts DEF Holder, CopyOf
    <3> QED BY <1>1, <3>1
  <2>2. log' = Extended(log, n, msgs)
    BY <1>2 DEF Writes_, Extended
  <2>3. /\ log' \in Seq(Published) /\ Len(log') = n + Len(msgs)
        /\ \A i \in 1 .. n : log'[i] = log[i]
        /\ \A i \in 1 .. Len(msgs) : log'[n + i] = msgs[i]
    <3>1. 0 \in 0 .. n
      OBVIOUS
    <3> QED BY <1>1, <2>1, <2>2, <3>1, PieceMore, ZenonT(60)
  <2>4. ASSUME NEW j \in 0 .. n
        PROVE  Behind(Piece(log, j, n), msgs) = Piece(log', j, n + Len(msgs))
    BY <1>1, <2>1, <2>2, PieceMore
  <2>5. \A j \in 0 .. n : Behind(Piece(log, j, n), msgs) = Piece(log, j, Len(log))'
    <3> TAKE j \in 0 .. n
    <3>1. Behind(Piece(log, j, n), msgs) = Piece(log', j, Len(log'))
      BY <2>3, <2>4
    <3> QED BY <3>1 DEF Piece
  <2>6. Len(log') \in Nat /\ n <= Len(log)
    BY <1>1, <2>1, <2>3
  <2> QED BY <1>2, <2>1, <2>3, <2>5, <2>6
<1>3. CASE ~ Holder(s)
  BY <1>1, <1>3 DEF Writes_
<1> QED BY <1>2, <1>3

\* The table of the writer is that of the new log.
LEMMA WriteTable ==
    ASSUME ServerInv, NEW s \in Server, Runs(s), Active(s) \/ MayTakeOver(s), Holder(s),
           NEW msgs \in Seq(Published), NEW r \in ServerRecord, Writes_(s, msgs, r)
    PROVE  Names(r.kvmap) = Map!TableOf(log', r.sequence)
<1> PICK n \in Nat : n = server[s].sequence
  BY ServerFacts
<1>1. /\ \A i \in 1 .. n : log'[i] = log[i]
      /\ \A i \in 1 .. Len(msgs) : log'[n + i] = msgs[i]
  BY WriteLog
<1>2. server[s].kvmap \in Table /\ Names(server[s].kvmap) = Map!TableOf(log, n)
  BY ServerFacts DEF Holder, CopyOf, TableIs
<1>3. Map!TableOf(log, n) = Map!TableOf(log', n)
  BY <1>1, TablePrefix
<1>4. msgs \in Seq(Update)
  BY PublishedIsUpdate
<1>5. Names(Stored(server[s].kvmap, msgs)) = Map!TableOf(log', n + Len(msgs))
  BY <1>1, <1>2, <1>3, <1>4, TableStored
<1> QED BY <1>5 DEF Writes_, Holder

\* The types after a server has numbered some messages.
LEMMA WriteTypes ==
    ASSUME ServerInv, NEW s \in Server, Runs(s), Active(s) \/ MayTakeOver(s),
           NEW msgs \in Seq(Published), NEW r \in ServerRecord, Writes_(s, msgs, r)
    PROVE  /\ ServerTypeOK' /\ Numbers' /\ Roles'
<1> PICK q \in Server : q = Peer(s)
  BY ServerFacts
<1>1. /\ server' \in [Server -> ServerRecord] /\ server'[s] = r /\ server'[q] = server[q]
      /\ \A t \in Server : t = s \/ t = q
  BY ServerFacts, OneRecord DEF Writes_
<1>2. ServerTypeOK'
  <2>1. crashes' \in 0 .. MaxCrashes /\ tainted' \subseteq Server
    BY ServerFacts DEF Writes_, ServerTypeOK
  <2>2. log' \in Seq(Published)
    BY WriteLog
  <2> QED BY <1>1, <2>1, <2>2 DEF ServerTypeOK, ServerRecord
<1>3. Numbers'
  <2>1. CASE Holder(s)
    <3> PICK n \in Nat, len \in Nat : n = server[s].sequence /\ len = Len(msgs)
      BY ServerFacts
    <3>1. /\ Len(log') = n + len /\ n <= Len(log) /\ Len(log) \in Nat
          /\ \A i \in 1 .. n : log'[i] = log[i]
          /\ \A i \in 1 .. len : log'[n + i] = msgs[i]
      <4>1. /\ Len(log') = server[s].sequence + Len(msgs)
            /\ server[s].sequence <= Len(log)
            /\ \A i \in 1 .. server[s].sequence : log'[i] = log[i]
            /\ \A i \in 1 .. Len(msgs) : log'[server[s].sequence + i] = msgs[i]
        BY <2>1, WriteLog
      <4>2. Len(log) \in Nat
        BY ServerFacts
      <4> QED BY <4>1, <4>2
    <3>2. \A i \in 1 .. n : log[i].seq = i
      BY <3>1 DEF ServerInv, Numbers
    <3>3. \A i \in 1 .. len : msgs[i].seq = n + i
      BY DEF Writes_
    <3>4. ASSUME NEW i \in 1 .. n + len PROVE log'[i].seq = i
      <4>1. CASE i <= n
        BY <3>1, <3>2, <4>1
      <4>2. CASE ~ (i <= n)
        <5>1. i - n \in 1 .. len /\ n + (i - n) = i
          BY <4>2
        <5> QED BY <3>1, <3>3, <5>1
      <4> QED BY <4>1, <4>2
    <3> QED BY <3>1, <3>4 DEF Numbers
  <2>2. CASE ~ Holder(s)
    BY <2>2, WriteLog DEF ServerInv, Numbers
  <2> QED BY <2>1, <2>2
<1>4. Roles'
  <2>1. RolesOf(s) /\ RolesOf(q) /\ ~ Active(q) /\ Peer(q) = s
    BY ServerFacts, PeerOfWriter
  <2>2. /\ r.state = "ACTIVE" /\ r.asking = FALSE
        /\ r.kvmap = Null => NoTable(s) /\ r.sequence = server[s].sequence
    <3>1. ~ server[s].asking
      BY DEF Runs
    <3>2. server[s].asking \in BOOLEAN /\ server[s].sequence \in Nat
      BY ServerFacts DEF ServerRecord
    <3>3. ~ NoTable(s) => r.kvmap # Null
      BY TableIsNotNull DEF Writes_
    <3>4. msgs = <<>> => Len(msgs) = 0
      OBVIOUS
    <3> QED BY <3>1, <3>2, <3>3, <3>4 DEF Writes_
  <2>3. RolesOf(s)'
    BY <1>1, <2>1, <2>2 DEF RolesOf, Active, Passive, NoTable
  <2>4. RolesOf(q)'
    BY <1>1, <2>1, <2>2 DEF RolesOf, Active, Passive, NoTable
  <2>5. \A p \in subs' : (Up(p[2]) /\ (p[1] \in Server => Up(p[1])))'
    <3>1. subs' = subs /\ \A t \in Server : Up(t) => Up(t)'
      BY <1>1, <2>2 DEF Writes_, Up
    <3>2. \A p \in subs : p[2] \in Server
      BY ServerFacts DEF NetTypeOK, Pair
    <3> QED BY <3>1, <3>2 DEF ServerInv, Roles
  <2> QED BY <1>1, <2>3, <2>4, <2>5 DEF Roles
<1> QED BY <1>2, <1>3, <1>4

\* Every table that counts is still a prefix of the log.
LEMMA WriteCopies ==
    ASSUME ServerInv, NEW s \in Server, Runs(s), Active(s) \/ MayTakeOver(s),
           NEW msgs \in Seq(Published), NEW r \in ServerRecord, Writes_(s, msgs, r)
    PROVE  Copies'
<1> PICK q \in Server : q = Peer(s)
  BY ServerFacts
<1>1. /\ server'[s] = r /\ server'[q] = server[q] /\ tainted' = tainted
      /\ \A t \in Server : t = s \/ t = q
  BY ServerFacts, OneRecord DEF Writes_
<1>2. CopyOf(s)'
  <2>1. SUFFICES ASSUME ~ NoTable(s)'
                 PROVE  /\ Tidy(r.kvmap)
                        /\ s \notin tainted =>
                             /\ r.sequence = Len(log')
                             /\ Names(r.kvmap) = Map!TableOf(log', r.sequence)
                             /\ r.sequence \in Nat
    BY <1>1 DEF CopyOf, TableIs, NoTable, Map!TableOf
  <2>2. ~ NoTable(s)
    BY <1>1, <2>1 DEF NoTable, Writes_
  <2>3. Tidy(r.kvmap) /\ r.sequence \in Nat
    BY <2>2 DEF Writes_, ServerRecord
  <2>4. s \notin tainted => Holder(s)
    BY <2>2 DEF Holder
  <2> QED BY <2>3, <2>4, WriteLog, WriteTable DEF Writes_
<1>3. CopyOf(q)'
  <2>1. SUFFICES ASSUME ~ NoTable(q)
                 PROVE  /\ Tidy(server[q].kvmap)
                        /\ q \notin tainted =>
                             /\ server[q].sequence <= Len(log')
                             /\ Names(server[q].kvmap) = Map!TableOf(log', server[q].sequence)
                             /\ ~ Active(q)
    BY <1>1 DEF CopyOf, TableIs, NoTable, Active, Map!TableOf
  <2>2. Tidy(server[q].kvmap) /\ ~ Active(q)
    BY <2>1, ServerFacts, PeerOfWriter DEF CopyOf
  <2>3. SUFFICES ASSUME q \notin tainted
                 PROVE  /\ server[q].sequence <= Len(log')
                        /\ Names(server[q].kvmap) = Map!TableOf(log', server[q].sequence)
    BY <2>2
  <2> PICK n \in Nat : n = server[q].sequence
    BY ServerFacts
  <2>4. n <= Len(log) /\ Names(server[q].kvmap) = Map!TableOf(log, n) /\ Len(log) \in Nat
    BY <2>1, <2>3, ServerFacts DEF CopyOf, TableIs
  <2>5. n <= Len(log') /\ \A i \in 1 .. n : log[i] = log'[i]
    <3>1. CASE ~ Holder(s)
      BY <2>4, <3>1, WriteLog
    <3>2. CASE Holder(s) /\ MayTakeOver(s)
      <4>1. n = 0
        BY <3>2, PeerOfWriter
      <4> QED BY <4>1, WriteLog
    <3>3. CASE Holder(s) /\ Active(s)
      <4>1. /\ server[s].sequence = Len(log) /\ Len(log') = Len(log) + Len(msgs)
            /\ \A i \in 1 .. Len(log) : log'[i] = log[i]
        BY <3>3, WriteLog
      <4>2. Len(msgs) \in Nat
        OBVIOUS
      <4> QED BY <2>4, <4>1, <4>2
    <3> QED BY <3>1, <3>2, <3>3
  <2>6. Map!TableOf(log, n) = Map!TableOf(log', n)
    BY <2>5, TablePrefix
  <2> QED BY <2>4, <2>5, <2>6
<1> QED BY <1>1, <1>2, <1>3 DEF Copies

\* What the peer of the writer has still to read.
LEMMA WriteOut ==
    ASSUME ServerInv, NEW s \in Server, Runs(s), Active(s) \/ MayTakeOver(s),
           NEW msgs \in Seq(Published), NEW r \in ServerRecord, Writes_(s, msgs, r)
    PROVE  LET p == FromPeer(Peer(s)) IN
             /\ p \in subs => out'[p] = Behind(out[p], msgs)
             /\ p \notin subs => out'[p] = out[p]
<1> PICK q \in Server : q = Peer(s)
  BY ServerFacts
<1> PICK p \in Pair : p = FromPeer(q)
  BY ServerFacts
<1>1. p = <<q, s>> /\ p # FromPeer(s) /\ q # s
  BY ServerFacts DEF FromPeer
<1>2. p \in Wanted
  BY <1>1, PeerOfWriter DEF Wanted
<1>3. out'[p] = IF p \in subs THEN out[p] \o Wired(msgs) ELSE out[p]
  <2>1. out'[p] = Publish(s, msgs, Wanted)[p]
    BY <1>1 DEF Writes_
  <2>2. NetTypeOK
    BY ServerFacts
  <2> QED BY <1>1, <1>2, <2>1, <2>2, PublishIs
<1> QED BY <1>3 DEF Behind

\* The queues between the servers hold the new messages at their end.
LEMMA WriteStreams ==
    ASSUME ServerInv, NEW s \in Server, Runs(s), Active(s) \/ MayTakeOver(s),
           NEW msgs \in Seq(Published), NEW r \in ServerRecord, Writes_(s, msgs, r)
    PROVE  Streams'
<1> PICK q \in Server : q = Peer(s)
  BY ServerFacts
<1> PICK p \in Pair : p = FromPeer(q)
  BY ServerFacts
<1>1. /\ server'[s] = r /\ server'[q] = server[q] /\ tainted' = tainted /\ subs' = subs
      /\ \A t \in Server : t = s \/ t = q
      /\ Peer(q) = s /\ q # s /\ r.state = "ACTIVE" /\ ~ Active(q)
      /\ NoTable(s) <=> r.kvmap = Null
  <2>1. NoTable(s) <=> r.kvmap = Null
    BY TableIsNotNull DEF Writes_
  <2> QED BY <2>1, ServerFacts, OneRecord, PeerOfWriter DEF Writes_
<1>2. StreamOf(s)'
  BY <1>1 DEF StreamOf, Up, Passive, Joining, Active
<1>3. /\ p \in subs => out'[p] = Behind(out[p], msgs)
      /\ p \notin subs => out'[p] = out[p]
  BY WriteOut
<1>4. StreamOf(q) /\ RolesOf(s) /\ log \in Seq(Published) /\ Len(log) \in Nat
  BY ServerFacts
<1>5. log' \in Seq(Published) /\ Len(log') \in Nat
  BY WriteLog
<1>6. Active(s)' /\ ~ Active(q)' /\ (Holder(s)' <=> Holder(s)) /\ (NoTable(q)' <=> NoTable(q))
      /\ (Passive(q)' <=> Passive(q)) /\ (Joining(q)' <=> Joining(q)) /\ (Up(q)' <=> Up(q))
  BY <1>1 DEF Active, Holder, NoTable, Passive, Joining, Up
<1> DEFINE Has(j) == out'[p] = Piece(log', j, Len(log'))
<1>7. /\ Up(q) \/ out'[p] = <<>>
  <2>1. p \in subs => Up(q)
    BY <1>1 DEF ServerInv, Roles, FromPeer
  <2> QED BY <1>3, <1>4, <2>1 DEF StreamOf
<1>8. ASSUME Holder(s), NEW j \in 0 .. server[s].sequence, p \in subs,
             out[p] = Piece(log, j, server[s].sequence)
      PROVE  Has(j)
  <2>1. Behind(Piece(log, j, server[s].sequence), msgs) = Piece(log', j, Len(log'))
    <3>1. Behind(Piece(log, j, server[s].sequence), msgs) = Piece(log, j, Len(log))'
      BY <1>8, WriteLog
    <3> QED BY <3>1 DEF Piece
  <2> QED BY <1>3, <1>8, <2>1
<1>9. Holder(s) => server[s].sequence \in 0 .. Len(log')
  <2>1. server[s].sequence \in Nat /\ Len(msgs) \in Nat
    BY ServerFacts
  <2> QED BY <2>1, WriteLog
<1>10. ASSUME q \notin tainted, Passive(q), ~ NoTable(q)
       PROVE  Holder(s) /\ p \in subs /\ \E j \in 0 .. Len(log') : Has(j) /\ j <= server[q].sequence
  <2>1. Active(s)
    BY <1>10, PeerOfWriter DEF Joining
  <2>2. Holder(s) /\ p \in subs
    BY <1>1, <1>4, <1>10, <2>1 DEF StreamOf
  <2>3. PICK j \in 0 .. Len(log) : out[p] = Piece(log, j, Len(log)) /\ j <= server[q].sequence
    BY <1>1, <1>4, <1>10, <2>1 DEF StreamOf, Stretch
  <2>4. server[s].sequence = Len(log)
    BY <2>1, <2>2, WriteLog
  <2> QED BY <1>5, <1>8, <1>9, <2>2, <2>3, <2>4
<1>11. ASSUME q \notin tainted, Joining(q), Holder(s)
       PROVE  /\ \E j \in 0 .. Len(log') : Has(j)
              /\ p \notin subs => out'[p] = <<>>
  <2>1. /\ out[p] = <<>> \/ (Active(s) /\ p \in subs)
        /\ Active(s) => \E j \in 0 .. Len(log) : out[p] = Piece(log, j, Len(log))
    <3>1. CASE Active(s)
      BY <1>1, <1>4, <1>11, <3>1 DEF StreamOf, Stretch
    <3>2. CASE ~ Active(s)
      <4>1. s \notin tainted /\ ~ (server[s].state \in {"DOWN", "BACKUP"})
        BY <1>11, <3>2 DEF Holder, MayTakeOver
      <4> QED BY <1>1, <1>4, <1>11, <3>2, <4>1 DEF StreamOf
    <3> QED BY <3>1, <3>2
  <2>2. CASE p \notin subs
    <3>1. out'[p] = <<>>
      BY <1>3, <2>1, <2>2
    <3>2. Has(Len(log'))
      <4>1. Len(log') \in 0 .. Len(log')
        BY <1>5
      <4> QED BY <1>5, <3>1, <4>1, PieceEmpty
    <3> QED BY <1>5, <3>1, <3>2
  <2>3. CASE p \in subs
    <3>1. \E j \in 0 .. server[s].sequence : out[p] = Piece(log, j, server[s].sequence)
      <4>1. CASE Active(s)
        BY <1>11, <2>1, <4>1, WriteLog
      <4>2. CASE ~ Active(s)
        <5>1. server[s].sequence \in 0 .. Len(log) /\ server[s].sequence \in 0 .. server[s].sequence
          <6>1. server[s].sequence \in Nat
            BY ServerFacts
          <6> QED BY <1>4, <1>11, <6>1, WriteLog
        <5> QED BY <1>4, <2>1, <4>2, <5>1, PieceEmpty
      <4> QED BY <4>1, <4>2
    <3> QED BY <1>5, <1>8, <1>9, <1>11, <2>3, <3>1
  <2> QED BY <2>2, <2>3
<1>12. StreamOf(q)'
  <2>1. FromPeer(q)' = p /\ Peer(q) = s /\ subs' = subs /\ (q \in tainted' <=> q \in tainted)
    BY <1>1 DEF FromPeer
  <2>2. \A j : Stretch(q, j, Len(log))' <=> Has(j)
    BY <2>1 DEF Stretch, Piece, FromPeer
  <2>3. (~ Up(q))' => out'[p] = <<>>
    BY <1>6, <1>7
  <2>4. q \notin tainted' /\ Passive(q)' /\ ~ NoTable(q)' =>
            /\ Active(s)' => Holder(s)' /\ p \in subs'
            /\ \E k \in 0 .. Len(log') : \E j \in 0 .. k :
                  /\ Stretch(q, j, k)'
                  /\ j <= server'[q].sequence
                  /\ Active(s)' => k = Len(log')
    <3> SUFFICES ASSUME q \notin tainted, Passive(q), ~ NoTable(q)
                 PROVE  /\ Holder(s) /\ p \in subs
                        /\ \E k \in 0 .. Len(log') : \E j \in 0 .. k :
                              /\ out'[p] = Piece(log', j, k)
                              /\ j <= server[q].sequence /\ k = Len(log')
      BY <1>1, <1>6, <2>1 DEF Stretch, Piece, FromPeer
    <3>1. Holder(s) /\ p \in subs /\ \E j \in 0 .. Len(log') : Has(j) /\ j <= server[q].sequence
      BY <1>10
    <3>2. Len(log') \in 0 .. Len(log')
      BY <1>5
    <3> QED BY <3>1, <3>2
  <2>5. q \notin tainted' /\ Joining(q)' /\ Active(s)' /\ Holder(s)' =>
            /\ \E j \in 0 .. Len(log') : Stretch(q, j, Len(log))'
            /\ p \notin subs' => out'[p] = <<>>
    BY <1>6, <1>11, <2>1, <2>2
  <2> QED BY <1>6, <2>1, <2>3, <2>4, <2>5 DEF StreamOf
<1> QED BY <1>1, <1>2, <1>12 DEF Streams

\* The snapshot under way stays good while the writer writes.
LEMMA WriteSnapshots ==
    ASSUME ServerInv, NEW s \in Server, Runs(s), Active(s) \/ MayTakeOver(s),
           NEW msgs \in Seq(Published), NEW r \in ServerRecord, Writes_(s, msgs, r),
           NEW t \in Server, t \notin tainted, ask'[FromPeer(t)] = ask[FromPeer(t)],
           snap'[FromPeer(t)] = snap[FromPeer(t)]
    PROVE  SnapFrom(t)'
<1> PICK q \in Server : q = Peer(s)
  BY ServerFacts
<1>0. SnapFrom(t) /\ snap[FromPeer(t)] \in Seq(Reply)
  BY ServerFacts
<1>1. /\ server'[s] = r /\ server'[q] = server[q] /\ tainted' = tainted /\ subs' = subs
      /\ t = s \/ t = q
      /\ Peer(q) = s /\ q # s /\ r.state = "ACTIVE" /\ ~ Active(q)
      /\ NoTable(s) <=> r.kvmap = Null
  <2>1. NoTable(s) <=> r.kvmap = Null
    BY TableIsNotNull DEF Writes_
  <2> QED BY <2>1, ServerFacts, OneRecord, PeerOfWriter DEF Writes_
<1>2. CASE snap[FromPeer(t)] = <<>>
  BY <1>2 DEF SnapFrom, FromPeer
<1>3. CASE snap[FromPeer(t)] # <<>>
  <2> PICK reply \in Seq(Reply) : reply = snap[FromPeer(t)]
    BY <1>0
  <2> PICK end \in Nat : end = Len(reply)
    OBVIOUS
  <2>1. /\ server[t].asking /\ ask[FromPeer(t)] = 0
        /\ Active(Peer(t)) /\ ~ NoTable(Peer(t))
        /\ Peer(t) \notin tainted =>
             /\ FromPeer(t) \in subs
             /\ IsEnd(reply[end])
             /\ \A i \in 1 .. end - 1 : ~ IsEnd(reply[i])
             /\ reply[end].kthxbai \in 0 .. Len(log)
             /\ TableIs(Stored(EmptyMap, SubSeq(reply, 1, end - 1)), reply[end].kthxbai)
             /\ \E j \in 0 .. reply[end].kthxbai : Stretch(t, j, Len(log))
    BY <1>0, <1>3 DEF SnapFrom
  <2>2. t = q /\ Peer(t) = s /\ Active(s) /\ ~ NoTable(s)
    BY <1>1, <2>1
  <2> PICK p \in Pair : p = FromPeer(t)
    BY ServerFacts
  <2>3. snap'[p] = reply /\ ask'[p] = 0
    BY <2>1
  <2>4. server'[t].asking /\ Active(s)' /\ ~ NoTable(s)'
    BY <1>1, <2>1, <2>2 DEF Active, NoTable
  <2>5. ASSUME s \notin tainted
        PROVE  /\ p \in subs'
               /\ IsEnd(reply[end])
               /\ \A i \in 1 .. end - 1 : ~ IsEnd(reply[i])
               /\ reply[end].kthxbai \in 0 .. Len(log')
               /\ Names(Stored(EmptyMap, SubSeq(reply, 1, end - 1)))
                     = Map!TableOf(log', reply[end].kthxbai)
               /\ \E j \in 0 .. reply[end].kthxbai : out'[p] = Piece(log', j, Len(log'))
    <3> PICK n \in 0 .. Len(log) : n = reply[end].kthxbai
      BY <2>1, <2>2, <2>5
    <3>1. Holder(s) /\ server[s].sequence = Len(log) /\ Len(log) \in Nat /\ Len(log') \in Nat
          /\ \A i \in 1 .. Len(log) : log'[i] = log[i]
          /\ Len(log) <= Len(log')
      <4>1. Holder(s)
        BY <2>2, <2>5 DEF Holder
      <4>2. Len(log) \in Nat /\ Len(msgs) \in Nat
        BY ServerFacts
      <4> QED BY <2>2, <4>1, <4>2, WriteLog
    <3>2. n \in 0 .. Len(log') /\ \A i \in 1 .. n : log[i] = log'[i]
      BY <3>1
    <3>3. Map!TableOf(log, n) = Map!TableOf(log', n)
      BY <3>2, TablePrefix
    <3>4. Names(Stored(EmptyMap, SubSeq(reply, 1, end - 1))) = Map!TableOf(log, n)
      BY <2>1, <2>2, <2>5 DEF TableIs
    <3>5. PICK j \in 0 .. n : out[p] = Piece(log, j, Len(log))
      BY <2>1, <2>2, <2>5 DEF Stretch
    <3>6. out'[p] = Behind(out[p], msgs)
      BY <2>1, <2>2, <2>5, WriteOut
    <3>7. Behind(Piece(log, j, Len(log)), msgs) = Piece(log, j, Len(log))'
      BY <2>2, <3>1, WriteLog
    <3>8. out'[p] = Piece(log', j, Len(log'))
      BY <3>5, <3>6, <3>7 DEF Piece
    <3> QED BY <1>1, <2>1, <2>2, <2>5, <3>2, <3>3, <3>4, <3>8
  <2>6. FromPeer(t)' = p
    BY DEF FromPeer
  <2> QED BY <1>1, <2>2, <2>3, <2>4, <2>5, <2>6 DEF SnapFrom, TableIs, Stretch
<1> QED BY <1>2, <1>3

\* The reply of an active server to its peer is what the peer waits for.
LEMMA ReplySnapshot ==
    ASSUME ServerInv, NEW s \in Server, NEW q \in Server, q = Peer(s), q \notin tainted,
           ask[FromPeer(q)] > 0, s \notin tainted => FromPeer(q) \in subs,
           ServerTypeOK', Active(s)', ~ NoTable(s)', server'[q] = server[q],
           tainted' = tainted, subs' = subs, CopyOf(s)', StreamOf(q)',
           ask'[FromPeer(q)] = ask[FromPeer(q)] - 1,
           snap'[FromPeer(q)] = snap[FromPeer(q)] \o Snapshot(server'[s])
    PROVE  SnapFrom(q)'
<1> PICK p \in Pair : p = FromPeer(q)
  BY ServerFacts
<1>1. Peer(q) = s /\ ask[p] = 1 /\ server[q].asking /\ snap[p] = <<>>
  BY ServerFacts DEF AskOf, SnapFrom
<1>2. Joining(q)' /\ server'[q].asking
  BY <1>1, ServerFacts DEF RolesOf, Joining, Active, Passive, NoTable
<1> PICK r : r = server'[s]
  OBVIOUS
<1>3. r.kvmap \in Table /\ r.sequence \in Nat /\ Tidy(r.kvmap)
  <2>1. r \in ServerRecord /\ r.kvmap # Null
    BY DEF ServerTypeOK, ServerRecord, NoTable
  <2> QED BY <2>1 DEF CopyOf, NoTable, ServerRecord
<1> PICK reply : reply = Snapshot(r)
  OBVIOUS
<1> PICK n : n = Len(reply)
  OBVIOUS
<1>4. /\ reply \in Seq(Reply) /\ n \in Nat \ {0}
      /\ IsEnd(reply[n]) /\ reply[n].kthxbai = r.sequence
      /\ \A i \in 1 .. n - 1 : ~ IsEnd(reply[i])
      /\ Names(Stored(EmptyMap, SubSeq(reply, 1, n - 1))) = Names(r.kvmap)
  BY <1>3, SnapshotIs
<1>5. snap'[p] = reply /\ ask'[p] = 0
  BY <1>1, <1>4
<1>6. ASSUME s \notin tainted
      PROVE  /\ r.sequence \in 0 .. Len(log')
             /\ Names(r.kvmap) = Map!TableOf(log', r.sequence)
             /\ \E j \in 0 .. r.sequence : Stretch(q, j, Len(log))'
  <2>1. r.sequence = Len(log') /\ Names(r.kvmap) = Map!TableOf(log', r.sequence)
    BY <1>6 DEF CopyOf, TableIs
  <2>2. Holder(s)'
    BY <1>6 DEF Holder
  <2>3. \E j \in 0 .. Len(log') : Stretch(q, j, Len(log))'
    BY <1>1, <1>2, <2>2 DEF StreamOf
  <2> QED BY <1>3, <2>1, <2>3
<1>7. FromPeer(q)' = p
  BY DEF FromPeer
<1> QED BY <1>1, <1>2, <1>4, <1>5, <1>6, <1>7 DEF SnapFrom, TableIs

\* A takeover numbers what was pending.
LEMMA TakeOverWrites ==
    ASSUME ServerInv, NEW s \in Server, MayTakeOver(s),
           NoTable(s) => server[s].pending = <<>>,
           server' = [server EXCEPT ![s] = NewActive(s)], TakesOver(s),
           UNCHANGED <<subs, pubs, tainted, crashes>>
    PROVE  LET msgs == Renumbered(server[s].pending, server[s].sequence) IN
             /\ msgs \in Seq(Published) /\ NewActive(s) \in ServerRecord
             /\ Writes_(s, msgs, NewActive(s))
<1> PICK msgs : msgs = Renumbered(server[s].pending, server[s].sequence)
  OBVIOUS
<1> PICK r : r = NewActive(s)
  OBVIOUS
<1>1. /\ msgs \in Seq(Published) /\ r \in ServerRecord
      /\ r.state = "ACTIVE" /\ r.pending = <<>> /\ r.asking = server[s].asking
      /\ r.sequence = server[s].sequence + Len(msgs)
      /\ NoTable(s) => r.kvmap = Null /\ msgs = <<>>
      /\ ~ NoTable(s) => r.kvmap = Stored(server[s].kvmap, msgs) /\ r.kvmap \in Table
  BY ServerFacts, NewActiveIs
<1>2. ~ NoTable(s) => Tidy(r.kvmap)
  <2>1. ~ NoTable(s) => server[s].kvmap \in Table /\ Tidy(server[s].kvmap)
    BY ServerFacts DEF CopyOf
  <2> QED BY <1>1, <2>1, TidyStored, PublishedIsUpdate
<1>3. \A i \in 1 .. Len(msgs) : msgs[i].seq = server[s].sequence + i
  <2>1. server[s].sequence \in Nat /\ server[s].pending \in Seq(Update)
    BY ServerFacts
  <2>2. /\ Len(msgs) = Len(server[s].pending)
        /\ \A i \in 1 .. Len(msgs) :
             /\ msgs[i] = Numbered(server[s].pending[i], server[s].sequence + i)
             /\ server[s].pending[i] \in Update
    BY <2>1, RenumberedType
  <2>3. \A i \in 1 .. Len(msgs) : server[s].sequence + i \in Nat \ {0}
    BY <1>1, <2>1
  <2> QED BY <2>2, <2>3, NumberedType
<1>4. log' = IF Holder(s) THEN SubSeq(log, 1, server[s].sequence) \o msgs ELSE log
  BY DEF TakesOver, Holder, NoTable
<1>5. /\ out' \in [Pair -> Seq(Published)]
      /\ \A p \in Pair : p # FromPeer(s) => out'[p] = Publish(s, msgs, Wanted)[p]
  <2>1. out' = [Publish(s, msgs, Wanted) EXCEPT ![FromPeer(s)] = <<>>]
    BY DEF TakesOver, FromPeer
  <2>2. PICK f \in [Pair -> Seq(Published)] : f = Publish(s, msgs, Wanted)
    BY <1>1, ServerFacts, PublishIs
  <2>3. out' = [f EXCEPT ![FromPeer(s)] = <<>>] /\ <<>> \in Seq(Published)
    BY <2>1, <2>2
  <2>4. out' \in [Pair -> Seq(Published)] /\ \A p \in Pair : p # FromPeer(s) => out'[p] = f[p]
    BY <2>3
  <2> QED BY <2>2, <2>4
<1>6. Writes_(s, msgs, r)
  BY <1>1, <1>2, <1>3, <1>4, <1>5 DEF Writes_
<1> QED BY <1>1, <1>6

\* One message is stored as it would be in a row of messages.
LEMMA OneStored ==
    ASSUME NEW map \in Table, NEW m \in Update, NEW d \in Update,
           d.key = m.key, d.uuid = m.uuid, d.body = m.body,
           NEW ms \in Seq(Update)
    PROVE  Len(ms) = 1 /\ ms[1] = m => Names(Store(map, d)) = Names(Stored(map, ms))
<1>0. \A k \in Key :
        /\ NoneWith(ms, Len(ms), k) => Stored(map, ms)[k] = map[k]
        /\ \A i : LastWith(ms, Len(ms), k, i) =>
             Stored(map, ms)[k] = IF ms[i].body THEN ms[i] ELSE NoMsg
  BY StoredIs
<1> HAVE Len(ms) = 1 /\ ms[1] = m
<1>1. m # NoMsg /\ d # NoMsg
  BY UpdateFields
<1>2. ASSUME NEW k \in Key PROVE Names(Store(map, d))[k] = Names(Stored(map, ms))[k]
  <2>2. CASE k = m.key
    <3>1. LastWith(ms, Len(ms), k, 1)
      BY <2>2 DEF LastWith
    <3>2. Stored(map, ms)[k] = IF ms[1].body THEN ms[1] ELSE NoMsg
      BY <1>0, <3>1
    <3>3. Store(map, d)[k] = IF m.body THEN d ELSE NoMsg
      BY <2>2 DEF Store, Table
    <3> QED BY <1>1, <3>2, <3>3, NamesIs
  <2>3. CASE k # m.key
    <3>1. NoneWith(ms, Len(ms), k)
      BY <2>3 DEF NoneWith
    <3>2. Stored(map, ms)[k] = map[k]
      BY <1>0, <3>1
    <3>3. Store(map, d)[k] = map[k]
      BY <2>3 DEF Store, Table
    <3> QED BY <3>2, <3>3, NamesIs
  <2> QED BY <2>2, <2>3
<1>3. /\ Names(Store(map, d)) = [k \in Key |-> Names(Store(map, d))[k]]
      /\ Names(Stored(map, ms)) = [k \in Key |-> Names(Stored(map, ms))[k]]
  BY DEF Names
<1> QED BY <1>2, <1>3

\* The active server collects an update.
LEMMA CollectWrites ==
    ASSUME ServerInv, NEW s \in Server, Active(s), ~ NoTable(s), NEW m \in Update,
           CollectActive(s, m), UNCHANGED <<subs, pubs, crashes>>
    PROVE  \E n \in Nat \ {0}, r \in ServerRecord :
             /\ n = server[s].sequence + 1
             /\ r.pending = server[s].pending
             /\ Numbered(m, n) \in Published /\ <<Numbered(m, n)>> \in Seq(Published)
             /\ Writes_(s, <<Numbered(m, n)>>, r)
<1> PICK n \in Nat \ {0} : n = server[s].sequence + 1
  BY ServerFacts
<1> PICK w \in Published : w = Numbered(m, n)
  BY NumberedType
<1>0. <<w>> \in Seq(Published)
  OBVIOUS
<1> PICK ws : ws = <<w>>
  OBVIOUS
<1>1. /\ w.key = m.key /\ w.seq = n /\ w.uuid = m.uuid /\ w.body = m.body
      /\ w \in Update
  BY NumberedType, PublishedIsUpdate
<1>2. server[s] \in ServerRecord /\ server[s].kvmap \in Table /\ Tidy(server[s].kvmap)
      /\ server[s].sequence \in Nat /\ log \in Seq(Published)
      /\ server \in [Server -> ServerRecord]
  BY ServerFacts, ServerRecords DEF CopyOf
<1>3. PICK d \in Update : /\ d = Dated(w) /\ d.key = w.key /\ d.uuid = w.uuid
                          /\ d.body = w.body
  BY <1>1, DatedType
<1> PICK map : map = Store(server[s].kvmap, d)
  OBVIOUS
<1>4. map \in Table /\ Tidy(map) /\ Names(map) = Names(Stored(server[s].kvmap, ws))
  <2>1. map \in Table /\ Tidy(map)
    BY <1>2, <1>3, StoreType, TidyStore
  <2>2. ws \in Seq(Update) /\ Len(ws) = 1 /\ ws[1] = w
    BY <1>0, PublishedIsUpdate
  <2>3. Names(map) = Names(Stored(server[s].kvmap, ws))
    BY <1>1, <1>2, <1>3, <2>2, OneStored
  <2> QED BY <2>1, <2>3
<1> PICK r : r = [server[s] EXCEPT !.sequence = n, !.kvmap = map]
  OBVIOUS
<1>5. /\ r \in ServerRecord /\ r.state = server[s].state /\ r.asking = server[s].asking
      /\ r.sequence = n /\ r.kvmap = map /\ r.pending = server[s].pending
  BY <1>2, <1>4 DEF ServerRecord
<1>6. server' = [server EXCEPT ![s] = r]
  <2>1. server' = [server EXCEPT ![s].sequence = n,
                                 ![s].kvmap = Store(@, Dated(Numbered(m, n)))]
    BY DEF CollectActive
  <2> QED BY <1>2, <1>3, <2>1 DEF ServerRecord
<1>a. ws \in Seq(Published)
  BY <1>0
<1>7. log' = IF Holder(s) THEN SubSeq(log, 1, server[s].sequence) \o ws ELSE log
  <2>1. CASE Holder(s)
    <3>1. log' = Append(log, w)
      BY <2>1 DEF CollectActive, Holder
    <3>2. server[s].sequence = Len(log)
      BY <2>1, ServerFacts DEF Holder, CopyOf
    <3>3. SubSeq(log, 1, Len(log)) = log /\ Append(log, w) = log \o <<w>>
      BY <1>2
    <3> QED BY <2>1, <3>1, <3>2, <3>3
  <2>2. CASE ~ Holder(s)
    BY <2>2 DEF CollectActive, Holder
  <2> QED BY <2>1, <2>2
<1>8. out' = Publish(s, ws, Wanted) /\ Publish(s, ws, Wanted) \in [Pair -> Seq(Published)]
  BY <1>a, ServerFacts, PublishIs DEF CollectActive
<1>9. \A i \in 1 .. Len(ws) : ws[i].seq = server[s].sequence + i
  BY <1>1
<1>10. Len(ws) = 1
  OBVIOUS
<1>11. Writes_(s, ws, r)
  BY <1>2, <1>4, <1>5, <1>6, <1>7, <1>8, <1>9, <1>10 DEF Writes_, Active, CollectActive
<1> QED BY <1>0, <1>5, <1>11

\* What a flush deletes, and what it does to the server.
LEMMA FlushIs ==
    ASSUME ServerInv, NEW s \in Server, Flush(s)
    PROVE  \E msgs \in Seq(Published), r \in ServerRecord :
             /\ Runs(s) /\ ~ NoTable(s)
             /\ Len(msgs) > 0
             /\ \A i \in 1 .. Len(msgs) : /\ msgs[i].seq = server[s].sequence + i
                                          /\ ~ msgs[i].body
                                          /\ \E k \in Key : server[s].kvmap[k] # NoMsg
                                                 /\ msgs[i].uuid = server[s].kvmap[k].uuid
                                                 /\ msgs[i].key = k
             /\ r.state = server[s].state /\ r.asking = server[s].asking
             /\ r.pending = server[s].pending
             /\ r.sequence = server[s].sequence + Len(msgs)
             /\ r.kvmap = Stored(server[s].kvmap, msgs)
             /\ r.kvmap \in Table /\ Tidy(r.kvmap)
             /\ server' = [server EXCEPT ![s] = r]
             /\ out' = Publish(s, msgs, Wanted)
             /\ log' = IF Active(s) /\ s \notin tainted THEN log \o msgs ELSE log
             /\ tainted' = IF Active(s) THEN tainted ELSE tainted \cup {s}
             /\ UNCHANGED <<subs, pubs, ask, snap, updates, crashes>>
<1> PICK map : map = server[s].kvmap
  OBVIOUS
<1> PICK n \in Nat : n = server[s].sequence
  BY ServerFacts
<1>1. map \in Table /\ Tidy(map) /\ server[s] \in ServerRecord /\ server \in [Server -> ServerRecord]
  BY ServerFacts, ServerRecords DEF CopyOf, Flush
<1>2. PICK gone : /\ gone \subseteq Key /\ \A k \in gone : MayExpire(map[k])
                  /\ gone # {}
                  /\ LET msgs == Renumbered(SetToSeq({Emptied(map[k]) : k \in gone}), n) IN
                       /\ server' = [server EXCEPT ![s].sequence = @ + Len(msgs),
                                                   ![s].kvmap = Stored(@, msgs)]
                       /\ out' = Publish(s, msgs, Wanted)
                       /\ log' = IF Active(s) /\ s \notin tainted THEN log \o msgs ELSE log
                       /\ tainted' = IF Active(s) THEN tainted ELSE tainted \cup {s}
  <2>1. PICK gone \in SUBSET {k \in Key : MayExpire(server[s].kvmap[k])} :
           /\ gone # {}
           /\ LET msgs == Renumbered(SetToSeq({Emptied(server[s].kvmap[k]) : k \in gone}),
                                     server[s].sequence) IN
                /\ server' = [server EXCEPT ![s].sequence = @ + Len(msgs),
                                            ![s].kvmap = Stored(@, msgs)]
                /\ out' = Publish(s, msgs, Wanted)
                /\ log' = IF Active(s) /\ s \notin tainted THEN log \o msgs ELSE log
                /\ tainted' = IF Active(s) THEN tainted ELSE tainted \cup {s}
    BY DEF Flush
  <2> WITNESS gone
  <2>2. gone \subseteq Key /\ \A k \in gone : MayExpire(map[k])
    OBVIOUS
  <2> QED BY <2>1, <2>2
<1> DEFINE old == {Emptied(map[k]) : k \in gone}
<1>3. \A k \in gone : k \in Key /\ map[k] # NoMsg /\ map[k] \in Update
  BY <1>1, <1>2 DEF MayExpire, Table
<1>4. IsFiniteSet(old) /\ old \subseteq Update /\ old # {}
  <2>1. IsFiniteSet(gone)
    BY <1>2, CloneAssumption, FS_Subset
  <2>2. IsFiniteSet(old)
    <3> DEFINE f == [k \in gone |-> Emptied(map[k])]
    <3>1. f \in Surjection(gone, old)
      BY DEF Surjection
    <3> HIDE DEF f, old
    <3> QED BY <2>1, <3>1, FS_Surjection
  <2>3. old \subseteq Update
    BY <1>3, EmptiedType
  <2> QED BY <1>2, <2>2, <2>3
<1> PICK list : list = SetToSeq(old)
  OBVIOUS
<1>5. /\ list \in Seq(old) /\ list \in Seq(Update) /\ Len(list) > 0
      /\ \A i \in 1 .. Len(list) : \E k \in gone : list[i] = Emptied(map[k])
  <2>1. list \in Seq(old) /\ \A x \in old : \E i \in 1 .. Len(list) : list[i] = x
    BY <1>4, SetToSeqIs
  <2>2. list \in Seq(Update)
    BY <1>4, <2>1, SeqMonotonic
  <2>3. Len(list) > 0
    <3>1. PICK x \in old : TRUE
      BY <1>4
    <3>2. \E i \in 1 .. Len(list) : list[i] = x
      BY <2>1
    <3> QED BY <2>2, <3>2
  <2>4. \A i \in 1 .. Len(list) : list[i] \in old
    <3> HIDE DEF old
    <3> QED BY <2>1, ElementOfSeq
  <2> QED BY <2>1, <2>2, <2>3, <2>4
<1> PICK msgs : msgs = Renumbered(list, n)
  OBVIOUS
<1>6. /\ msgs \in Seq(Published) /\ Len(msgs) = Len(list)
      /\ \A i \in 1 .. Len(list) : msgs[i] = Numbered(list[i], n + i) /\ list[i] \in Update
  BY <1>5, RenumberedType
<1> HIDE DEF old
<1>7. ASSUME NEW i \in 1 .. Len(msgs)
      PROVE  /\ msgs[i].seq = n + i /\ ~ msgs[i].body
             /\ \E k \in Key : map[k] # NoMsg /\ msgs[i].uuid = map[k].uuid /\ msgs[i].key = k
  <2>1. PICK k \in gone : list[i] = Emptied(map[k])
    BY <1>5, <1>6
  <2>2. list[i].body = FALSE /\ list[i].uuid = map[k].uuid /\ list[i].key = k
    <3> PICK old1 \in Update : old1 = map[k]
      BY <1>3
    <3>1. Emptied(old1).uuid = old1.uuid /\ Emptied(old1).body = FALSE
          /\ Emptied(old1).key = old1.key
      BY EmptiedType
    <3>2. map[k].key = k
      BY <1>1, <1>3 DEF Tidy
    <3> QED BY <2>1, <3>1, <3>2
  <2>3. n + i \in Nat \ {0}
    OBVIOUS
  <2>4. /\ msgs[i].seq = n + i /\ msgs[i].uuid = list[i].uuid /\ msgs[i].body = list[i].body
        /\ msgs[i].key = list[i].key
    BY <1>6, <2>3, NumberedType
  <2> QED BY <1>3, <2>2, <2>4
<1>8. Stored(map, msgs) \in Table /\ Tidy(Stored(map, msgs))
  BY <1>1, <1>6, PublishedIsUpdate, StoredType, TidyStored
<1>9. /\ server' = [server EXCEPT ![s].sequence = @ + Len(msgs), ![s].kvmap = Stored(@, msgs)]
      /\ out' = Publish(s, msgs, Wanted)
      /\ log' = IF Active(s) /\ s \notin tainted THEN log \o msgs ELSE log
      /\ tainted' = IF Active(s) THEN tainted ELSE tainted \cup {s}
  BY <1>2 DEF old
<1> PICK r : r = [server[s] EXCEPT !.sequence = n + Len(msgs), !.kvmap = Stored(map, msgs)]
  OBVIOUS
<1>10. /\ r \in ServerRecord /\ r.state = server[s].state /\ r.asking = server[s].asking
       /\ r.sequence = n + Len(msgs) /\ r.kvmap = Stored(map, msgs)
       /\ r.pending = server[s].pending
  <2>1. n + Len(msgs) \in Nat
    BY <1>6
  <2> QED BY <1>1, <1>8, <2>1 DEF ServerRecord
<1>11. server' = [server EXCEPT ![s] = r]
  BY <1>1, <1>9 DEF ServerRecord
<1>12. Runs(s) /\ ~ NoTable(s) /\ UNCHANGED <<subs, pubs, ask, snap, updates, crashes>>
  BY DEF Flush
<1>13. /\ Runs(s) /\ ~ NoTable(s)
       /\ Len(msgs) > 0
       /\ \A i \in 1 .. Len(msgs) : /\ msgs[i].seq = server[s].sequence + i
                                    /\ ~ msgs[i].body
                                    /\ \E k \in Key : server[s].kvmap[k] # NoMsg
                                           /\ msgs[i].uuid = server[s].kvmap[k].uuid
                                           /\ msgs[i].key = k
       /\ r.state = server[s].state /\ r.asking = server[s].asking
       /\ r.pending = server[s].pending
       /\ r.sequence = server[s].sequence + Len(msgs)
       /\ r.kvmap = Stored(server[s].kvmap, msgs)
       /\ r.kvmap \in Table /\ Tidy(r.kvmap)
  BY <1>5, <1>6, <1>7, <1>8, <1>10, <1>12
<1> QED BY <1>6, <1>9, <1>10, <1>11, <1>12, <1>13, Zenon

\* The active server flushes.
LEMMA FlushWrites ==
    ASSUME ServerInv, NEW s \in Server, Active(s), ~ NoTable(s),
           NEW msgs \in Seq(Published), NEW r \in ServerRecord,
           \A i \in 1 .. Len(msgs) : msgs[i].seq = server[s].sequence + i,
           r.state = server[s].state, r.asking = server[s].asking,
           r.sequence = server[s].sequence + Len(msgs),
           r.kvmap = Stored(server[s].kvmap, msgs), r.kvmap \in Table, Tidy(r.kvmap),
           server' = [server EXCEPT ![s] = r], out' = Publish(s, msgs, Wanted),
           log' = IF s \notin tainted THEN log \o msgs ELSE log,
           UNCHANGED <<subs, pubs, tainted, crashes>>
    PROVE  Writes_(s, msgs, r)
<1>1. log' = IF Holder(s) THEN SubSeq(log, 1, server[s].sequence) \o msgs ELSE log
  <2>1. CASE Holder(s)
    <3>1. server[s].sequence = Len(log) /\ log \in Seq(Published)
      BY <2>1, ServerFacts DEF Holder, CopyOf
    <3>2. SubSeq(log, 1, Len(log)) = log
      BY <3>1
    <3> QED BY <2>1, <3>1, <3>2 DEF Holder
  <2>2. CASE ~ Holder(s)
    BY <2>2 DEF Holder
  <2> QED BY <2>1, <2>2
<1>2. Publish(s, msgs, Wanted) \in [Pair -> Seq(Published)]
  BY ServerFacts, PublishIs
<1> QED BY <1>1, <1>2 DEF Writes_, Active

\* A server whose record a step leaves alone.
LEMMA KeptServer ==
    ASSUME NEW q \in Server, server'[q] = server[q]
    PROVE  /\ Active(q)' <=> Active(q)
           /\ Passive(q)' <=> Passive(q)
           /\ NoTable(q)' <=> NoTable(q)
           /\ Up(q)' <=> Up(q)
           /\ Joining(q)' <=> Joining(q)
BY DEF Active, Passive, NoTable, Up, Joining

\* A step that touches no server and no queue between servers.
LEMMA Undisturbed ==
    ASSUME ServerInv, NetTypeOK', UNCHANGED <<server, crashes, log, tainted>>,
           subs \subseteq subs',
           \A p \in subs' \ subs : Up(p[2]) /\ (p[1] \in Server => Up(p[1])),
           \A q \in Server : /\ ask'[FromPeer(q)] = ask[FromPeer(q)]
                             /\ snap'[FromPeer(q)] = snap[FromPeer(q)]
                             /\ out'[FromPeer(q)] = out[FromPeer(q)]
    PROVE  ServerInv'
<1>1. Types'
  BY DEF ServerInv, Types, ServerTypeOK
<1>2. Numbers'
  BY DEF ServerInv, Numbers
<1>3. /\ \A s : /\ Active(s)' <=> Active(s)
                /\ Passive(s)' <=> Passive(s)
                /\ NoTable(s)' <=> NoTable(s)
                /\ Up(s)' <=> Up(s)
                /\ Joining(s)' <=> Joining(s)
                /\ Holder(s)' <=> Holder(s)
                /\ FromPeer(s)' = FromPeer(s)
      /\ \A kvmap, n : TableIs(kvmap, n)' <=> TableIs(kvmap, n)
  BY DEF Active, Passive, NoTable, Up, Joining, Holder, FromPeer, TableIs
<1>4. Roles'
  <2>1. \A s \in Server : RolesOf(s)'
    BY <1>3 DEF ServerInv, Roles, RolesOf
  <2>2. \A p \in subs' : (Up(p[2]) /\ (p[1] \in Server => Up(p[1])))'
    BY <1>3 DEF ServerInv, Roles
  <2> QED BY <2>1, <2>2 DEF Roles
<1>5. Copies'
  BY <1>3 DEF ServerInv, Copies, CopyOf, TableIs
<1>6. Asked'
  <2>1. SUFFICES ASSUME NEW q \in Server PROVE AskOf(q)'
    BY DEF Asked
  <2>2. AskOf(q) /\ AskSubs(q)
    BY DEF ServerInv, Asked, AskOf
  <2>3. AskSubs(q)'
    BY <1>3, <2>2, AskSubsKept
  <2> QED BY <1>3, <2>2, <2>3 DEF AskOf
<1>7. \A q \in Server : \A j, k : Stretch(q, j, k)' <=> Stretch(q, j, k)
  BY <1>3 DEF Stretch
<1>8. Streams'
  <2>1. SUFFICES ASSUME NEW q \in Server PROVE StreamOf(q)'
    BY DEF Streams
  <2>2. StreamOf(q)
    BY DEF ServerInv, Streams
  <2> QED BY <1>3, <1>7, <2>2 DEF StreamOf
<1>9. Snapshots'
  <2>1. SUFFICES ASSUME NEW q \in Server \ tainted PROVE SnapFrom(q)'
    BY DEF Snapshots
  <2>2. SnapFrom(q)
    BY DEF ServerInv, Snapshots
  <2> QED BY <1>3, <1>7, <2>2 DEF SnapFrom, TableIs
<1> QED BY <1>1, <1>2, <1>4, <1>5, <1>6, <1>8, <1>9 DEF ServerInv

\* The same when the list of what is pending changes.
LEMMA OnlyPending ==
    ASSUME ServerInv, NetTypeOK', NEW s \in Server, NEW list \in Seq(Update),
           server' = [server EXCEPT ![s].pending = list],
           UNCHANGED <<subs, pubs, ask, snap, out, crashes, log, tainted>>
    PROVE  ServerInv'
<1>1. server \in [Server -> ServerRecord]
  BY ServerFacts, ServerRecords
<1>2. server' \in [Server -> ServerRecord]
  BY <1>1 DEF ServerRecord
<1>3. \A q \in Server : /\ server'[q].state = server[q].state
                        /\ server'[q].kvmap = server[q].kvmap
                        /\ server'[q].sequence = server[q].sequence
                        /\ server'[q].asking = server[q].asking
  BY <1>1 DEF ServerRecord
<1>4. Types'
  BY <1>2 DEF ServerInv, Types, ServerTypeOK, ServerRecord
<1>5. /\ \A q \in Server : /\ Active(q)' <=> Active(q)
                           /\ Passive(q)' <=> Passive(q)
                           /\ NoTable(q)' <=> NoTable(q)
                           /\ Up(q)' <=> Up(q)
                           /\ Joining(q)' <=> Joining(q)
                           /\ Holder(q)' <=> Holder(q)
                           /\ FromPeer(q)' = FromPeer(q)
                           /\ Peer(q) \in Server
      /\ \A kvmap, n : TableIs(kvmap, n)' <=> TableIs(kvmap, n)
      /\ \A q \in Server : \A j, k : Stretch(q, j, k)' <=> Stretch(q, j, k)
  <2>1. \A q \in Server : Peer(q) \in Server
    BY ServerFacts
  <2> QED BY <1>3, <2>1 DEF Active, Passive, NoTable, Up, Joining, Holder, FromPeer, TableIs, Stretch
<1>6. Numbers'
  BY DEF ServerInv, Numbers
<1>7. Roles'
  <2>1. \A q \in Server : RolesOf(q)'
    BY <1>3, <1>5 DEF ServerInv, Roles, RolesOf
  <2>2. \A p \in subs : p[2] \in Server
    BY DEF ServerInv, Types, NetTypeOK, Pair
  <2>3. \A p \in subs' : (Up(p[2]) /\ (p[1] \in Server => Up(p[1])))'
    BY <1>5, <2>2 DEF ServerInv, Roles
  <2> QED BY <2>1, <2>3 DEF Roles
<1>8. Copies'
  BY <1>3, <1>5 DEF ServerInv, Copies, CopyOf, TableIs
<1>9. Asked'
  <2>1. SUFFICES ASSUME NEW q \in Server PROVE AskOf(q)'
    BY DEF Asked
  <2>2. AskOf(q) /\ AskSubs(q)
    BY DEF ServerInv, Asked, AskOf
  <2>3. AskSubs(q)'
    BY <1>3, <1>5, <2>2, AskSubsKept
  <2> QED BY <1>3, <1>5, <2>2, <2>3 DEF AskOf
<1>10. Streams'
  <2>1. SUFFICES ASSUME NEW q \in Server PROVE StreamOf(q)'
    BY DEF Streams
  <2>2. StreamOf(q)
    BY DEF ServerInv, Streams
  <2> QED BY <1>3, <1>5, <2>2 DEF StreamOf
<1>11. Snapshots'
  <2>1. SUFFICES ASSUME NEW q \in Server \ tainted PROVE SnapFrom(q)'
    BY DEF Snapshots
  <2>2. SnapFrom(q)
    BY DEF ServerInv, Snapshots
  <2> QED BY <1>3, <1>5, <2>2 DEF SnapFrom, TableIs
<1> QED BY <1>4, <1>6, <1>7, <1>8, <1>9, <1>10, <1>11 DEF ServerInv

\* The parts of ServerInv, of which a step changes the records of one server s
\* and leaves the log; q is its peer.
LEMMA PartsOfInv ==
    ASSUME NEW s \in Server, NEW q \in Server, q = Peer(s), NetTypeOK', ServerTypeOK', Numbers',
           RolesOf(s)', RolesOf(q)', CopyOf(s)', CopyOf(q)', AskOf(s)', AskOf(q)',
           StreamOf(s)', StreamOf(q)',
           s \notin tainted' => SnapFrom(s)', q \notin tainted' => SnapFrom(q)',
           \A p \in subs' : (Up(p[2]) /\ (p[1] \in Server => Up(p[1])))'
    PROVE  ServerInv'
<1>1. \A t \in Server : t = s \/ t = q
  BY DEF Server, Peer
<1> QED BY <1>1 DEF ServerInv, Types, Roles, Copies, Asked, Streams, Snapshots

\* The subscriptions after a step that changes none and stops no server.
LEMMA LinksUp ==
    ASSUME ServerInv, subs' = subs, \A t \in Server : Up(t) => Up(t)'
    PROVE  \A p \in subs' : (Up(p[2]) /\ (p[1] \in Server => Up(p[1])))'
<1>1. \A p \in subs : p[2] \in Server
  BY DEF ServerInv, Types, NetTypeOK, Pair
<1> QED BY <1>1 DEF ServerInv, Roles

\* A server whose record and table a step leaves alone, and the log with them.
LEMMA KeptCopy ==
    ASSUME ServerInv, NEW q \in Server, server'[q] = server[q], log' = log,
           q \notin tainted' => q \notin tainted
    PROVE  CopyOf(q)'
<1>1. CopyOf(q)
  BY ServerFacts
<1> QED BY <1>1 DEF CopyOf, NoTable, Active, TableIs

\* A server starts.
LEMMA StartInv ==
    ASSUME ServerInv, NEW s \in Server, Start(s)
    PROVE  ServerInv'
<1> PICK q \in Server : q = Peer(s)
  BY ServerFacts
<1> PICK r : r = [Down EXCEPT !.state = StartState(s),
                              !.kvmap = IF s = "primary" THEN EmptyMap ELSE Null]
  OBVIOUS
<1>1. /\ r \in ServerRecord /\ r.state = StartState(s) /\ r.sequence = 0 /\ r.asking = FALSE
      /\ r.kvmap = IF s = "primary" THEN EmptyMap ELSE Null
  <2>1. EmptyMap \in Table /\ EmptyMap # Null
    BY EmptyMapType
  <2> PICK kvmap : kvmap = IF s = "primary" THEN EmptyMap ELSE Null
    OBVIOUS
  <2> PICK state : state = StartState(s)
    OBVIOUS
  <2>2. r = [state |-> state, kvmap |-> kvmap, sequence |-> 0, pending |-> <<>>, asking |-> FALSE]
    BY DEF Down
  <2>3. state \in State \cup {"DOWN"}
    BY DEF StartState, State
  <2>4. kvmap \in Table \cup {Null}
    BY <2>1
  <2>5. <<>> \in Seq(Update)
    OBVIOUS
  <2>6. ASSUME NEW S, NEW T, state \in S, kvmap \in T
        PROVE  [state |-> state, kvmap |-> kvmap, sequence |-> 0, pending |-> <<>>,
                asking |-> FALSE] \in [state : S, kvmap : T, sequence : Nat,
                                        pending : Seq(Update), asking : BOOLEAN]
    BY <2>5, <2>6
  <2>7. r \in ServerRecord
    BY <2>2, <2>3, <2>4, <2>6 DEF ServerRecord
  <2>8. /\ r.state = StartState(s) /\ r.sequence = 0 /\ r.asking = FALSE
        /\ r.kvmap = kvmap
    BY DEF Down
  <2> QED BY <2>7, <2>8
<1>2. /\ ~ Up(s) /\ server[s].state = "DOWN"
      /\ UNCHANGED <<subs, pubs, ask, snap, out, updates, crashes, log, tainted>>
  BY DEF Start, Up, netVars
<1>3. /\ server' \in [Server -> ServerRecord] /\ server'[s] = r /\ server'[q] = server[q]
      /\ \A t \in Server : t = s \/ t = q
      /\ Peer(q) = s /\ q # s
  <2>1. server' = [server EXCEPT ![s] = r]
    BY DEF Start
  <2> QED BY <1>1, <2>1, OneRecord, ServerFacts
<1>4. NetTypeOK' /\ ServerTypeOK' /\ Numbers'
  BY <1>2, <1>3 DEF ServerInv, Types, NetTypeOK, ServerTypeOK, ServerRecord, Numbers
<1>5. /\ ~ Active(s) /\ ~ Active(s)' /\ ~ Passive(s) /\ ~ Passive(s)' /\ Up(s)' /\ Joining(s)'
      /\ Joining(s)
      /\ server'[s].state = StartState(s)
      /\ s = "primary" => server'[s].state = "PRIMARY"
      /\ s = "backup" => server'[s].state = "BACKUP" /\ NoTable(s)'
  BY <1>1, <1>2, <1>3 DEF Active, Passive, Up, Joining, StartState, NoTable, Server
<1>6. /\ RolesOf(q) /\ RolesOf(s) /\ AskOf(q) /\ AskOf(s) /\ StreamOf(q) /\ StreamOf(s)
      /\ q \notin tainted => SnapFrom(q)
  BY <1>3, ServerFacts
<1>7. /\ Active(q)' <=> Active(q)
      /\ Passive(q)' <=> Passive(q)
      /\ NoTable(q)' <=> NoTable(q)
      /\ Up(q)' <=> Up(q)
      /\ Joining(q)' <=> Joining(q)
      /\ Holder(q)' <=> Holder(q)
  BY <1>2, <1>3, KeptServer DEF Holder
<1>8. RolesOf(s)'
  BY <1>1, <1>3, <1>5 DEF RolesOf, NoTable, StartState, Server
<1>9. RolesOf(q)'
  BY <1>3, <1>5, <1>6, <1>7 DEF RolesOf
<1>10. CopyOf(s)'
  <2> SUFFICES ASSUME s = "primary"
               PROVE  /\ Tidy(EmptyMap) /\ 0 <= Len(log)
                      /\ Names(EmptyMap) = Map!TableOf(log, 0)
    BY <1>1, <1>2, <1>3, <1>5 DEF CopyOf, TableIs, Server
  <2>1. 0 <= Len(log)
    <3>1. Len(log) \in Nat
      BY ServerFacts
    <3> QED BY <3>1
  <2> QED BY <2>1, TidyEmpty, EmptyTable
<1>11. CopyOf(q)'
  BY <1>2, <1>3, KeptCopy
<1>12. snap[FromPeer(s)] = <<>> /\ out[FromPeer(s)] = <<>> /\ ~ (ask[FromPeer(s)] > 0)
  BY <1>2, <1>5, <1>6 DEF AskOf, StreamOf, RolesOf
<1>13. AskOf(s)' /\ AskOf(q)'
  <2>1. AskSubs(s)'
    BY <1>1, <1>3 DEF AskSubs
  <2>2. AskSubs(q)'
    BY <1>2, <1>3, <1>5, <1>6, AskSubsKept DEF AskOf
  <2> QED BY <1>2, <1>3, <1>5, <1>6, <1>7, <1>12, <2>1, <2>2 DEF AskOf, FromPeer
<1>14. StreamOf(s)'
  <2>1. out'[FromPeer(s)] = <<>>
    BY <1>2, <1>12
  <2>2. \E j \in 0 .. Len(log) : Stretch(s, j, Len(log))
    <3>1. Len(log) \in 0 .. Len(log) /\ log \in Seq(Published)
      BY ServerFacts
    <3> QED BY <1>12, <3>1, PieceEmpty DEF Stretch
  <2>3. \A j, k : Stretch(s, j, k)' <=> Stretch(s, j, k)
    BY <1>2 DEF Stretch, FromPeer
  <2>4. FromPeer(s)' = FromPeer(s)
    BY DEF FromPeer
  <2> QED BY <1>2, <1>5, <2>1, <2>2, <2>3, <2>4 DEF StreamOf
<1>15. StreamOf(q)'
  <2>1. \A j, k : Stretch(q, j, k)' <=> Stretch(q, j, k)
    BY <1>2 DEF Stretch, FromPeer
  <2>2. FromPeer(q)' = FromPeer(q) /\ out' = out
    BY <1>2 DEF FromPeer
  <2>3. server[q].state = "PRIMARY" => server'[s].state = "BACKUP"
    BY <1>3, <1>5, <1>6 DEF RolesOf, Server
  <2> QED BY <1>2, <1>3, <1>5, <1>6, <1>7, <2>1, <2>2, <2>3 DEF StreamOf
<1>16. SnapFrom(s)'
  BY <1>2, <1>12 DEF SnapFrom, FromPeer
<1>17. q \notin tainted' => SnapFrom(q)'
  BY <1>2, <1>3, <1>5, <1>6 DEF SnapFrom, FromPeer
<1>18. \A p \in subs' : (Up(p[2]) /\ (p[1] \in Server => Up(p[1])))'
  BY <1>2, <1>3, <1>5, <1>7, LinksUp
<1> QED BY <1>4, <1>8, <1>9, <1>10, <1>11, <1>13, <1>14, <1>15, <1>16, <1>17, <1>18, PartsOfInv

\* A server becomes passive and gives its table up.
LEMMA TurnsPassiveInv ==
    ASSUME ServerInv, NEW s \in Server, TurnsPassive(s)
    PROVE  ServerInv'
<1> PICK q \in Server : q = Peer(s)
  BY ServerFacts
<1> PICK r : r = [server[s] EXCEPT !.state = "PASSIVE", !.kvmap = Null]
  OBVIOUS
<1>0. /\ RolesOf(q) /\ RolesOf(s) /\ AskOf(q) /\ AskOf(s) /\ StreamOf(q) /\ StreamOf(s)
      /\ q \notin tainted => SnapFrom(q)
      /\ s \notin tainted => SnapFrom(s)
  BY ServerFacts
<1>1. /\ r \in ServerRecord /\ r.state = "PASSIVE" /\ r.sequence = server[s].sequence
      /\ r.asking = server[s].asking /\ r.kvmap = Null /\ r.asking = FALSE /\ r.sequence = 0
      /\ Active(q) /\ ~ Active(s) /\ ~ Passive(s) /\ Up(s)
  <2>1. server[s] \in ServerRecord
    BY ServerFacts
  <2>2. server[s].state \in {"PRIMARY", "BACKUP"} /\ ~ server[s].asking /\ Active(q) /\ Up(s)
    BY DEF TurnsPassive, Runs
  <2>3. ~ Active(s) /\ ~ Passive(s)
    BY <2>2 DEF Active, Passive
  <2> QED BY <1>0, <2>1, <2>2, <2>3 DEF ServerRecord, State, RolesOf
<1>2. UNCHANGED <<subs, pubs, ask, snap, out, updates, crashes, log, tainted>>
  BY DEF TurnsPassive, netVars
<1>3. /\ server' \in [Server -> ServerRecord] /\ server'[s] = r /\ server'[q] = server[q]
      /\ \A t \in Server : t = s \/ t = q
      /\ Peer(q) = s /\ q # s
  <2>1. server' = [server EXCEPT ![s] = r]
    BY DEF TurnsPassive
  <2> QED BY <1>1, <2>1, OneRecord, ServerFacts
<1>4. NetTypeOK' /\ ServerTypeOK' /\ Numbers'
  BY <1>2, <1>3 DEF ServerInv, Types, NetTypeOK, ServerTypeOK, ServerRecord, Numbers
<1>5. Passive(s)' /\ ~ Active(s)' /\ NoTable(s)' /\ Up(s)' /\ Joining(s)' /\ Joining(s)
  BY <1>1, <1>3 DEF Active, Passive, NoTable, Up, Joining
<1>7. /\ Active(q)' /\ ~ Passive(q)' /\ Up(q)' /\ Up(q) /\ ~ Joining(q)' /\ ~ Joining(q)
      /\ NoTable(q)' <=> NoTable(q)
      /\ Holder(q)' <=> Holder(q)
  BY <1>1, <1>2, <1>3 DEF Active, Passive, NoTable, Up, Joining, Holder
<1>8. RolesOf(s)' /\ RolesOf(q)'
  <2>1. RolesOf(s)'
    BY <1>1, <1>3, <1>5, <1>7 DEF RolesOf
  <2>2. RolesOf(q)'
    <3>1. server[q].state = "ACTIVE" /\ ~ Passive(q)
      BY <1>1 DEF Active, Passive
    <3> QED BY <1>0, <1>3, <1>5, <1>7, <3>1 DEF RolesOf
  <2> QED BY <2>1, <2>2
<1>10. CopyOf(s)' /\ CopyOf(q)'
  <2>1. CopyOf(s)'
    BY <1>5 DEF CopyOf
  <2> QED BY <1>2, <1>3, <2>1, KeptCopy
<1>13. AskOf(s)' /\ AskOf(q)'
  <2>1. AskSubs(s)'
    BY <1>1, <1>3 DEF AskSubs
  <2>2. AskSubs(q)'
    BY <1>0, <1>1, <1>2, <1>3, AskSubsKept DEF AskOf
  <2> QED BY <1>0, <1>1, <1>2, <1>3, <1>5, <1>7, <2>1, <2>2 DEF AskOf, FromPeer
<1>14. StreamOf(s)'
  <2>1. \A j, k : Stretch(s, j, k)' <=> Stretch(s, j, k)
    BY <1>2 DEF Stretch, FromPeer
  <2>2. FromPeer(s)' = FromPeer(s) /\ out' = out
    BY <1>2 DEF FromPeer
  <2> QED BY <1>0, <1>1, <1>2, <1>3, <1>5, <1>7, <2>1, <2>2 DEF StreamOf
<1>15. StreamOf(q)'
  BY <1>7 DEF StreamOf
<1>16. s \notin tainted' => SnapFrom(s)'
  BY <1>0, <1>1, <1>2 DEF SnapFrom, FromPeer
<1>17. q \notin tainted' => SnapFrom(q)'
  BY <1>0, <1>1, <1>2, <1>3 DEF SnapFrom, FromPeer
<1>18. \A p \in subs' : (Up(p[2]) /\ (p[1] \in Server => Up(p[1])))'
  BY <1>2, <1>3, <1>5, <1>7, LinksUp
<1> QED BY <1>4, <1>8, <1>10, <1>13, <1>14, <1>15, <1>16, <1>17, <1>18, PartsOfInv

\* A passive server asks for a snapshot.
LEMMA AskPeerInv ==
    ASSUME ServerInv, NEW s \in Server, AskPeer(s)
    PROVE  ServerInv'
<1> PICK q \in Server : q = Peer(s)
  BY ServerFacts
<1> PICK r : r = [server[s] EXCEPT !.asking = TRUE]
  OBVIOUS
<1>0. /\ RolesOf(q) /\ RolesOf(s) /\ AskOf(q) /\ AskOf(s) /\ StreamOf(q) /\ StreamOf(s)
      /\ q \notin tainted => SnapFrom(q)
      /\ s \notin tainted => SnapFrom(s)
      /\ server[s] \in ServerRecord /\ server \in [Server -> ServerRecord]
      /\ FromPeer(s) \in Pair /\ FromPeer(q) \in Pair /\ FromPeer(s) # FromPeer(q)
      /\ ask[FromPeer(s)] \in Nat /\ ask \in [Pair -> Nat]
  BY ServerFacts, ServerRecords DEF NetTypeOK, FromPeer
<1>1. /\ r \in ServerRecord /\ r.state = server[s].state /\ r.sequence = server[s].sequence
      /\ r.kvmap = server[s].kvmap /\ r.asking = TRUE
      /\ Passive(s) /\ NoTable(s) /\ Up(s) /\ ~ server[s].asking
  BY <1>0 DEF AskPeer, Runs, ServerRecord
<1>2. /\ UNCHANGED <<subs, pubs, snap, out, updates, crashes, log, tainted>>
      /\ ask' = [ask EXCEPT ![FromPeer(s)] = @ + 1]
  BY DEF AskPeer, FromPeer
<1>3. /\ server' \in [Server -> ServerRecord] /\ server'[s] = r /\ server'[q] = server[q]
      /\ \A t \in Server : t = s \/ t = q
      /\ Peer(q) = s /\ q # s
  <2>1. server' = [server EXCEPT ![s] = r]
    BY <1>0 DEF AskPeer, ServerRecord
  <2> QED BY <1>1, <2>1, OneRecord, ServerFacts
<1>4. NetTypeOK' /\ ServerTypeOK' /\ Numbers'
  <2>1. ask' \in [Pair -> Nat]
    BY <1>0, <1>2
  <2> QED BY <1>2, <1>3, <2>1 DEF ServerInv, Types, NetTypeOK, ServerTypeOK, ServerRecord, Numbers
<1>5. /\ Passive(s)' /\ ~ Active(s)' /\ ~ Active(s) /\ NoTable(s)' /\ Up(s)'
      /\ Joining(s)' /\ Joining(s)
  BY <1>1, <1>3 DEF Active, Passive, NoTable, Up, Joining
<1>7. /\ Active(q)' <=> Active(q)
      /\ Passive(q)' <=> Passive(q)
      /\ NoTable(q)' <=> NoTable(q)
      /\ Up(q)' <=> Up(q)
      /\ Joining(q)' <=> Joining(q)
      /\ Holder(q)' <=> Holder(q)
  BY <1>2, <1>3, KeptServer DEF Holder
<1>8. RolesOf(s)' /\ RolesOf(q)'
  BY <1>0, <1>1, <1>3, <1>5, <1>7 DEF RolesOf, NoTable, Active, Passive
<1>10. CopyOf(s)' /\ CopyOf(q)'
  <2>1. CopyOf(s)'
    BY <1>5 DEF CopyOf
  <2> QED BY <1>2, <1>3, <2>1, KeptCopy
<1>12. ask[FromPeer(s)] = 0 /\ ask'[FromPeer(s)] = 1 /\ ask'[FromPeer(q)] = ask[FromPeer(q)]
  BY <1>0, <1>1, <1>2 DEF AskOf
<1>13. AskOf(s)' /\ AskOf(q)'
  <2>1. AskSubs(s)'
    <3> SUFFICES ASSUME s \notin tainted, q \notin tainted, ~ (Active(q) /\ NoTable(q)),
                        FromPeer(s) \notin subs
                 PROVE  FALSE
      BY <1>2, <1>3, <1>7 DEF AskSubs, FromPeer
    <3>1. out[FromPeer(s)] = <<>>
      <4>1. CASE Active(q)
        BY <1>0, <1>3, <1>5, <4>1 DEF StreamOf, Holder
      <4>2. CASE ~ Active(q)
        <5>1. server[s].state # "PRIMARY"
          BY <1>1 DEF Passive
        <5> QED BY <1>0, <1>3, <1>5, <4>2, <5>1 DEF StreamOf
      <4> QED BY <4>1, <4>2
    <3>2. out[<<s, Peer(s)>>] = <<>> /\ <<s, Peer(s)>> \notin subs
      BY <3>1 DEF FromPeer
    <3> QED BY <3>2 DEF AskPeer, Hugz
  <2>2. AskSubs(q)'
    BY <1>0, <1>1, <1>2, <1>3, <1>5, AskSubsKept DEF AskOf
  <2> QED BY <1>0, <1>1, <1>2, <1>3, <1>5, <1>7, <1>12, <2>1, <2>2 DEF AskOf, FromPeer
<1>14. StreamOf(s)'
  <2>1. \A j, k : Stretch(s, j, k)' <=> Stretch(s, j, k)
    BY <1>2 DEF Stretch, FromPeer
  <2>2. FromPeer(s)' = FromPeer(s) /\ out' = out
    BY <1>2 DEF FromPeer
  <2>3. server'[s].state = server[s].state
    BY <1>1, <1>3
  <2> QED BY <1>0, <1>2, <1>3, <1>5, <1>7, <2>1, <2>2, <2>3 DEF StreamOf
<1>15. StreamOf(q)'
  <2>1. \A j, k : Stretch(q, j, k)' <=> Stretch(q, j, k)
    BY <1>2 DEF Stretch, FromPeer
  <2>2. FromPeer(q)' = FromPeer(q) /\ out' = out
    BY <1>2 DEF FromPeer
  <2>3. server'[s].state = server[s].state
    BY <1>1, <1>3
  <2> QED BY <1>0, <1>2, <1>3, <1>5, <1>7, <2>1, <2>2, <2>3 DEF StreamOf
<1>16. s \notin tainted' => SnapFrom(s)'
  BY <1>0, <1>1, <1>2 DEF SnapFrom, FromPeer
<1>17. q \notin tainted' => SnapFrom(q)'
  BY <1>0, <1>2, <1>3, <1>5 DEF SnapFrom, FromPeer
<1>18. \A p \in subs' : (Up(p[2]) /\ (p[1] \in Server => Up(p[1])))'
  BY <1>2, <1>3, <1>5, <1>7, LinksUp
<1> QED BY <1>4, <1>8, <1>10, <1>13, <1>14, <1>15, <1>16, <1>17, <1>18, PartsOfInv

\* A request is refused.
LEMMA RefusesInv ==
    ASSUME ServerInv, NEW s \in Server, NEW x \in Agent \cup {Peer(s)}, Refuses(s, x)
    PROVE  ServerInv'
<1> PICK q \in Server : q = Peer(s)
  BY ServerFacts
<1>0. /\ Peer(q) = s /\ FromPeer(q) = <<q, s>> /\ FromPeer(s) = <<s, q>> /\ s # q
      /\ \A t \in Server : t = s \/ t = q
      /\ ask \in [Pair -> Nat] /\ <<x, s>> \in Pair /\ ask[<<x, s>>] \in Nat
      /\ FromPeer(q) \in Pair /\ FromPeer(s) \in Pair
  BY ServerFacts, PairOfAgent DEF NetTypeOK, FromPeer
<1>1. /\ ask[<<x, s>>] > 0 /\ ask' = [ask EXCEPT ![<<x, s>>] = @ - 1]
      /\ UNCHANGED <<subs, pubs, snap, out, updates, server, log, tainted, crashes>>
  BY DEF Refuses
<1>2. NetTypeOK'
  <2>1. ask' \in [Pair -> Nat]
    BY <1>0, <1>1
  <2> QED BY <1>1, <2>1 DEF ServerInv, Types, NetTypeOK
<1>3. CASE x # q
  <2>1. x \notin Server
    BY <1>3, PairOfAgent
  <2>2. \A t \in Server : ask'[FromPeer(t)] = ask[FromPeer(t)]
    BY <1>0, <1>1, <2>1
  <2> QED BY <1>1, <1>2, <2>2, Undisturbed
<1>4. CASE x = q
  <2>1. /\ ask[FromPeer(q)] = 1 /\ ask'[FromPeer(q)] = 0 /\ ask'[FromPeer(s)] = ask[FromPeer(s)]
        /\ q \notin tainted => snap[FromPeer(q)] = <<>>
    <3>1. AskOf(q) /\ (q \notin tainted => SnapFrom(q))
      BY ServerFacts
    <3>2. ask[FromPeer(q)] = 1
      BY <1>0, <1>1, <1>4, <3>1 DEF AskOf
    <3>3. ask'[FromPeer(q)] = 0 /\ ask'[FromPeer(s)] = ask[FromPeer(s)]
      BY <1>0, <1>1, <1>4, <3>2
    <3>4. q \notin tainted => snap[FromPeer(q)] = <<>>
      BY <3>1, <3>2 DEF SnapFrom
    <3> QED BY <3>2, <3>3, <3>4
  <2>2. /\ RolesOf(q)' /\ RolesOf(s)' /\ CopyOf(s)' /\ CopyOf(q)' /\ StreamOf(s)' /\ StreamOf(q)'
        /\ \A p \in subs' : (Up(p[2]) /\ (p[1] \in Server => Up(p[1])))'
    <3>1. /\ RolesOf(q) /\ RolesOf(s) /\ StreamOf(s) /\ StreamOf(q)
      BY ServerFacts
    <3>2. /\ \A t : /\ Active(t)' <=> Active(t)
                    /\ Passive(t)' <=> Passive(t)
                    /\ NoTable(t)' <=> NoTable(t)
                    /\ Up(t)' <=> Up(t)
                    /\ Joining(t)' <=> Joining(t)
                    /\ Holder(t)' <=> Holder(t)
                    /\ FromPeer(t)' = FromPeer(t)
          /\ \A t, j, k : Stretch(t, j, k)' <=> Stretch(t, j, k)
      BY <1>1 DEF Active, Passive, NoTable, Up, Joining, Holder, FromPeer, Stretch
    <3>3. CopyOf(s)' /\ CopyOf(q)'
      BY <1>1, KeptCopy
    <3>4. RolesOf(q)' /\ RolesOf(s)'
      BY <1>1, <3>1, <3>2 DEF RolesOf
    <3>5. StreamOf(q)' /\ StreamOf(s)'
      BY <1>1, <3>1, <3>2 DEF StreamOf
    <3> QED BY <1>1, <3>2, <3>3, <3>4, <3>5, LinksUp
  <2>3. ServerTypeOK' /\ Numbers'
    BY <1>1 DEF ServerInv, Types, ServerTypeOK, Numbers
  <2>4. AskOf(q)' /\ AskOf(s)'
    <3>1. AskOf(q) /\ AskOf(s)
      BY ServerFacts
    <3>2. AskSubs(q)' /\ AskSubs(s)'
      <4>1. \A t : Active(t)' = Active(t) /\ NoTable(t)' = NoTable(t)
        BY <1>1 DEF Active, NoTable
      <4> QED BY <1>1, <3>1, <4>1, AskSubsKept DEF AskOf
    <3> QED BY <1>1, <2>1, <3>1, <3>2 DEF AskOf, FromPeer, Up
  <2>5. q \notin tainted' => SnapFrom(q)'
    <3>1. FromPeer(q)' = FromPeer(q) /\ snap' = snap /\ tainted' = tainted
      BY <1>1 DEF FromPeer
    <3>2. q \notin tainted => snap[FromPeer(q)] = <<>>
      BY <2>1
    <3> QED BY <3>1, <3>2 DEF SnapFrom
  <2>6. s \notin tainted' => SnapFrom(s)'
    <3>1. s \notin tainted => SnapFrom(s)
      BY ServerFacts
    <3>2. server[q].asking /\ Passive(q)
      <4>1. AskOf(q) /\ RolesOf(q)
        BY ServerFacts
      <4> QED BY <2>1, <4>1 DEF AskOf, RolesOf
    <3> QED BY <1>0, <1>1, <3>1, <3>2 DEF SnapFrom, FromPeer, Passive, Active
  <2> QED BY <1>2, <2>2, <2>3, <2>4, <2>5, <2>6, PartsOfInv
<1> QED BY <1>3, <1>4

\* The end of a server's process.
LEMMA DieInv ==
    ASSUME ServerInv, NEW s \in Server, Dies(s), crashes' \in 0 .. MaxCrashes
    PROVE  ServerInv'
<1> PICK msgs \in Seq(Published) :
            /\ Die(s, msgs)
            /\ \/ msgs = <<>>
               \/ NoTable(s) /\ server[s].state \in {"ACTIVE", "PASSIVE", "PRIMARY"}
  BY DEF Dies
<1> PICK queues : queues = Publish(s, msgs, Wanted)
  OBVIOUS
<1> PICK q \in Server : q = Peer(s)
  BY ServerFacts
<1>0. /\ Peer(q) = s /\ FromPeer(q) = <<q, s>> /\ FromPeer(s) = <<s, q>> /\ s # q
      /\ \A t \in Server : t = s \/ t = q
      /\ FromPeer(q) \in Pair /\ FromPeer(s) \in Pair
      /\ NetTypeOK /\ ServerTypeOK
      /\ log \in Seq(Published) /\ Len(log) \in Nat
  BY ServerFacts DEF FromPeer
<1>1. /\ RolesOf(q) /\ AskOf(q) /\ StreamOf(q) /\ CopyOf(q)
      /\ q \notin tainted => SnapFrom(q)
  BY ServerFacts
<1>2. /\ subs' = {p \in subs : s \notin {p[1], p[2]}}
      /\ snap' \in Remains(s, snap)
      /\ pubs' = {p \in pubs : p[2] # s}
      /\ out' \in Remains(s, queues)
      /\ updates' = [p \in Agent \X Server |-> IF p[2] = s THEN <<>> ELSE updates[p]]
      /\ server' = [server EXCEPT ![s] = Down]
      /\ log' = log
      /\ tainted' = (tainted \ {s}) \cup
          {t \in {Peer(s)} : \/ server[t].asking
                             \/ server[t].kvmap = Null /\ out'[<<t, s>>] # <<>>}
  BY DEF Die, Closed
<1>3. PICK lost \in SUBSET Readers(s) :
          ask' = [p \in Pair |-> IF p[1] = s \/ p \in lost THEN 0 ELSE ask[p]]
  BY DEF Die, Closed
<1>4. /\ server' \in [Server -> ServerRecord] /\ server'[s] = Down /\ server'[q] = server[q]
  <2>1. Down \in ServerRecord
    <3>1. <<>> \in Seq(Update)
      OBVIOUS
    <3> QED BY <3>1 DEF Down, ServerRecord
  <2> QED BY <1>0, <1>2, <2>1, OneRecord
<1>5. /\ snap' \in [Pair -> Seq(Reply)] /\ out' \in [Pair -> Seq(Published)]
      /\ snap'[FromPeer(s)] = <<>> /\ out'[FromPeer(s)] = <<>>
      /\ \E k \in 0 .. Len(snap[FromPeer(q)]) :
            snap'[FromPeer(q)] = SubSeq(snap[FromPeer(q)], 1, k)
      /\ \E k \in 0 .. Len(queues[FromPeer(q)]) :
            out'[FromPeer(q)] = SubSeq(queues[FromPeer(q)], 1, k)
      /\ msgs = <<>> \/ FromPeer(q) \notin subs => queues[FromPeer(q)] = out[FromPeer(q)]
  <2>0. /\ queues \in [Pair -> Seq(Published)]
        /\ msgs = <<>> \/ FromPeer(q) \notin subs => queues[FromPeer(q)] = out[FromPeer(q)]
    <3>1. /\ queues \in [Pair -> Seq(Published)]
          /\ \A p \in Pair : queues[p] =
                IF p[2] = s /\ p \in subs /\ p \in Wanted THEN out[p] \o Wired(msgs) ELSE out[p]
      BY <1>0, PublishIs
    <3>2. msgs = <<>> => Wired(msgs) = <<>>
      <4>1. Wired(msgs) \in Seq(Update) /\ Len(Wired(msgs)) = Len(msgs)
        BY WiredType, PublishedIsUpdate
      <4> QED BY <4>1, EmptySeq
    <3>3. out[FromPeer(q)] \in Seq(Published) /\ out[FromPeer(q)] \o <<>> = out[FromPeer(q)]
      BY <1>0 DEF NetTypeOK
    <3> QED BY <1>0, <3>1, <3>2, <3>3
  <2>1. snap \in [Pair -> Seq(Reply)] /\ out \in [Pair -> Seq(Published)]
    BY <1>0 DEF NetTypeOK, Reply
  <2>2. /\ snap' \in [Pair -> Seq(Reply)]
        /\ \A p \in Pair :
                /\ p[1] = s => snap'[p] = <<>>
                /\ p[2] = s => \E k \in 0 .. Len(snap[p]) : snap'[p] = SubSeq(snap[p], 1, k)
    <3> PICK left : left = snap'
      OBVIOUS
    <3>1. left \in Remains(s, snap) /\ snap \in [Pair -> Seq(Reply)]
      BY <1>2, <2>1
    <3>2. /\ left \in [Pair -> Seq(Reply)]
          /\ \A p \in Pair :
                /\ p[1] = s => left[p] = <<>>
                /\ p[2] = s => \E k \in 0 .. Len(snap[p]) : left[p] = SubSeq(snap[p], 1, k)
                /\ p[1] # s /\ p[2] # s => left[p] = snap[p]
      BY <3>1, RemainsIs
    <3> QED BY <3>2
  <2>3. /\ out' \in [Pair -> Seq(Published)]
        /\ \A p \in Pair :
                /\ p[1] = s => out'[p] = <<>>
                /\ p[2] = s => \E k \in 0 .. Len(queues[p]) : out'[p] = SubSeq(queues[p], 1, k)
    <3> PICK left : left = out'
      OBVIOUS
    <3> PICK queue : queue = queues
      OBVIOUS
    <3>1. left \in Remains(s, queue) /\ queue \in [Pair -> Seq(Published)]
      BY <1>2, <2>0
    <3>2. /\ left \in [Pair -> Seq(Published)]
          /\ \A p \in Pair :
                /\ p[1] = s => left[p] = <<>>
                /\ p[2] = s => \E k \in 0 .. Len(queue[p]) : left[p] = SubSeq(queue[p], 1, k)
                /\ p[1] # s /\ p[2] # s => left[p] = queue[p]
      BY <3>1, RemainsIs, SMTT(60)
    <3> QED BY <3>2
  <2>4. FromPeer(s)[1] = s /\ FromPeer(q)[2] = s
    BY <1>0
  <2> QED BY <1>0, <2>0, <2>2, <2>3, <2>4
<1>6. /\ ask' \in [Pair -> Nat] /\ ask'[FromPeer(s)] = 0
      /\ ask'[FromPeer(q)] \in {0, ask[FromPeer(q)]}
  BY <1>0, <1>3 DEF NetTypeOK
<1>7. NetTypeOK'
  <2>1. subs' \subseteq Pair /\ pubs' \subseteq Agent \X Server
    BY <1>0, <1>2 DEF NetTypeOK
  <2>2. updates' \in [Agent \X Server -> Seq(Update)]
    <3>1. \A p \in Agent \X Server :
             (IF p[2] = s THEN <<>> ELSE updates[p]) \in Seq(Update)
      BY <1>0 DEF NetTypeOK
    <3> QED BY <1>2, <3>1
  <2> QED BY <1>5, <1>6, <2>1, <2>2 DEF NetTypeOK, Reply
<1>8. ServerTypeOK' /\ Numbers'
  <2>1. tainted' \subseteq Server
    BY <1>0, <1>2 DEF ServerTypeOK
  <2> QED BY <1>0, <1>2, <1>4, <2>1 DEF ServerTypeOK, ServerRecord, ServerInv, Numbers
<1>9. /\ ~ Active(s)' /\ ~ Passive(s)' /\ ~ Up(s)' /\ NoTable(s)' /\ Joining(s)'
      /\ server'[s].state = "DOWN" /\ server'[s].sequence = 0 /\ ~ server'[s].asking
      /\ server'[s].kvmap = Null
  BY <1>4 DEF Down, Active, Passive, Up, NoTable, Joining
<1>10. /\ Active(q)' <=> Active(q)
       /\ Passive(q)' <=> Passive(q)
       /\ NoTable(q)' <=> NoTable(q)
       /\ Up(q)' <=> Up(q)
       /\ Joining(q)' <=> Joining(q)
  BY <1>4, KeptServer
<1>11. q \notin tainted' => q \notin tainted
  BY <1>0, <1>2
<1>12. q \notin tainted' => ~ server[q].asking /\ (NoTable(q) => out'[FromPeer(q)] = <<>>)
  BY <1>0, <1>2 DEF NoTable
<1>13. RolesOf(s)'
  BY <1>9 DEF RolesOf
<1>14. RolesOf(q)'
  BY <1>0, <1>1, <1>4, <1>9, <1>10 DEF RolesOf
<1>15. CopyOf(s)' /\ CopyOf(q)'
  <2>1. CopyOf(s)'
    BY <1>9 DEF CopyOf
  <2> QED BY <1>2, <1>4, <1>11, <2>1, KeptCopy
<1>16. AskOf(s)'
  BY <1>5, <1>6, <1>9 DEF AskOf, AskSubs, FromPeer
<1>17. snap[FromPeer(q)] = <<>> => snap'[FromPeer(q)] = <<>>
  BY <1>5
<1>18. ~ Up(q) => out'[FromPeer(q)] = <<>>
  <2> HAVE ~ Up(q)
  <2>1. FromPeer(q) \notin subs
    BY <1>0 DEF ServerInv, Roles
  <2>2. queues[FromPeer(q)] = <<>>
    BY <1>1, <1>5, <2>1 DEF StreamOf
  <2> QED BY <1>5, <2>2
<1>19. AskOf(q)'
  <2>1. ~ Up(q) => snap[FromPeer(q)] = <<>>
    BY <1>1 DEF AskOf
  <2>2. ask[FromPeer(q)] > 0 => server[q].asking /\ ask[FromPeer(q)] = 1
    BY <1>1 DEF AskOf
  <2>3. ask'[FromPeer(q)] > 0 => server'[q].asking /\ ask'[FromPeer(q)] = 1
    BY <1>4, <1>6, <2>2
  <2>4. ~ Up(q)' => snap'[FromPeer(q)] = <<>>
    BY <1>10, <1>17, <2>1
  <2>5. FromPeer(q)' = FromPeer(q) /\ (q \notin tainted' => ~ server'[q].asking)
    BY <1>4, <1>12 DEF FromPeer
  <2> QED BY <2>3, <2>4, <2>5 DEF AskOf, AskSubs
<1>20. StreamOf(s)'
  <2>1. FromPeer(s)' = FromPeer(s) /\ FromPeer(s) \notin subs'
    BY <1>0, <1>2 DEF FromPeer
  <2>2. \E j \in 0 .. Len(log) : Stretch(s, j, Len(log))'
    <3>1. Len(log) \in 0 .. Len(log)
      BY <1>0
    <3>2. Piece(log, Len(log), Len(log)) = <<>>
      BY <1>0, <3>1, PieceEmpty
    <3>3. Stretch(s, Len(log), Len(log))' <=> out'[FromPeer(s)] = Piece(log, Len(log), Len(log))
      BY <1>2, <2>1 DEF Stretch
    <3>4. Stretch(s, Len(log), Len(log))'
      BY <1>5, <3>2, <3>3
    <3>5. \A j : Stretch(s, j, Len(log))' <=> out'[FromPeer(s)] = Piece(log, j, Len(log))
      BY <1>2, <2>1 DEF Stretch
    <3> QED BY <1>5, <3>1, <3>2, <3>5
  <2> QED BY <1>0, <1>2, <1>5, <1>9, <2>1, <2>2 DEF StreamOf
<1>21. StreamOf(q)'
  <2>1. FromPeer(q)' = FromPeer(q)
    BY DEF FromPeer
  <2>2. ~ Up(q)' => out'[FromPeer(q)] = <<>>
    BY <1>10, <1>18
  <2>3. ASSUME q \notin tainted', Passive(q), ~ NoTable(q)
        PROVE  \E k \in 0 .. Len(log) : \E j \in 0 .. k :
                  /\ out'[FromPeer(q)] = Piece(log, j, k)
                  /\ j <= server[q].sequence
    <3>0. PICK k \in 0 .. Len(log) : \E j \in 0 .. k :
                  out[FromPeer(q)] = Piece(log, j, k) /\ j <= server[q].sequence
      BY <1>1, <1>11, <2>3 DEF StreamOf, Stretch
    <3>1. PICK j \in 0 .. k : out[FromPeer(q)] = Piece(log, j, k) /\ j <= server[q].sequence
      BY <3>0
    <3>a. queues[FromPeer(q)] = out[FromPeer(q)]
      <4>1. ~ (NoTable(s) /\ Active(s))
        BY <1>0, <1>1, <1>11, <2>3 DEF StreamOf, Holder
      <4>2. ~ Passive(s)
        BY <1>0, <1>1, <2>3 DEF RolesOf
      <4>3. ~ (NoTable(s) /\ server[s].state = "PRIMARY")
        BY ServerFacts, EmptyMapType DEF RolesOf, NoTable
      <4> QED BY <1>5, <4>1, <4>2, <4>3 DEF Active, Passive
    <3>2. Len(queues[FromPeer(q)]) = k - j
      BY <1>0, <3>1, <3>a, PieceIs
    <3>3. PICK n \in 0 .. k - j : out'[FromPeer(q)] = SubSeq(Piece(log, j, k), 1, n)
      BY <1>5, <3>1, <3>2, <3>a
    <3>4. out'[FromPeer(q)] = Piece(log, j, j + n)
      BY <1>0, <3>3, PieceTaken
    <3>5. j + n \in 0 .. Len(log) /\ j \in 0 .. j + n
      BY <1>0
    <3> QED BY <3>1, <3>4, <3>5
  <2>4. ASSUME q \notin tainted', Joining(q)
        PROVE  out'[FromPeer(q)] = <<>> \/ server[q].state = "PRIMARY"
    <3>1. CASE NoTable(q)
      BY <1>12, <2>4, <3>1
    <3>2. CASE ~ NoTable(q)
      <4>1. server[q].state \in State \cup {"DOWN"}
        BY <1>0, ServerRecords
      <4>2. server[q].state \notin {"BACKUP", "DOWN", "ACTIVE", "PASSIVE"}
        BY <1>1, <2>4, <3>2 DEF RolesOf, Joining, Active, Passive
      <4> QED BY <4>1, <4>2 DEF State
    <3> QED BY <3>1, <3>2
  <2>5. \A j, k : Stretch(q, j, k)' <=> out'[FromPeer(q)] = Piece(log, j, k)
    BY <1>2, <2>1 DEF Stretch
  <2>6. q \notin tainted' /\ Passive(q)' /\ ~ NoTable(q)' =>
           \E k \in 0 .. Len(log') : \E j \in 0 .. k :
                  /\ Stretch(q, j, k)'
                  /\ j <= server'[q].sequence
    BY <1>2, <1>4, <1>10, <2>3, <2>5
  <2>7. q \notin tainted' /\ Joining(q)' => out'[FromPeer(q)] = <<>> \/ server'[q].state = "PRIMARY"
    BY <1>4, <1>10, <2>4
  <2> QED BY <1>0, <1>9, <2>1, <2>2, <2>6, <2>7 DEF StreamOf
<1>22. s \notin tainted' => SnapFrom(s)'
  <2>1. FromPeer(s)' = FromPeer(s)
    BY DEF FromPeer
  <2> QED BY <1>5, <2>1 DEF SnapFrom
<1>23. q \notin tainted' => SnapFrom(q)'
  <2>1. FromPeer(q)' = FromPeer(q)
    BY DEF FromPeer
  <2>2. q \notin tainted' => snap'[FromPeer(q)] = <<>>
    <3>1. q \notin tainted' /\ snap[FromPeer(q)] # <<>> => server[q].asking
      BY <1>1, <1>11 DEF SnapFrom
    <3> QED BY <1>12, <1>17, <3>1
  <2> QED BY <2>1, <2>2 DEF SnapFrom
<1>24. \A p \in subs' : (Up(p[2]) /\ (p[1] \in Server => Up(p[1])))'
  <2>1. SUFFICES ASSUME NEW p \in subs' PROVE Up(p[2])' /\ (p[1] \in Server => Up(p[1])')
    OBVIOUS
  <2>2. p \in subs /\ p[1] # s /\ p[2] # s /\ p[2] \in Server
    BY <1>0, <1>2 DEF NetTypeOK, Pair
  <2>3. Up(p[2]) /\ (p[1] \in Server => Up(p[1]))
    BY <2>2 DEF ServerInv, Roles
  <2> QED BY <1>0, <1>10, <2>2, <2>3
<1> QED BY <1>7, <1>8, <1>13, <1>14, <1>15, <1>16, <1>19, <1>20, <1>21, <1>22, <1>23, <1>24,
           PartsOfInv

\* A server that has numbered some messages has ended no subscription.
LEMMA WriteAskSubs ==
    ASSUME ServerInv, NEW s \in Server, Runs(s), Active(s) \/ MayTakeOver(s),
           NEW msgs \in Seq(Published), NEW r \in ServerRecord, Writes_(s, msgs, r),
           NEW t \in Server
    PROVE  AskSubs(t)'
<1> PICK q \in Server : q = Peer(s)
  BY ServerFacts
<1>1. /\ server'[s] = r /\ server'[q] = server[q] /\ tainted' = tainted /\ subs' = subs
      /\ Peer(q) = s /\ q # s /\ r.state = "ACTIVE" /\ r.asking = server[s].asking
      /\ NoTable(s) <=> r.kvmap = Null
      /\ t = s \/ t = q
  <2>1. NoTable(s) <=> r.kvmap = Null
    BY TableIsNotNull DEF Writes_
  <2> QED BY <2>1, ServerFacts, OneRecord DEF Writes_
<1>2. CASE t = s
  BY <1>1, <1>2 DEF AskSubs, Runs
<1>3. CASE t = q
  <2>1. AskSubs(t)
    BY ServerFacts DEF AskOf
  <2>2. Active(s)' /\ (NoTable(s)' <=> NoTable(s))
    BY <1>1 DEF Active, NoTable
  <2> QED BY <1>1, <1>3, <2>1, <2>2, AskSubsKept
<1> QED BY <1>1, <1>2, <1>3

\* A server has numbered some messages: the whole invariant.
LEMMA WriteInv ==
    ASSUME ServerInv, NEW s \in Server, Runs(s), Active(s) \/ MayTakeOver(s),
           NEW msgs \in Seq(Published), NEW r \in ServerRecord, Writes_(s, msgs, r),
           NetTypeOK', ask' = ask, snap' = snap
    PROVE  ServerInv'
<1>1. ServerTypeOK' /\ Numbers' /\ Roles' /\ Copies' /\ Streams'
  BY WriteTypes, WriteCopies, WriteStreams
<1>2. Snapshots'
  <2>1. tainted' = tainted
    BY DEF Writes_
  <2>2. \A t \in Server \ tainted : SnapFrom(t)'
    BY WriteSnapshots
  <2> QED BY <2>1, <2>2 DEF Snapshots
<1>3. Asked'
  <2>1. SUFFICES ASSUME NEW t \in Server PROVE AskOf(t)'
    BY DEF Asked
  <2>2. AskOf(t) /\ FromPeer(t)' = FromPeer(t)
    BY ServerFacts DEF FromPeer
  <2>3. server'[t].asking = server[t].asking /\ (Up(t) => Up(t)')
    <3>1. t # s => server'[t] = server[t]
      BY ServerFacts, OneRecord DEF Writes_
    <3>2. server'[s] = r
      BY ServerFacts, OneRecord DEF Writes_
    <3> QED BY <3>1, <3>2 DEF Writes_, Up
  <2>4. AskSubs(t)'
    BY WriteAskSubs
  <2> QED BY <2>2, <2>3, <2>4 DEF AskOf
<1> QED BY <1>1, <1>2, <1>3 DEF ServerInv, Types

\* The same with a snapshot for one who asked.
LEMMA WriteReplyInv ==
    ASSUME ServerInv, NEW s \in Server, Active(s) \/ MayTakeOver(s),
           NEW msgs \in Seq(Published), NEW r \in ServerRecord, Writes_(s, msgs, r),
           NEW x \in Agent \cup {Peer(s)}, Replies(s, x), r.kvmap # Null,
           snap' = [snap EXCEPT ![<<x, s>>] = @ \o Snapshot(r)]
    PROVE  ServerInv'
<1> PICK q \in Server : q = Peer(s)
  BY ServerFacts
<1>0. /\ Peer(q) = s /\ FromPeer(q) = <<q, s>> /\ FromPeer(s) = <<s, q>> /\ s # q
      /\ \A t \in Server : t = s \/ t = q
      /\ FromPeer(q) \in Pair /\ FromPeer(s) \in Pair
      /\ NetTypeOK /\ ServerTypeOK
      /\ ask \in [Pair -> Nat] /\ snap \in [Pair -> Seq(Reply)]
  BY ServerFacts DEF FromPeer, NetTypeOK, Reply
<1>1. /\ Runs(s) /\ ~ NoTable(s) /\ ask[<<x, s>>] > 0
      /\ ask' = [ask EXCEPT ![<<x, s>>] = @ - 1]
      /\ UNCHANGED <<subs, pubs, updates, tainted, crashes>>
  BY DEF Replies
<1>2. ServerTypeOK' /\ Numbers' /\ Roles' /\ Copies' /\ Streams'
  BY <1>1, WriteTypes, WriteCopies, WriteStreams
<1>3. /\ server'[s] = r /\ server'[q] = server[q] /\ r.state = "ACTIVE"
      /\ Active(s)' /\ ~ NoTable(s)'
  BY <1>0, OneRecord DEF Writes_, Active, NoTable
<1>4. <<x, s>> \in Pair
  BY <1>0, PairOfAgent
<1>5. NetTypeOK'
  <2>1. ask' \in [Pair -> Nat]
    <3>1. ask[<<x, s>>] \in Nat
      BY <1>0, <1>4
    <3>2. ask[<<x, s>>] - 1 \in Nat
      BY <1>1, <3>1
    <3> QED BY <1>0, <1>1, <3>2
  <2>2. Snapshot(r) \in Seq(Reply)
    <3>1. r.kvmap \in Table /\ r.sequence \in Nat /\ Tidy(r.kvmap)
      BY <1>1 DEF Writes_, ServerRecord
    <3> QED BY <3>1, SnapshotIs
  <2>3. snap' \in [Pair -> Seq(Reply)]
    <3>1. snap[<<x, s>>] \in Seq(Reply)
      BY <1>0, <1>4
    <3>2. snap[<<x, s>>] \o Snapshot(r) \in Seq(Reply)
      BY <2>2, <3>1, ConcatProperties
    <3> QED BY <1>0, <3>2
  <2> QED BY <1>0, <1>1, <2>1, <2>3 DEF NetTypeOK, Writes_, Reply
<1>6. x # q => x \notin Server
  BY PairOfAgent
<1>7. /\ ask'[FromPeer(s)] = ask[FromPeer(s)] /\ snap'[FromPeer(s)] = snap[FromPeer(s)]
      /\ x # q => ask'[FromPeer(q)] = ask[FromPeer(q)] /\ snap'[FromPeer(q)] = snap[FromPeer(q)]
  BY <1>0, <1>1, <1>6
<1>8. Snapshots'
  <2>1. s \notin tainted => SnapFrom(s)'
    BY <1>1, <1>7, WriteSnapshots
  <2>2. q \notin tainted /\ x # q => SnapFrom(q)'
    BY <1>1, <1>7, WriteSnapshots
  <2>3. q \notin tainted /\ x = q => SnapFrom(q)'
    <3> HAVE q \notin tainted /\ x = q
    <3>0. AskOf(q)
      BY ServerFacts
    <3>1. /\ ask[FromPeer(q)] > 0 /\ (s \notin tainted => FromPeer(q) \in subs)
          /\ ask'[FromPeer(q)] = ask[FromPeer(q)] - 1
          /\ snap'[FromPeer(q)] = snap[FromPeer(q)] \o Snapshot(server'[s])
      BY <1>0, <1>1, <1>3, <3>0 DEF AskOf, AskSubs
    <3>2. CopyOf(s)' /\ StreamOf(q)'
      BY <1>2 DEF Copies, Streams
    <3> QED BY <1>1, <1>2, <1>3, <3>1, <3>2, ReplySnapshot
  <2> QED BY <1>0, <1>1, <2>1, <2>2, <2>3 DEF Snapshots
<1>9. Asked'
  <2>1. AskOf(s) /\ AskOf(q) /\ FromPeer(s)' = FromPeer(s) /\ FromPeer(q)' = FromPeer(q)
    BY ServerFacts DEF FromPeer
  <2>0. AskSubs(s)' /\ AskSubs(q)'
    BY <1>1, WriteAskSubs
  <2>2. AskOf(s)'
    <3>1. ~ (ask[FromPeer(s)] > 0)
      BY <1>1, <2>1 DEF AskOf, Runs
    <3>2. Up(s)'
      BY <1>3 DEF Up
    <3> QED BY <1>7, <2>0, <2>1, <3>1, <3>2 DEF AskOf
  <2>3. AskOf(q)'
    <3>1. CASE x # q
      BY <1>3, <1>7, <2>0, <2>1, <3>1 DEF AskOf, Up
    <3>2. CASE x = q
      <4>1. ask[FromPeer(q)] = 1 /\ server[q].asking
        BY <1>0, <1>1, <2>1, <3>2 DEF AskOf
      <4>2. ask'[FromPeer(q)] = 0
        BY <1>0, <1>1, <3>2, <4>1
      <4>3. Up(q)'
        <5>1. Up(q)
          BY <4>1, ServerFacts DEF RolesOf, Passive, Up
        <5> QED BY <1>3, <5>1 DEF Up
      <4> QED BY <2>0, <2>1, <4>2, <4>3 DEF AskOf
    <3> QED BY <3>1, <3>2
  <2> QED BY <1>0, <2>2, <2>3 DEF Asked
<1> QED BY <1>2, <1>5, <1>8, <1>9 DEF ServerInv, Types

\* An active server that replies writes nothing.
LEMMA NothingWritten ==
    ASSUME ServerInv, NEW s \in Server, Active(s), ~ NoTable(s),
           UNCHANGED <<server, out, log, subs, pubs, tainted, crashes>>
    PROVE  Writes_(s, <<>>, server[s])
<1>1. /\ NetTypeOK /\ log \in Seq(Published) /\ server[s] \in ServerRecord
      /\ server[s].kvmap \in Table /\ Tidy(server[s].kvmap)
      /\ server \in [Server -> ServerRecord]
      /\ server[s].sequence \in Nat
      /\ Holder(s) => server[s].sequence = Len(log)
  BY ServerFacts, ServerRecords DEF CopyOf, Holder
<1>a. ASSUME NEW msgs \in Seq(Published)
      PROVE  \A p \in Pair : Publish(s, msgs, Wanted)[p] =
               IF p[2] = s /\ p \in subs /\ p \in Wanted THEN out[p] \o Wired(msgs) ELSE out[p]
  BY <1>1, PublishIs
<1>b. <<>> \in Seq(Published)
  OBVIOUS
<1> PICK none \in Seq(Published) : none = <<>>
  BY <1>b
<1>2. none \in Seq(Update) /\ Len(none) = 0
  BY PublishedIsUpdate
<1>3. Wired(none) = <<>>
  <2>1. Wired(none) \in Seq(Update) /\ Len(Wired(none)) = 0
    BY <1>2, WiredType
  <2> QED BY <2>1, EmptySeq
<1>4. Names(Stored(server[s].kvmap, none)) = Names(server[s].kvmap)
  <2>1. ASSUME NEW k \in Key PROVE Stored(server[s].kvmap, none)[k] = server[s].kvmap[k]
    BY DEF Stored
  <2> QED BY <2>1 DEF Names
<1>5. log' = IF Holder(s) THEN SubSeq(log, 1, server[s].sequence) \o none ELSE log
  <2>1. SubSeq(log, 1, Len(log)) \o none = log
    BY <1>1
  <2> QED BY <1>1, <2>1
<1>6. /\ out' \in [Pair -> Seq(Published)]
      /\ \A p \in Pair : out'[p] = Publish(s, none, Wanted)[p]
  <2>1. \A p \in Pair : Publish(s, none, Wanted)[p] =
           IF p[2] = s /\ p \in subs /\ p \in Wanted THEN out[p] \o Wired(none) ELSE out[p]
    BY <1>a
  <2>2. \A p \in Pair : out[p] \in Seq(Published) /\ out[p] \o <<>> = out[p]
    BY <1>1 DEF NetTypeOK
  <2> QED BY <1>1, <1>3, <2>1, <2>2 DEF NetTypeOK
<1>7. server' = [server EXCEPT ![s] = server[s]]
  BY <1>1
<1>8. \A i \in 1 .. Len(none) : none[i].seq = server[s].sequence + i
  BY <1>2
<1>9. server[s].sequence = server[s].sequence + Len(none)
  BY <1>1, <1>2
<1>10. Writes_(s, none, server[s])
  BY <1>1, <1>4, <1>5, <1>6, <1>7, <1>8, <1>9 DEF Writes_, Active
<1> QED BY <1>10

\* The bound on crashes is kept.
LEMMA CrashesKept ==
    ASSUME ServerInv, UNCHANGED crashes
    PROVE  crashes' \in 0 .. MaxCrashes
BY DEF ServerInv, Types, ServerTypeOK

\* A crash, and an update of a client without a table, end the process.
LEMMA CrashDies ==
    ASSUME NEW s \in Server, Crash(s)
    PROVE  Dies(s)
<1>1. <<>> \in Seq(Published)
  OBVIOUS
<1> QED BY <1>1 DEF Crash, Dies

LEMMA CollectorDies ==
    ASSUME ServerInv, NEW s \in Server, NEW a \in Agent, Collector(s, a),
           Active(s), NoTable(s)
    PROVE  Dies(s)
<1>0. NetTypeOK /\ server[s].sequence \in Nat /\ <<a, s>> \in Agent \X Server
  BY ServerFacts
<1> PICK m : m = Head(updates[<<a, s>>])
  OBVIOUS
<1>1. m \in Update /\ Die(s, <<Numbered(m, server[s].sequence + 1)>>)
  BY <1>0 DEF Collector, NetTypeOK
<1> PICK numbered : numbered = Numbered(m, server[s].sequence + 1)
  OBVIOUS
<1>2. numbered \in Published
  <2>1. server[s].sequence + 1 \in Nat \ {0}
    BY <1>0
  <2> QED BY <1>1, <2>1, NumberedType
<1>3. <<numbered>> \in Seq(Published)
  BY <1>2
<1> QED BY <1>1, <1>3 DEF Dies, Active

\* Every outcome of a state from the peer keeps the invariant.
LEMMA RecvStateInv ==
    ASSUME ServerInv, NEW s \in Server, RecvState(s)
    PROVE  ServerInv'
<1>1. ServerTypeOK /\ NetTypeOK
  BY ServerFacts
<1>2. CASE TurnsPassive(s)
  BY <1>2, TurnsPassiveInv
<1>3. CASE Dies(s) /\ UNCHANGED crashes
  BY <1>3, DieInv, CrashesKept
<1>4. CASE /\ MayTakeOver(s) /\ (NoTable(s) => server[s].pending = <<>>)
           /\ server' = [server EXCEPT ![s] = NewActive(s)]
           /\ TakesOver(s)
           /\ UNCHANGED <<subs, pubs, ask, snap, updates, tainted, crashes>>
  <2> PICK msgs : msgs = Renumbered(server[s].pending, server[s].sequence)
    OBVIOUS
  <2> PICK r : r = NewActive(s)
    OBVIOUS
  <2>1. msgs \in Seq(Published) /\ r \in ServerRecord /\ Writes_(s, msgs, r)
    BY <1>4, TakeOverWrites
  <2>2. NetTypeOK'
    BY <1>1, <1>4, <2>1 DEF NetTypeOK, Writes_
  <2>3. Runs(s) /\ ask' = ask /\ snap' = snap
    BY <1>4 DEF MayTakeOver
  <2> QED BY <1>4, <2>1, <2>2, <2>3, WriteInv
<1> QED BY <1>1, <1>2, <1>3, <1>4, RecvCases

\* Every outcome of a request keeps the invariant.
LEMMA VoterInv ==
    ASSUME ServerInv, NEW s \in Server, NEW x \in Agent \cup {Peer(s)}, Voter(s, x)
    PROVE  ServerInv'
<1>1. ServerTypeOK /\ NetTypeOK
  BY ServerFacts
<1>2. CASE Refuses(s, x)
  BY <1>2, RefusesInv
<1>3. CASE Dies(s) /\ UNCHANGED crashes
  BY <1>3, DieInv, CrashesKept
<1>4. CASE /\ Replies(s, x) /\ Active(s)
           /\ snap' = [snap EXCEPT ![<<x, s>>] = @ \o Snapshot(server[s])]
           /\ UNCHANGED <<server, out, log>>
  <2> PICK msgs : msgs = <<>>
    OBVIOUS
  <2> PICK r : r = server[s]
    OBVIOUS
  <2>1. ~ NoTable(s) /\ UNCHANGED <<subs, pubs, tainted, crashes>>
    BY <1>4 DEF Replies
  <2>2. msgs \in Seq(Published) /\ r \in ServerRecord /\ r.kvmap # Null
    BY <2>1, ServerFacts DEF NoTable
  <2>3. Writes_(s, msgs, r)
    BY <1>4, <2>1, NothingWritten
  <2>4. snap' = [snap EXCEPT ![<<x, s>>] = @ \o Snapshot(r)]
    BY <1>4
  <2> QED BY <1>4, <2>2, <2>3, <2>4, WriteReplyInv
<1>5. CASE /\ Replies(s, x) /\ MayTakeOver(s)
           /\ snap' = [snap EXCEPT ![<<x, s>>] = @ \o Snapshot(NewActive(s))]
           /\ server' = [server EXCEPT ![s] = NewActive(s)]
           /\ TakesOver(s)
  <2> PICK msgs : msgs = Renumbered(server[s].pending, server[s].sequence)
    OBVIOUS
  <2> PICK r : r = NewActive(s)
    OBVIOUS
  <2>1. ~ NoTable(s) /\ UNCHANGED <<subs, pubs, tainted, crashes>>
    BY <1>5 DEF Replies
  <2>2. msgs \in Seq(Published) /\ r \in ServerRecord /\ Writes_(s, msgs, r)
    BY <1>5, <2>1, TakeOverWrites
  <2>3. r.kvmap # Null
    BY <2>1, <2>2, TableIsNotNull DEF Writes_
  <2>4. snap' = [snap EXCEPT ![<<x, s>>] = @ \o Snapshot(r)]
    BY <1>5
  <2> QED BY <1>5, <2>2, <2>3, <2>4, WriteReplyInv
<1> QED BY <1>1, <1>2, <1>3, <1>4, <1>5, VoterCases

\* A passive server that flushes has no peer that would read what it says.
LEMMA PassiveFlush ==
    ASSUME ServerInv, NEW s \in Server, Passive(s), ~ NoTable(s), Runs(s),
           NEW msgs \in Seq(Published), NEW r \in ServerRecord,
           r.state = server[s].state, r.asking = server[s].asking,
           r.kvmap \in Table, Tidy(r.kvmap),
           server' = [server EXCEPT ![s] = r], out' = Publish(s, msgs, Wanted),
           log' = log, tainted' = tainted \cup {s},
           UNCHANGED <<subs, pubs, ask, snap, updates, crashes>>
    PROVE  ServerInv'
<1> PICK q \in Server : q = Peer(s)
  BY ServerFacts
<1>0. /\ Peer(q) = s /\ FromPeer(q) = <<q, s>> /\ FromPeer(s) = <<s, q>> /\ s # q
      /\ \A t \in Server : t = s \/ t = q
      /\ FromPeer(q) \in Pair /\ FromPeer(s) \in Pair
      /\ NetTypeOK /\ ServerTypeOK
      /\ RolesOf(s) /\ RolesOf(q) /\ AskOf(q) /\ AskOf(s) /\ StreamOf(q) /\ CopyOf(q)
      /\ q \notin tainted => SnapFrom(q)
  BY ServerFacts DEF FromPeer
<1>1. /\ server' \in [Server -> ServerRecord] /\ server'[s] = r /\ server'[q] = server[q]
  BY <1>0, OneRecord
<1>2. /\ out' \in [Pair -> Seq(Published)]
      /\ FromPeer(q) \notin subs => out'[FromPeer(q)] = out[FromPeer(q)]
  <2>1. /\ Publish(s, msgs, Wanted) \in [Pair -> Seq(Published)]
        /\ \A p \in Pair : Publish(s, msgs, Wanted)[p] =
             IF p[2] = s /\ p \in subs /\ p \in Wanted THEN out[p] \o Wired(msgs) ELSE out[p]
    BY <1>0, PublishIs
  <2> QED BY <1>0, <2>1
<1>3. NetTypeOK' /\ ServerTypeOK' /\ Numbers'
  <2>1. NetTypeOK'
    BY <1>0, <1>2 DEF NetTypeOK
  <2>2. ServerTypeOK'
    BY <1>0, <1>1 DEF ServerTypeOK, ServerRecord
  <2>3. Numbers'
    BY DEF ServerInv, Numbers
  <2> QED BY <2>1, <2>2, <2>3
<1>4. /\ Passive(s)' /\ ~ Active(s)' /\ ~ Active(s) /\ ~ NoTable(s)' /\ Up(s)' /\ ~ Joining(s)'
      /\ ~ Passive(q) /\ ~ Passive(q)' /\ server'[s].asking = FALSE
      /\ r.kvmap # Null
  <2>1. server[s].asking = FALSE
    BY <1>0, ServerRecords DEF Runs
  <2> QED BY <1>0, <1>1, <2>1, TableIsNotNull DEF Passive, Active, NoTable, Up, Joining, RolesOf
<1>5. /\ Active(q)' <=> Active(q)
      /\ NoTable(q)' <=> NoTable(q)
      /\ Up(q)' <=> Up(q)
      /\ Joining(q)' <=> Joining(q)
  BY <1>1, KeptServer
<1>6. RolesOf(s)'
  BY <1>0, <1>1, <1>4 DEF RolesOf, Passive
<1>7. RolesOf(q)'
  BY <1>0, <1>1, <1>4, <1>5 DEF RolesOf
<1>8. CopyOf(s)' /\ CopyOf(q)'
  <2>1. CopyOf(s)'
    BY <1>1 DEF CopyOf
  <2> QED BY <1>1, <2>1, KeptCopy
<1>9. AskOf(s)' /\ AskOf(q)'
  <2>1. AskOf(s)'
    BY <1>0, <1>1, <1>4 DEF AskOf, AskSubs, FromPeer
  <2>2. AskOf(q)'
    <3>1. AskSubs(q)'
      BY <1>0, <1>1, <1>4, AskSubsKept DEF AskOf
    <3> QED BY <1>0, <1>1, <1>5, <3>1 DEF AskOf, FromPeer
  <2> QED BY <2>1, <2>2
<1>10. StreamOf(s)'
  BY <1>4 DEF StreamOf
<1>11. StreamOf(q)'
  <2>1. ~ Up(q) => out'[FromPeer(q)] = <<>>
    <3>1. FromPeer(q) \in subs => Up(q)
      BY <1>0 DEF ServerInv, Roles
    <3> QED BY <1>0, <1>2, <3>1 DEF StreamOf
  <2>2. FromPeer(q)' = FromPeer(q) /\ s \in tainted'
    BY DEF FromPeer
  <2> QED BY <1>0, <1>4, <1>5, <2>1, <2>2 DEF StreamOf
<1>12. q \notin tainted' => SnapFrom(q)'
  <2>1. q \notin tainted => snap[FromPeer(q)] = <<>>
    BY <1>0, <1>4 DEF SnapFrom
  <2>2. FromPeer(q)' = FromPeer(q)
    BY DEF FromPeer
  <2> QED BY <2>1, <2>2 DEF SnapFrom
<1>13. \A p \in subs' : (Up(p[2]) /\ (p[1] \in Server => Up(p[1])))'
  BY <1>0, <1>4, <1>5, LinksUp
<1> QED BY <1>3, <1>6, <1>7, <1>8, <1>9, <1>10, <1>11, <1>12, <1>13, PartsOfInv

\* A flush keeps the invariant, active or passive.
LEMMA FlushInv ==
    ASSUME ServerInv, NEW s \in Server, Flush(s)
    PROVE  ServerInv'
<1>1. PICK msgs \in Seq(Published), r \in ServerRecord :
             /\ Runs(s) /\ ~ NoTable(s)
             /\ Len(msgs) > 0
             /\ \A i \in 1 .. Len(msgs) : /\ msgs[i].seq = server[s].sequence + i
                                          /\ ~ msgs[i].body
                                          /\ \E k \in Key : server[s].kvmap[k] # NoMsg
                                                 /\ msgs[i].uuid = server[s].kvmap[k].uuid
                                                 /\ msgs[i].key = k
             /\ r.state = server[s].state /\ r.asking = server[s].asking
             /\ r.pending = server[s].pending
             /\ r.sequence = server[s].sequence + Len(msgs)
             /\ r.kvmap = Stored(server[s].kvmap, msgs)
             /\ r.kvmap \in Table /\ Tidy(r.kvmap)
             /\ server' = [server EXCEPT ![s] = r]
             /\ out' = Publish(s, msgs, Wanted)
             /\ log' = IF Active(s) /\ s \notin tainted THEN log \o msgs ELSE log
             /\ tainted' = IF Active(s) THEN tainted ELSE tainted \cup {s}
             /\ UNCHANGED <<subs, pubs, ask, snap, updates, crashes>>
  BY FlushIs
<1>2. CASE Active(s)
  <2>1. Writes_(s, msgs, r)
    BY <1>1, <1>2, FlushWrites
  <2>2. NetTypeOK'
    <3>1. NetTypeOK
      BY ServerFacts
    <3> QED BY <1>1, <2>1, <3>1 DEF NetTypeOK, Writes_
  <2> QED BY <1>1, <1>2, <2>1, <2>2, WriteInv
<1>3. CASE ~ Active(s)
  <2>1. Passive(s)
    <3>1. server[s].state \in State \cup {"DOWN"} /\ RolesOf(s)
      BY ServerFacts DEF ServerRecord
    <3>2. server[s].state \notin {"ACTIVE", "BACKUP", "DOWN"}
      BY <1>1, <1>3, <3>1 DEF Active, RolesOf
    <3>3. server[s].state # "PRIMARY"
      <4>1. \A k \in Key : EmptyMap[k] = NoMsg
        BY DEF EmptyMap
      <4>2. PICK k \in Key : server[s].kvmap[k] # NoMsg
        <5>1. 1 \in 1 .. Len(msgs)
          BY <1>1
        <5> QED BY <1>1, <5>1
      <4> QED BY <3>1, <4>1, <4>2 DEF RolesOf
    <3> QED BY <3>1, <3>2, <3>3 DEF Passive, State
  <2> QED BY <1>1, <1>3, <2>1, PassiveFlush
<1> QED BY <1>2, <1>3

\* An update of a client keeps the invariant.
LEMMA CollectorInv ==
    ASSUME ServerInv, NEW s \in Server, NEW a \in Agent, Collector(s, a)
    PROVE  ServerInv'
<1>0. NetTypeOK /\ ServerTypeOK /\ <<a, s>> \in Agent \X Server
  BY ServerFacts
<1> PICK queue : queue = updates[<<a, s>>]
  OBVIOUS
<1>1. queue \in Seq(Update) /\ queue # <<>> /\ Runs(s) /\ UNCHANGED crashes
  BY <1>0 DEF Collector, NetTypeOK
<1> PICK m \in Update : m = Head(queue)
  BY <1>1
<1>2. Tail(queue) \in Seq(Update)
  BY <1>1
<1>3. CASE Active(s) /\ NoTable(s)
  <2>1. Dies(s)
    BY <1>3, CollectorDies
  <2> QED BY <1>1, <2>1, DieInv, CrashesKept
<1>4. ASSUME updates' = [updates EXCEPT ![<<a, s>>] = Tail(@)]
      PROVE  updates' \in [Agent \X Server -> Seq(Update)]
  BY <1>0, <1>2, <1>4 DEF NetTypeOK
<1>5. CASE Active(s) /\ ~ NoTable(s)
  <2>1. /\ updates' = [updates EXCEPT ![<<a, s>>] = Tail(@)]
        /\ CollectActive(s, m)
        /\ UNCHANGED <<subs, pubs, ask, snap>>
    BY <1>5 DEF Collector
  <2>2. PICK n \in Nat \ {0}, r \in ServerRecord :
             /\ n = server[s].sequence + 1
             /\ r.pending = server[s].pending
             /\ Numbered(m, n) \in Published /\ <<Numbered(m, n)>> \in Seq(Published)
             /\ Writes_(s, <<Numbered(m, n)>>, r)
    BY <1>1, <1>5, <2>1, CollectWrites
  <2> PICK msgs : msgs = <<Numbered(m, n)>>
    OBVIOUS
  <2>3. msgs \in Seq(Published) /\ Writes_(s, msgs, r)
    BY <2>2
  <2>4. NetTypeOK'
    BY <1>0, <1>4, <2>1, <2>3 DEF NetTypeOK, Writes_
  <2> QED BY <1>1, <1>5, <2>1, <2>3, <2>4, WriteInv
<1>6. CASE ~ Active(s)
  <2>1. /\ updates' = [updates EXCEPT ![<<a, s>>] = Tail(@)]
        /\ server' = [server EXCEPT ![s].pending = Pended(s, m)]
        /\ UNCHANGED <<subs, pubs, ask, snap, out, log, tainted>>
    BY <1>6 DEF Collector
  <2>2. Pended(s, m) \in Seq(Update)
    BY <1>0, PendedIs
  <2>3. NetTypeOK'
    BY <1>0, <1>4, <2>1 DEF NetTypeOK
  <2> QED BY <1>1, <2>1, <2>2, <2>3, OnlyPending
<1> QED BY <1>3, <1>5, <1>6

\* What a passive server that asks gets of an active peer: a table that is a
\* prefix of the log, and an update stream that begins within it.
LEMMA LoadedIs ==
    ASSUME ServerInv, NEW s \in Server, SnapshotLoaded(s)
    PROVE  \E reply \in Seq(Reply), end \in Nat \ {0} :
             /\ reply = snap[FromPeer(s)] /\ end = SelectInSeq(reply, IsEnd)
             /\ reply[end].kthxbai \in Nat
             /\ Stored(EmptyMap, SubSeq(reply, 1, end - 1)) \in Table
             /\ Tidy(Stored(EmptyMap, SubSeq(reply, 1, end - 1)))
             /\ s \notin tainted /\ Peer(s) \notin tainted =>
                  /\ Active(Peer(s)) /\ Holder(Peer(s)) /\ FromPeer(s) \in subs
                  /\ reply[end].kthxbai \in 0 .. Len(log)
                  /\ TableIs(Stored(EmptyMap, SubSeq(reply, 1, end - 1)), reply[end].kthxbai)
                  /\ \E j \in 0 .. reply[end].kthxbai : Stretch(s, j, Len(log))
<1> PICK reply \in Seq(Reply) : reply = snap[FromPeer(s)]
  BY ServerFacts
<1> PICK end : end = SelectInSeq(reply, IsEnd)
  OBVIOUS
<1> PICK len \in Nat : len = Len(reply)
  OBVIOUS
<1>1. end > 0
  BY DEF SnapshotLoaded, FromPeer
<1>2. /\ end \in 0 .. len
      /\ end > 0 => /\ IsEnd(reply[end]) /\ reply[end].kthxbai \in Nat
                    /\ SubSeq(reply, 1, end - 1) \in Seq(Update)
      /\ \A n \in 1 .. len :
                IsEnd(reply[n]) /\ (\A i \in 1 .. n - 1 : ~ IsEnd(reply[i])) => end = n
  BY FirstEnd
<1>3. /\ Stored(EmptyMap, SubSeq(reply, 1, end - 1)) \in Table
      /\ Tidy(Stored(EmptyMap, SubSeq(reply, 1, end - 1)))
  BY <1>1, <1>2, EmptyMapType, StoredType, TidyEmpty, TidyStored
<1>4. ASSUME s \notin tainted, Peer(s) \notin tainted
      PROVE  /\ Active(Peer(s)) /\ Holder(Peer(s)) /\ FromPeer(s) \in subs
             /\ reply[end].kthxbai \in 0 .. Len(log)
             /\ TableIs(Stored(EmptyMap, SubSeq(reply, 1, end - 1)), reply[end].kthxbai)
             /\ \E j \in 0 .. reply[end].kthxbai : Stretch(s, j, Len(log))
  <2>1. SnapFrom(s) /\ len \in 1 .. len /\ reply # <<>>
    <3>1. SnapFrom(s)
      BY <1>4, ServerFacts
    <3> QED BY <1>1, <1>2, <3>1
  <2>2. /\ Active(Peer(s)) /\ ~ NoTable(Peer(s)) /\ FromPeer(s) \in subs
        /\ IsEnd(reply[len])
        /\ \A i \in 1 .. len - 1 : ~ IsEnd(reply[i])
        /\ reply[len].kthxbai \in 0 .. Len(log)
        /\ TableIs(Stored(EmptyMap, SubSeq(reply, 1, len - 1)), reply[len].kthxbai)
        /\ \E j \in 0 .. reply[len].kthxbai : Stretch(s, j, Len(log))
    BY <1>4, <2>1 DEF SnapFrom
  <2>3. end = len
    BY <1>2, <2>1, <2>2
  <2> QED BY <1>4, <2>2, <2>3 DEF Holder
<1> QED BY <1>1, <1>2, <1>3, <1>4

\* A snapshot that is complete keeps the invariant.
LEMMA SnapshotLoadedInv ==
    ASSUME ServerInv, NEW s \in Server, SnapshotLoaded(s)
    PROVE  ServerInv'
<1> PICK q \in Server : q = Peer(s)
  BY ServerFacts
<1>0. /\ Peer(q) = s /\ FromPeer(q) = <<q, s>> /\ FromPeer(s) = <<s, q>> /\ s # q
      /\ FromPeer(q) # FromPeer(s)
      /\ \A t \in Server : t = s \/ t = q
      /\ FromPeer(q) \in Pair /\ FromPeer(s) \in Pair
      /\ NetTypeOK /\ ServerTypeOK /\ server \in [Server -> ServerRecord]
      /\ server[s] \in ServerRecord
      /\ RolesOf(s) /\ RolesOf(q) /\ AskOf(q) /\ AskOf(s) /\ StreamOf(q) /\ CopyOf(q)
      /\ StreamOf(s)
      /\ q \notin tainted => SnapFrom(q)
      /\ ask \in [Pair -> Nat] /\ snap \in [Pair -> Seq(Reply)]
      /\ Len(log) \in Nat
  BY ServerFacts, ServerRecords DEF FromPeer, NetTypeOK, Reply
<1>1. PICK reply \in Seq(Reply), end \in Nat \ {0} :
             /\ reply = snap[FromPeer(s)] /\ end = SelectInSeq(reply, IsEnd)
             /\ reply[end].kthxbai \in Nat
             /\ Stored(EmptyMap, SubSeq(reply, 1, end - 1)) \in Table
             /\ Tidy(Stored(EmptyMap, SubSeq(reply, 1, end - 1)))
             /\ s \notin tainted /\ Peer(s) \notin tainted =>
                  /\ Active(Peer(s)) /\ Holder(Peer(s)) /\ FromPeer(s) \in subs
                  /\ reply[end].kthxbai \in 0 .. Len(log)
                  /\ TableIs(Stored(EmptyMap, SubSeq(reply, 1, end - 1)), reply[end].kthxbai)
                  /\ \E j \in 0 .. reply[end].kthxbai : Stretch(s, j, Len(log))
  BY LoadedIs
<1> PICK map : map = Stored(EmptyMap, SubSeq(reply, 1, end - 1))
  OBVIOUS
<1> PICK n \in Nat : n = reply[end].kthxbai
  BY <1>1
<1>2. /\ server[s].asking /\ ask' = [ask EXCEPT ![FromPeer(s)] = 0]
      /\ snap' = [snap EXCEPT ![FromPeer(s)] = <<>>]
      /\ tainted' = IF q \in tainted THEN tainted \cup {s} ELSE tainted
      /\ UNCHANGED <<subs, pubs, out, updates, crashes, log>>
      /\ server' = [server EXCEPT ![s].asking = FALSE, ![s].kvmap = map, ![s].sequence = n]
  BY <1>0, <1>1 DEF SnapshotLoaded
<1>3. map \in Table /\ Tidy(map) /\ map # Null
  BY <1>1, TableIsNotNull
<1> PICK r : r = [server[s] EXCEPT !.asking = FALSE, !.kvmap = map, !.sequence = n]
  OBVIOUS
<1>4. r \in ServerRecord /\ r.asking = FALSE /\ r.kvmap = map /\ r.sequence = n
      /\ r.state = server[s].state
  BY <1>0, <1>3 DEF ServerRecord
<1>5. server' \in [Server -> ServerRecord] /\ server'[s] = r /\ server'[q] = server[q]
  <2>1. server' = [server EXCEPT ![s] = r]
    BY <1>0, <1>2 DEF ServerRecord
  <2> QED BY <1>0, <1>4, <2>1, OneRecord
<1>6. /\ ask'[FromPeer(s)] = 0 /\ ask'[FromPeer(q)] = ask[FromPeer(q)]
      /\ snap'[FromPeer(s)] = <<>> /\ snap'[FromPeer(q)] = snap[FromPeer(q)]
      /\ ask' \in [Pair -> Nat] /\ snap' \in [Pair -> Seq(Reply)]
  <2>1. <<>> \in Seq(Reply)
    OBVIOUS
  <2> QED BY <1>0, <1>2, <2>1
<1>7. NetTypeOK' /\ ServerTypeOK' /\ Numbers'
  <2>1. NetTypeOK'
    BY <1>0, <1>2, <1>6 DEF NetTypeOK, Reply
  <2>2. ServerTypeOK'
    BY <1>0, <1>2, <1>5 DEF ServerTypeOK, ServerRecord
  <2>3. Numbers'
    BY <1>2 DEF ServerInv, Numbers
  <2> QED BY <2>1, <2>2, <2>3
<1>8. /\ Passive(s) /\ Passive(s)' /\ ~ Active(s)' /\ ~ Active(s) /\ ~ NoTable(s)' /\ Up(s)'
      /\ ~ Joining(s)' /\ ~ Passive(q) /\ ~ Passive(q)'
  BY <1>0, <1>2, <1>3, <1>4, <1>5 DEF Passive, Active, NoTable, Up, Joining, RolesOf
<1>9. /\ Active(q)' <=> Active(q)
      /\ NoTable(q)' <=> NoTable(q)
      /\ Up(q)' <=> Up(q)
      /\ Joining(q)' <=> Joining(q)
      /\ Holder(q)' <=> Holder(q)
  <2>1. q \in tainted' <=> q \in tainted
    BY <1>0, <1>2
  <2> QED BY <1>5, <2>1, KeptServer DEF Holder
<1>10. RolesOf(s)'
  BY <1>0, <1>4, <1>5, <1>8 DEF RolesOf, Passive
<1>11. RolesOf(q)'
  BY <1>0, <1>5, <1>8, <1>9 DEF RolesOf
<1>12. s \notin tainted' => s \notin tainted /\ q \notin tainted /\ tainted' = tainted
  BY <1>2
<1>13. CopyOf(s)' /\ CopyOf(q)'
  <2>1. CopyOf(s)'
    <3>1. ~ NoTable(s)' => Tidy(server[s].kvmap)'
      BY <1>3, <1>4, <1>5
    <3>2. s \notin tainted' => /\ n <= Len(log)
                               /\ Names(map) = Map!TableOf(log, n)
      BY <1>0, <1>1, <1>12 DEF TableIs
    <3> QED BY <1>2, <1>4, <1>5, <1>8, <3>1, <3>2 DEF CopyOf, TableIs
  <2>2. q \notin tainted' => q \notin tainted
    BY <1>2
  <2> QED BY <1>2, <1>5, <2>1, <2>2, KeptCopy
<1>14. AskOf(s)' /\ AskOf(q)'
  <2>1. FromPeer(s)' = FromPeer(s) /\ FromPeer(q)' = FromPeer(q)
    BY DEF FromPeer
  <2>2. AskOf(s)'
    BY <1>4, <1>5, <1>6, <1>8, <2>1 DEF AskOf, AskSubs
  <2>3. AskOf(q)'
    <3>1. AskSubs(q)'
      BY <1>0, <1>2, <1>5, <1>8, AskSubsKept DEF AskOf
    <3> QED BY <1>0, <1>5, <1>6, <1>9, <2>1, <3>1 DEF AskOf
  <2> QED BY <2>2, <2>3
<1>15. StreamOf(s)'
  <2>1. FromPeer(s)' = FromPeer(s) /\ Len(log') = Len(log) /\ subs' = subs
    BY <1>2 DEF FromPeer
  <2>2. s \notin tainted' =>
          /\ Holder(q)' /\ FromPeer(s) \in subs'
          /\ \E k \in 0 .. Len(log') : \E j \in 0 .. k :
                  /\ Stretch(s, j, k)'
                  /\ j <= server'[s].sequence
                  /\ k = Len(log')
    <3> HAVE s \notin tainted'
    <3>0. s \notin tainted /\ Peer(s) \notin tainted
      BY <1>12
    <3>1. Holder(q) /\ FromPeer(s) \in subs /\ n \in 0 .. Len(log)
          /\ \E j \in 0 .. n : Stretch(s, j, Len(log))
      BY <1>1, <3>0
    <3>2. PICK j \in 0 .. n : Stretch(s, j, Len(log))
      BY <3>1
    <3>4. j \in 0 .. Len(log) /\ Len(log) \in 0 .. Len(log) /\ j <= n /\ server'[s].sequence = n
      BY <1>0, <1>4, <1>5, <3>1
    <3>5. Stretch(s, j, Len(log))'
      BY <1>2, <3>2, <2>1 DEF Stretch
    <3>3. \A i, k : Stretch(s, i, k)' <=> out[FromPeer(s)] = Piece(log, i, k)
      BY <1>2, <2>1 DEF Stretch
    <3>6. out[FromPeer(s)] = Piece(log, j, Len(log))
      BY <3>2 DEF Stretch
    <3>7. \E k \in 0 .. Len(log) : \E i \in 0 .. k :
                Stretch(s, i, k)' /\ i <= server'[s].sequence /\ k = Len(log)
      BY <3>3, <3>4, <3>6
    <3> QED BY <1>9, <2>1, <3>1, <3>7
  <2> QED BY <1>0, <1>8, <2>1, <2>2 DEF StreamOf
<1>16. StreamOf(q)'
  <2>1. FromPeer(q)' = FromPeer(q) /\ out' = out
    BY <1>2 DEF FromPeer
  <2>2. server'[s].state = server[s].state
    BY <1>4, <1>5
  <2> QED BY <1>0, <1>5, <1>8, <1>9, <1>12, <2>1, <2>2 DEF StreamOf
<1>17. s \notin tainted' => SnapFrom(s)'
  <2>1. FromPeer(s)' = FromPeer(s)
    BY DEF FromPeer
  <2> QED BY <1>6, <2>1 DEF SnapFrom
<1>18. q \notin tainted' => SnapFrom(q)'
  <2>1. q \notin tainted' => snap[FromPeer(q)] = <<>>
    BY <1>0, <1>2, <1>8 DEF SnapFrom
  <2>2. FromPeer(q)' = FromPeer(q)
    BY DEF FromPeer
  <2> QED BY <1>6, <2>1, <2>2 DEF SnapFrom
<1>19. \A p \in subs' : (Up(p[2]) /\ (p[1] \in Server => Up(p[1])))'
  BY <1>0, <1>2, <1>8, <1>9, LinksUp
<1> QED BY <1>7, <1>10, <1>11, <1>13, <1>14, <1>15, <1>16, <1>17, <1>18, <1>19, PartsOfInv

\* An update that a server reads of its peer, when its table counts, is the one
\* after what it has read; the table has it already, or it comes next.
LEMMA ReadIs ==
    ASSUME ServerInv, NEW s \in Server, s \notin tainted, Passive(s), ~ NoTable(s),
           out[FromPeer(s)] # <<>>
    PROVE  LET m == Head(out[FromPeer(s)])
               n == server[s].sequence IN
           \E k \in 1 .. Len(log) : \E j \in 1 .. k :
             /\ m = OnWire(log[j]) /\ m.seq = j /\ log[j] \in Published
             /\ m.key = log[j].key /\ m.uuid = log[j].uuid /\ m.body = log[j].body
             /\ Tail(out[FromPeer(s)]) = Piece(log, j, k)
             /\ Active(Peer(s)) => k = Len(log)
             /\ j <= n + 1
<1>1. log \in Seq(Published) /\ Len(log) \in Nat /\ server[s].sequence \in Nat /\ StreamOf(s)
  BY ServerFacts
<1>2. PICK k \in 0 .. Len(log) : \E j \in 0 .. k :
           /\ out[FromPeer(s)] = Piece(log, j, k)
           /\ j <= server[s].sequence
           /\ Active(Peer(s)) => k = Len(log)
  BY <1>1 DEF StreamOf, Stretch
<1>3. PICK i \in 0 .. k :
           /\ out[FromPeer(s)] = Piece(log, i, k)
           /\ i <= server[s].sequence
           /\ Active(Peer(s)) => k = Len(log)
  BY <1>2
<1>4. /\ i < k
      /\ Head(Piece(log, i, k)) = OnWire(log[i + 1])
      /\ Tail(Piece(log, i, k)) = Piece(log, i + 1, k)
      /\ log[i + 1] \in Published
  BY <1>1, <1>3, PieceRead
<1> PICK j : j = i + 1
  OBVIOUS
<1>5. k \in 1 .. Len(log) /\ j \in 1 .. k /\ j <= server[s].sequence + 1
  BY <1>1, <1>3, <1>4
<1>6. log[j] \in Published /\ log[j] \in Update /\ log[j].seq = j
  BY <1>1, <1>4, <1>5, PublishedIsUpdate DEF ServerInv, Numbers
<1>7. /\ OnWire(log[j]).key = log[j].key /\ OnWire(log[j]).seq = log[j].seq
      /\ OnWire(log[j]).uuid = log[j].uuid /\ OnWire(log[j]).body = log[j].body
  BY <1>6, OnWireType
<1>8. Head(out[FromPeer(s)]) = OnWire(log[j]) /\ Tail(out[FromPeer(s)]) = Piece(log, j, k)
  BY <1>3, <1>4
<1> QED BY <1>3, <1>5, <1>6, <1>7, <1>8

\* An update of the peer keeps the invariant: it is the next one, or one that
\* the table has.
LEMMA SubscriberInv ==
    ASSUME ServerInv, NEW s \in Server, Subscriber(s)
    PROVE  ServerInv'
<1> PICK q \in Server : q = Peer(s)
  BY ServerFacts
<1>0. /\ Peer(q) = s /\ FromPeer(q) = <<q, s>> /\ FromPeer(s) = <<s, q>> /\ s # q
      /\ FromPeer(q) # FromPeer(s)
      /\ \A t \in Server : t = s \/ t = q
      /\ FromPeer(q) \in Pair /\ FromPeer(s) \in Pair
      /\ NetTypeOK /\ ServerTypeOK /\ server \in [Server -> ServerRecord]
      /\ server[s] \in ServerRecord
      /\ RolesOf(s) /\ RolesOf(q) /\ AskOf(q) /\ AskOf(s) /\ StreamOf(q) /\ CopyOf(q)
      /\ StreamOf(s) /\ CopyOf(s)
      /\ q \notin tainted => SnapFrom(q)
      /\ s \notin tainted => SnapFrom(s)
      /\ out \in [Pair -> Seq(Published)] /\ log \in Seq(Published)
      /\ Len(log) \in Nat
  BY ServerFacts, ServerRecords DEF FromPeer, NetTypeOK
<1> DEFINE queue == out[<<s, Peer(s)>>]
           m     == Head(queue)
           newer == m.seq > server[s].sequence
           list  == Pended(s, Dup(m))
           n     == IF newer THEN m.seq ELSE server[s].sequence
           map   == IF newer THEN Store(server[s].kvmap, m) ELSE server[s].kvmap
<1>1. /\ queue = out[FromPeer(s)] /\ queue \in Seq(Published) /\ m = Head(queue)
      /\ queue # <<>> /\ Passive(s) /\ Runs(s) /\ ~ NoTable(s)
      /\ out' = [out EXCEPT ![FromPeer(s)] = Tail(queue)]
      /\ UNCHANGED <<subs, pubs, ask, snap, updates, crashes, log, tainted>>
  BY <1>0 DEF Subscriber
<1>r. server' = [server EXCEPT ![s].pending = list, ![s].sequence = n, ![s].kvmap = map]
  BY DEF Subscriber
<1>m. /\ list = Pended(s, Dup(m))
      /\ n = IF newer THEN m.seq ELSE server[s].sequence
      /\ map = IF newer THEN Store(server[s].kvmap, m) ELSE server[s].kvmap
  OBVIOUS
<1> HIDE DEF queue, m, list, n, map
<1>p. m \in Published
  BY <1>1
<1>2. /\ out' = [out EXCEPT ![FromPeer(s)] = Tail(queue)]
      /\ UNCHANGED <<subs, pubs, ask, snap, updates, crashes, log, tainted>>
  BY <1>1
<1>3. m \in Update /\ m.seq \in Nat
  BY <1>p, PublishedIsUpdate, UpdateFields
<1>4. list \in Seq(Update) /\ n \in Nat /\ map \in Table /\ Tidy(map) /\ map # Null
  <2>1. list \in Seq(Update)
    BY <1>0, <1>3, <1>m, DupType, PendedIs
  <2>2. n \in Nat
    BY <1>0, <1>3, <1>m DEF ServerRecord
  <2>3. server[s].kvmap \in Table /\ Tidy(server[s].kvmap)
    BY <1>0, <1>1, ServerRecords DEF CopyOf
  <2>4. map \in Table /\ Tidy(map)
    BY <1>3, <1>m, <2>3, StoreType, TidyStore
  <2> QED BY <2>1, <2>2, <2>4, TableIsNotNull
<1> PICK r : r = [server[s] EXCEPT !.pending = list, !.sequence = n, !.kvmap = map]
  OBVIOUS
<1>5. r \in ServerRecord /\ r.asking = server[s].asking /\ r.kvmap = map /\ r.sequence = n
      /\ r.state = server[s].state
  BY <1>0, <1>4 DEF ServerRecord
<1>6. server' \in [Server -> ServerRecord] /\ server'[s] = r /\ server'[q] = server[q]
  <2>1. server' = [server EXCEPT ![s] = r]
    BY <1>0, <1>r DEF ServerRecord
  <2> QED BY <1>0, <1>5, <2>1, OneRecord
<1>7. /\ out' \in [Pair -> Seq(Published)] /\ out'[FromPeer(s)] = Tail(queue)
      /\ out'[FromPeer(q)] = out[FromPeer(q)]
  <2>1. Tail(queue) \in Seq(Published)
    BY <1>1
  <2> QED BY <1>0, <1>2, <2>1
<1>8. NetTypeOK' /\ ServerTypeOK' /\ Numbers'
  <2>1. NetTypeOK'
    BY <1>0, <1>2, <1>7 DEF NetTypeOK
  <2>2. ServerTypeOK'
    BY <1>0, <1>2, <1>6 DEF ServerTypeOK, ServerRecord
  <2>3. Numbers'
    BY <1>2 DEF ServerInv, Numbers
  <2> QED BY <2>1, <2>2, <2>3
<1>9. /\ Passive(s)' /\ ~ Active(s)' /\ ~ Active(s) /\ ~ NoTable(s)' /\ Up(s)'
      /\ ~ Joining(s)' /\ ~ Passive(q) /\ ~ Passive(q)' /\ server'[s].asking = FALSE
  <2>1. server[s].asking = FALSE
    BY <1>0, <1>1 DEF Runs, ServerRecord
  <2>2. server'[s].state = "PASSIVE" /\ server[s].state = "PASSIVE" /\ server'[s].asking = FALSE
    BY <1>1, <1>5, <1>6, <2>1 DEF Passive
  <2>3. server'[s].kvmap # Null
    BY <1>4, <1>5, <1>6
  <2>4. ~ Passive(q)
    BY <1>0, <1>1 DEF RolesOf
  <2>5. ~ Passive(q)'
    BY <1>6, <2>4 DEF Passive
  <2> QED BY <2>2, <2>3, <2>4, <2>5 DEF Passive, Active, NoTable, Up, Joining
<1>10. /\ Active(q)' <=> Active(q)
       /\ NoTable(q)' <=> NoTable(q)
       /\ Up(q)' <=> Up(q)
       /\ Joining(q)' <=> Joining(q)
       /\ Holder(q)' <=> Holder(q)
  BY <1>2, <1>6, KeptServer DEF Holder
<1>11. RolesOf(s)'
  BY <1>0, <1>5, <1>6, <1>9 DEF RolesOf, Passive
<1>12. RolesOf(q)'
  BY <1>0, <1>6, <1>9, <1>10 DEF RolesOf
<1>13. ASSUME s \notin tainted
       PROVE  /\ n <= Len(log) /\ Names(map) = Map!TableOf(log, n)
              /\ \E k \in 0 .. Len(log) : \E j \in 0 .. k :
                   Tail(queue) = Piece(log, j, k) /\ j <= n /\ (Active(q) => k = Len(log))
  <2> PICK old \in Nat : old = server[s].sequence
    BY <1>0 DEF ServerRecord
  <2>1. PICK k \in 1 .. Len(log) : \E j \in 1 .. k :
             /\ m = OnWire(log[j]) /\ m.seq = j /\ log[j] \in Published
             /\ m.key = log[j].key /\ m.uuid = log[j].uuid /\ m.body = log[j].body
             /\ Tail(queue) = Piece(log, j, k)
             /\ Active(q) => k = Len(log)
             /\ j <= old + 1
    BY <1>1, <1>13, ReadIs
  <2>2. PICK j \in 1 .. k :
             /\ m.seq = j
             /\ m.key = log[j].key /\ m.uuid = log[j].uuid /\ m.body = log[j].body
             /\ Tail(queue) = Piece(log, j, k)
             /\ Active(q) => k = Len(log)
             /\ j <= old + 1
    BY <2>1
  <2>3. /\ old <= Len(log) /\ Names(server[s].kvmap) = Map!TableOf(log, old)
        /\ server[s].kvmap \in Table
    BY <1>0, <1>1, <1>13, ServerRecords DEF CopyOf, TableIs
  <2>4. CASE newer
    <3>0. j \in Nat /\ k \in Nat
      BY <1>0
    <3>1. j = old + 1 /\ n = j /\ map = Store(server[s].kvmap, m)
      BY <1>m, <2>2, <2>4, <3>0
    <3> PICK held \in Table : held = server[s].kvmap
      BY <2>3
    <3>a. /\ log[old + 1].key = m.key /\ log[old + 1].uuid = m.uuid
          /\ log[old + 1].body = m.body
      BY <2>2, <3>1
    <3>b. Names(held) = Map!TableOf(log, old)
      BY <2>3
    <3>c. Names(Store(held, m)) = Map!TableOf(log, old + 1)
      BY <1>3, <3>a, <3>b, TableStore
    <3>2. Names(map) = Map!TableOf(log, old + 1)
      BY <3>1, <3>c
    <3>3. j <= Len(log) /\ k \in 0 .. Len(log) /\ j \in 0 .. k
      BY <1>0
    <3> QED BY <2>2, <3>1, <3>2, <3>3
  <2>5. CASE ~ newer
    <3>0. j \in Nat /\ k \in Nat
      BY <1>0
    <3>1. j <= old /\ n = old /\ map = server[s].kvmap
      BY <1>m, <2>2, <2>5, <3>0
    <3>2. k \in 0 .. Len(log) /\ j \in 0 .. k
      BY <1>0
    <3>3. n <= Len(log) /\ Names(map) = Map!TableOf(log, n)
      BY <2>3, <3>1
    <3>4. j <= n /\ (Active(q) => k = Len(log)) /\ Tail(queue) = Piece(log, j, k)
      BY <2>2, <3>1
    <3> QED BY <3>2, <3>3, <3>4
  <2> QED BY <2>4, <2>5
<1>14. CopyOf(s)' /\ CopyOf(q)'
  <2>1. CopyOf(s)'
    <3>1. Tidy(server[s].kvmap)'
      BY <1>4, <1>5, <1>6
    <3>2. s \notin tainted' => /\ n <= Len(log) /\ Names(map) = Map!TableOf(log, n)
      BY <1>2, <1>13
    <3> QED BY <1>2, <1>5, <1>6, <1>9, <3>1, <3>2 DEF CopyOf, TableIs
  <2> QED BY <1>2, <1>6, <2>1, KeptCopy
<1>15. AskOf(s)' /\ AskOf(q)'
  <2>1. FromPeer(s)' = FromPeer(s) /\ FromPeer(q)' = FromPeer(q)
    BY DEF FromPeer
  <2>2. AskOf(s)'
    <3>1. ~ server'[s].asking
      BY <1>0, <1>1, <1>5, <1>6 DEF Runs
    <3> QED BY <1>0, <1>2, <1>5, <1>6, <1>9, <2>1, <3>1 DEF AskOf, AskSubs
  <2>3. AskOf(q)'
    <3>1. AskSubs(q)'
      BY <1>0, <1>2, <1>6, <1>9, AskSubsKept DEF AskOf, Active, Passive
    <3> QED BY <1>0, <1>2, <1>6, <1>10, <2>1, <3>1 DEF AskOf
  <2> QED BY <2>2, <2>3
<1>16. StreamOf(s)'
  <2>1. FromPeer(s)' = FromPeer(s) /\ Len(log') = Len(log) /\ subs' = subs /\ log' = log
    BY <1>2 DEF FromPeer
  <2>2. s \notin tainted' /\ Active(q) => Holder(q) /\ FromPeer(s) \in subs
    BY <1>0, <1>1, <1>2 DEF StreamOf
  <2>3. \A i, k : Stretch(s, i, k)' <=> Tail(queue) = Piece(log, i, k)
    BY <1>7, <2>1 DEF Stretch
  <2>4. s \notin tainted' =>
          \E k \in 0 .. Len(log') : \E j \in 0 .. k :
                  /\ Stretch(s, j, k)'
                  /\ j <= server'[s].sequence
                  /\ Active(q)' => k = Len(log')
    BY <1>2, <1>5, <1>6, <1>10, <1>13, <2>1, <2>3
  <2>5. s \notin tainted' /\ Active(q)' => Holder(q)' /\ FromPeer(s) \in subs'
    BY <1>10, <2>1, <2>2
  <2> QED BY <1>0, <1>9, <2>1, <2>4, <2>5 DEF StreamOf
<1>17. StreamOf(q)'
  <2>1. FromPeer(q)' = FromPeer(q)
    BY DEF FromPeer
  <2>2. server'[s].state = server[s].state
    BY <1>5, <1>6
  <2> QED BY <1>0, <1>2, <1>6, <1>7, <1>9, <1>10, <2>1, <2>2 DEF StreamOf
<1>18. s \notin tainted' => SnapFrom(s)'
  <2>1. FromPeer(s)' = FromPeer(s)
    BY DEF FromPeer
  <2>2. s \notin tainted => snap[FromPeer(s)] = <<>>
    BY <1>0, <1>1 DEF SnapFrom, Runs
  <2> QED BY <1>2, <2>1, <2>2 DEF SnapFrom
<1>19. q \notin tainted' => SnapFrom(q)'
  <2>1. q \notin tainted => snap[FromPeer(q)] = <<>>
    BY <1>0, <1>9 DEF SnapFrom
  <2>2. FromPeer(q)' = FromPeer(q)
    BY DEF FromPeer
  <2> QED BY <1>2, <2>1, <2>2 DEF SnapFrom
<1>20. \A p \in subs' : (Up(p[2]) /\ (p[1] \in Server => Up(p[1])))'
  BY <1>0, <1>2, <1>9, <1>10, LinksUp
<1> QED BY <1>8, <1>11, <1>12, <1>14, <1>15, <1>16, <1>17, <1>18, <1>19, <1>20, PartsOfInv

\* Every step of a server keeps the invariant of the servers.
LEMMA ServerStepInv ==
    ASSUME ServerInv, NEW s \in Server, ServerStep(s)
    PROVE  ServerInv'
<1>1. ASSUME Crash(s) PROVE ServerInv'
  <2>1. crashes' \in 0 .. MaxCrashes
    BY <1>1, CloneAssumption DEF Crash, ServerInv, Types, ServerTypeOK
  <2> QED BY <1>1, <2>1, CrashDies, DieInv
<1> QED BY <1>1, StartInv, RecvStateInv, FlushInv, AskPeerInv, SnapshotLoadedInv, SubscriberInv,
           CollectorInv, VoterInv DEF ServerStep

AgentRecord == [state : {"SYNCING", "ACTIVE"}, cur_server : Server, kvmap : Table,
                sequence : Nat, requests : [Server -> 0 .. 2]]

\* What a client's sockets hold, by type.
LEMMA AgentFacts ==
    ASSUME ServerInv, AgentTypeOK, NEW a \in Agent
    PROVE  /\ agent \in [Agent -> AgentRecord] /\ agent[a] \in AgentRecord
           /\ Cur(a) \in Server /\ Peer(Cur(a)) \in Server
           /\ FromCur(a) \in Pair /\ <<a, Peer(Cur(a))>> \in Pair
           /\ \A q \in Server, s \in Server : FromPeer(q) # <<a, s>> /\ FromPeer(q) \in Pair
           /\ NetTypeOK
           /\ ask \in [Pair -> Nat] /\ snap \in [Pair -> Seq(Reply)]
           /\ out \in [Pair -> Seq(Published)]
           /\ updates \in [Agent \X Server -> Seq(Update)]
<1>1. agent \in [Agent -> AgentRecord] /\ agent[a] \in AgentRecord
  BY DEF AgentTypeOK, AgentRecord
<1>2. Cur(a) \in Server
  BY <1>1 DEF Cur, AgentRecord
<1>3. /\ NetTypeOK
      /\ \A q \in Server : Peer(q) \in Server
      /\ \A q \in Server : FromPeer(q) \in Pair
  <2>1. NetTypeOK
    BY DEF ServerInv, Types
  <2>2. ASSUME NEW q \in Server PROVE Peer(q) \in Server /\ FromPeer(q) \in Pair
    BY ServerFacts
  <2> QED BY <2>1, <2>2
<1>4. FromCur(a) \in Pair /\ <<a, Peer(Cur(a))>> \in Pair /\ a \notin Server
  BY <1>2, <1>3, PairOfAgent DEF FromCur
<1> QED BY <1>1, <1>2, <1>3, <1>4 DEF FromPeer, NetTypeOK, Reply

\* What a step of a client needs for the invariant of the servers: its queues
\* are not those between servers.
LEMMA AgentQueues ==
    ASSUME ServerInv, AgentTypeOK, NetTypeOK', NEW a \in Agent, NEW s \in Server,
           UNCHANGED <<subs, pubs, serverVars>>,
           \A p \in Pair : p # <<a, s>> =>
              ask'[p] = ask[p] /\ snap'[p] = snap[p] /\ out'[p] = out[p]
    PROVE  ServerInv'
<1>1. \A q \in Server : FromPeer(q) # <<a, s>> /\ FromPeer(q) \in Pair
  BY AgentFacts
<1> QED BY <1>1, Undisturbed DEF serverVars

\* A subscription comes up.
LEMMA SubscribeInv ==
    ASSUME ServerInv, AgentTypeOK, NEW x \in Agent \cup Server, NEW s \in Server, Subscribe(x, s)
    PROVE  ServerInv' /\ AgentTypeOK'
<1>1. /\ <<x, s>> \in Pair \ subs /\ Up(s) /\ (x \in Server => Up(x))
      /\ subs' = subs \cup {<<x, s>>}
      /\ UNCHANGED <<pubs, ask, snap, out, updates, serverVars, agentVars>>
  BY DEF Subscribe
<1>2. NetTypeOK'
  <2>1. NetTypeOK
    BY DEF ServerInv, Types
  <2> QED BY <1>1, <2>1 DEF NetTypeOK
<1>3. \A p \in subs' \ subs : Up(p[2]) /\ (p[1] \in Server => Up(p[1]))
  BY <1>1
<1>4. ServerInv'
  <2>1. subs \subseteq subs'
    BY <1>1
  <2>2. UNCHANGED <<server, crashes, log, tainted>>
    BY <1>1 DEF serverVars
  <2>3. \A q \in Server : /\ ask'[FromPeer(q)] = ask[FromPeer(q)]
                          /\ snap'[FromPeer(q)] = snap[FromPeer(q)]
                          /\ out'[FromPeer(q)] = out[FromPeer(q)]
    BY <1>1
  <2> QED BY <1>2, <1>3, <2>1, <2>2, <2>3, Undisturbed
<1> QED BY <1>1, <1>4 DEF AgentTypeOK, agentVars

\* A client makes an update.
LEMMA SetInv ==
    ASSUME ServerInv, AgentTypeOK, NEW a \in Agent, Set(a)
    PROVE  ServerInv' /\ AgentTypeOK'
<1>0. /\ sets \in 0 .. Len(writes) /\ sets < Len(writes) /\ sets' = sets + 1
      /\ writes \in Seq([body : BOOLEAN, ttl : {"zero", "relative"}]) /\ Len(writes) \in Nat
  BY CloneAssumption DEF AgentTypeOK, Set
<1> PICK v \in [body : BOOLEAN, ttl : {"zero", "relative"}] : v = writes[sets + 1]
  <2>1. sets + 1 \in 1 .. Len(writes)
    BY <1>0
  <2>2. writes[sets + 1] \in [body : BOOLEAN, ttl : {"zero", "relative"}]
    BY <1>0, <2>1, ElementOfSeq
  <2> QED BY <2>2
<1>1. PICK k \in Key :
           /\ updates' = [p \in Agent \X Server |->
                IF p[1] = a /\ p \in pubs'
                THEN Append(updates[p], KVUpdate(sets + 1, k, v.body, v.ttl)) ELSE updates[p]]
           /\ agent' = [agent EXCEPT ![a].kvmap = Store(@, KVUpdate(sets + 1, k, v.body, v.ttl))]
  <2>1. \E k \in Key :
           LET w == writes[sets + 1]
               m == KVUpdate(sets + 1, k, w.body, w.ttl) IN
             /\ updates' = [p \in Agent \X Server |->
                  IF p[1] = a /\ p \in pubs' THEN Append(updates[p], m) ELSE updates[p]]
             /\ agent' = [agent EXCEPT ![a].kvmap = Store(@, m)]
    BY Zenon DEF Set
  <2> QED BY <2>1, Zenon
<1> PICK m : m = KVUpdate(sets + 1, k, v.body, v.ttl)
  OBVIOUS
<1>2. m \in Update
  BY <1>0 DEF KVUpdate, Update, Message, Uuid, Ttl
<1>3. /\ updates' = [p \in Agent \X Server |->
                IF p[1] = a /\ p \in pubs' THEN Append(updates[p], m) ELSE updates[p]]
      /\ agent' = [agent EXCEPT ![a].kvmap = Store(@, m)]
      /\ UNCHANGED <<subs, ask, snap, out, serverVars, failovers, writes, synced, leftover>>
      /\ sent' = [s \in Server |-> IF <<a, s>> \in pubs' THEN sent[s] \cup {sets + 1} ELSE sent[s]]
      /\ \E reached \in SUBSET Server : pubs' = pubs \cup ({a} \X reached)
  BY <1>1 DEF Set
<1>4. /\ updates \in [Agent \X Server -> Seq(Update)] /\ NetTypeOK
      /\ agent \in [Agent -> AgentRecord] /\ agent[a] \in AgentRecord
  BY AgentFacts
<1>5. NetTypeOK'
  <2>1. \A p \in Agent \X Server : Append(updates[p], m) \in Seq(Update)
    BY <1>2, <1>4
  <2>2. updates' \in [Agent \X Server -> Seq(Update)]
    BY <1>3, <1>4, <2>1
  <2>3. pubs' \subseteq Agent \X Server
    BY <1>3, <1>4 DEF NetTypeOK
  <2> QED BY <1>3, <1>4, <2>2, <2>3 DEF NetTypeOK
<1>6. ServerInv'
  <2>1. UNCHANGED <<server, crashes, log, tainted>>
    BY <1>3 DEF serverVars
  <2> QED BY <1>3, <1>5, <2>1, Undisturbed
<1>7. AgentTypeOK'
  <2>1. Store(agent[a].kvmap, m) \in Table
    BY <1>2, <1>4, StoreType DEF AgentRecord
  <2>2. agent' \in [Agent -> AgentRecord]
    BY <1>3, <1>4, <2>1 DEF AgentRecord
  <2>3. sent' \in [Server -> SUBSET Uuid]
    BY <1>0, <1>3 DEF AgentTypeOK, Uuid
  <2>4. sets' \in 0 .. Len(writes')
    BY <1>0, <1>3
  <2> QED BY <1>3, <2>2, <2>3, <2>4 DEF AgentTypeOK, AgentRecord
<1> QED BY <1>6, <1>7

\* What a client has read of an earlier process is forgotten.
LEMMA ReadType ==
    ASSUME Read, leftover \subseteq Agent \X Server
    PROVE  leftover' \subseteq Agent \X Server
BY DEF Read

\* A client reads a message of a snapshot.
LEMMA SnapshotMessageInv ==
    ASSUME ServerInv, AgentTypeOK, NEW a \in Agent, SnapshotMessage(a)
    PROVE  ServerInv' /\ AgentTypeOK'
<1>0. /\ agent \in [Agent -> AgentRecord] /\ agent[a] \in AgentRecord
      /\ Cur(a) \in Server /\ FromCur(a) \in Pair /\ NetTypeOK
      /\ snap \in [Pair -> Seq(Reply)]
  BY AgentFacts
<1> PICK p \in Pair : p = FromCur(a)
  BY <1>0
<1> PICK m \in Reply : m = Head(snap[p])
  BY <1>0 DEF SnapshotMessage
<1>1. /\ snap[p] # <<>>
      /\ snap' = [snap EXCEPT ![p] = Tail(@)]
      /\ agent' = IF IsEnd(m)
            THEN [agent EXCEPT ![a].sequence = m.kthxbai, ![a].state = "ACTIVE",
                               ![a].requests[Cur(a)] = 0]
            ELSE [agent EXCEPT ![a].kvmap = Store(@, m), ![a].requests[Cur(a)] = 0]
      /\ synced' \in {synced, synced \cup {a}}
      /\ UNCHANGED <<subs, pubs, ask, out, updates, serverVars, failovers, writes, sets, sent>>
      /\ Read
  BY DEF SnapshotMessage
<1>2. snap' \in [Pair -> Seq(Reply)]
  <2>1. Tail(snap[p]) \in Seq(Reply)
    BY <1>0, <1>1
  <2> QED BY <1>0, <1>1, <2>1
<1>3. NetTypeOK'
  BY <1>0, <1>1, <1>2 DEF NetTypeOK, Reply
<1>4. ServerInv'
  <2>1. \A r \in Pair : r # <<a, Cur(a)>> => snap'[r] = snap[r]
    BY <1>0, <1>1 DEF FromCur
  <2> QED BY <1>0, <1>1, <1>3, <2>1, AgentQueues
<1>5. agent' \in [Agent -> AgentRecord]
  <2>1. CASE IsEnd(m)
    <3>1. m \in [kthxbai : Nat]
      BY <2>1, EndIs DEF Reply
    <3>2. m.kthxbai \in Nat
      BY <3>1
    <3>3. agent[a].requests \in [Server -> 0 .. 2]
      BY <1>0 DEF AgentRecord
    <3>4. agent' = [agent EXCEPT ![a].sequence = m.kthxbai, ![a].state = "ACTIVE",
                                 ![a].requests[Cur(a)] = 0]
      BY <1>1, <2>1
    <3>r. [agent[a].requests EXCEPT ![Cur(a)] = 0] \in [Server -> 0 .. 2]
      BY <1>0, <3>3
    <3> PICK f \in [Server -> 0 .. 2] : f = [agent[a].requests EXCEPT ![Cur(a)] = 0]
      BY <3>r
    <3>5. agent' = [agent EXCEPT ![a].sequence = m.kthxbai, ![a].state = "ACTIVE",
                                 ![a].requests = f]
      BY <1>0, <3>4
    <3> QED BY <1>0, <3>2, <3>5 DEF AgentRecord
  <2>2. CASE ~ IsEnd(m)
    <3>1. m \in Update
      BY <2>2, EndIs DEF Reply
    <3>2. Store(agent[a].kvmap, m) \in Table
      BY <1>0, <3>1, StoreType DEF AgentRecord
    <3>3. agent[a].requests \in [Server -> 0 .. 2]
      BY <1>0 DEF AgentRecord
    <3>4. agent' = [agent EXCEPT ![a].kvmap = Store(@, m), ![a].requests[Cur(a)] = 0]
      BY <1>1, <2>2
    <3>r. [agent[a].requests EXCEPT ![Cur(a)] = 0] \in [Server -> 0 .. 2]
      BY <1>0, <3>3
    <3> PICK f \in [Server -> 0 .. 2] : f = [agent[a].requests EXCEPT ![Cur(a)] = 0]
      BY <3>r
    <3>5. agent' = [agent EXCEPT ![a].kvmap = Store(@, m), ![a].requests = f]
      BY <1>0, <3>4
    <3> QED BY <1>0, <3>2, <3>5 DEF AgentRecord
  <2> QED BY <2>1, <2>2
<1>6. AgentTypeOK'
  BY <1>1, <1>5, ReadType DEF AgentTypeOK, AgentRecord
<1> QED BY <1>4, <1>6

\* A client reads an update.
LEMMA UpdateMessageInv ==
    ASSUME ServerInv, AgentTypeOK, NEW a \in Agent, UpdateMessage(a)
    PROVE  ServerInv' /\ AgentTypeOK'
<1>0. /\ agent \in [Agent -> AgentRecord] /\ agent[a] \in AgentRecord
      /\ Cur(a) \in Server /\ FromCur(a) \in Pair /\ NetTypeOK
      /\ out \in [Pair -> Seq(Published)]
  BY AgentFacts
<1> PICK p \in Pair : p = FromCur(a)
  BY <1>0
<1> PICK m \in Published : m = Head(out[p])
  BY <1>0 DEF UpdateMessage
<1>1. /\ out[p] # <<>>
      /\ out' = [out EXCEPT ![p] = Tail(@)]
      /\ agent' = IF m.seq > agent[a].sequence
                  THEN [agent EXCEPT ![a].kvmap = Store(@, m), ![a].sequence = m.seq]
                  ELSE agent
      /\ UNCHANGED <<subs, pubs, ask, snap, updates, serverVars, failovers, writes, sets, sent, synced>>
      /\ Read
  BY DEF UpdateMessage
<1>2. out' \in [Pair -> Seq(Published)]
  <2>1. Tail(out[p]) \in Seq(Published)
    BY <1>0, <1>1
  <2> QED BY <1>0, <1>1, <2>1
<1>3. NetTypeOK'
  BY <1>0, <1>1, <1>2 DEF NetTypeOK
<1>4. ServerInv'
  <2>1. \A r \in Pair : r # <<a, Cur(a)>> => out'[r] = out[r]
    BY <1>0, <1>1 DEF FromCur
  <2> QED BY <1>0, <1>1, <1>3, <2>1, AgentQueues
<1>5. agent' \in [Agent -> AgentRecord]
  <2>1. m \in Update /\ m.seq \in Nat
    BY PublishedIsUpdate, UpdateFields
  <2>2. Store(agent[a].kvmap, m) \in Table
    BY <1>0, <2>1, StoreType DEF AgentRecord
  <2> QED BY <1>0, <1>1, <2>1, <2>2 DEF AgentRecord
<1>6. AgentTypeOK'
  BY <1>1, <1>5, ReadType DEF AgentTypeOK, AgentRecord
<1> QED BY <1>4, <1>6

\* A client reads a HUGZ.
LEMMA HugzMessageInv ==
    ASSUME ServerInv, AgentTypeOK, NEW a \in Agent, HugzMessage(a)
    PROVE  ServerInv' /\ AgentTypeOK'
<1>0. /\ agent \in [Agent -> AgentRecord] /\ agent[a] \in AgentRecord
      /\ Cur(a) \in Server /\ NetTypeOK /\ server[Cur(a)].sequence \in Nat
  BY AgentFacts, ServerFacts
<1>1. /\ agent' = [agent EXCEPT ![a].sequence = server[Cur(a)].sequence]
      /\ UNCHANGED <<netVars, serverVars, failovers, writes, sets, sent, synced, leftover>>
  BY DEF HugzMessage
<1>2. NetTypeOK' /\ UNCHANGED <<subs, pubs, ask, snap, out, updates>>
  BY <1>0, <1>1 DEF NetTypeOK, netVars
<1>3. ServerInv'
  BY <1>0, <1>1, <1>2, AgentQueues
<1>4. agent' \in [Agent -> AgentRecord]
  BY <1>0, <1>1 DEF AgentRecord
<1>5. AgentTypeOK'
  BY <1>1, <1>4 DEF AgentTypeOK, AgentRecord
<1> QED BY <1>3, <1>5

\* A client gives its server up.
LEMMA FailoverInv ==
    ASSUME ServerInv, AgentTypeOK, NEW a \in Agent, Failover(a)
    PROVE  ServerInv' /\ AgentTypeOK'
<1>0. /\ agent \in [Agent -> AgentRecord] /\ agent[a] \in AgentRecord
      /\ Cur(a) \in Server /\ Peer(Cur(a)) \in Server /\ <<a, Peer(Cur(a))>> \in Pair
      /\ NetTypeOK /\ ask \in [Pair -> Nat]
  BY AgentFacts
<1> PICK s \in Server : s = Peer(Cur(a))
  BY <1>0
<1>1. /\ failovers[a] < MaxFailovers
      /\ failovers' = [failovers EXCEPT ![a] = @ + 1]
      /\ agent' = [agent EXCEPT ![a].state = "SYNCING", ![a].cur_server = s,
                                ![a].requests[s] = IF @ < 2 THEN @ + 1 ELSE @]
      /\ ask' = IF agent[a].requests[s] < 2
                THEN [ask EXCEPT ![<<a, s>>] = @ + 1] ELSE ask
      /\ synced' = synced \ {a}
      /\ UNCHANGED <<subs, pubs, snap, out, updates, serverVars, writes, sets, sent, leftover>>
  BY DEF Failover
<1>2. ask' \in [Pair -> Nat]
  BY <1>0, <1>1
<1>3. NetTypeOK'
  BY <1>0, <1>1, <1>2 DEF NetTypeOK
<1>4. ServerInv'
  <2>1. \A r \in Pair : r # <<a, s>> => ask'[r] = ask[r]
    BY <1>0, <1>1
  <2> QED BY <1>0, <1>1, <1>3, <2>1, AgentQueues
<1>5. agent' \in [Agent -> AgentRecord]
  <2>1. agent[a].requests \in [Server -> 0 .. 2]
    BY <1>0 DEF AgentRecord
  <2> PICK n : n = IF agent[a].requests[s] < 2 THEN agent[a].requests[s] + 1
                   ELSE agent[a].requests[s]
    OBVIOUS
  <2>2. n \in 0 .. 2
    BY <2>1
  <2>3. agent' = [agent EXCEPT ![a].state = "SYNCING", ![a].cur_server = s,
                               ![a].requests[s] = n]
    BY <1>1
  <2> QED BY <1>0, <2>1, <2>2, <2>3 DEF AgentRecord
<1>6. failovers' \in [Agent -> 0 .. MaxFailovers]
  BY <1>1, CloneAssumption DEF AgentTypeOK
<1>7. AgentTypeOK'
  BY <1>1, <1>5, <1>6 DEF AgentTypeOK, AgentRecord
<1> QED BY <1>4, <1>7

\* The bookkeeping of the clients after a step of a server.
LEMMA EffectType ==
    ASSUME AgentTypeOK, ServerEffect
    PROVE  AgentTypeOK'
<1> DEFINE died == {s \in Server : Up(s) /\ server'[s].state = "DOWN"}
           wrote == {s \in Server : server'[s].sequence > server[s].sequence}
           missed == (Agent \X wrote) \ subs
<1>1. /\ sent' = [s \in Server |-> IF s \in died THEN {} ELSE sent[s]]
      /\ synced' = {a \in synced : Cur(a) \notin died /\ FromCur(a) \notin missed}
      /\ leftover' = leftover
           \cup {p \in Agent \X died : snap'[p] # <<>> \/ out'[p] # <<>>}
           \cup {p \in missed : snap[p] # <<>>}
      /\ UNCHANGED <<agent, failovers, writes, sets>>
  BY DEF ServerEffect
<1>2. died \subseteq Server /\ missed \subseteq Agent \X Server
  OBVIOUS
<1> HIDE DEF died, missed
<1> QED BY <1>1, <1>2 DEF AgentTypeOK

\* The invariant at the start and after every step.
LEMMA ServerInvInit == Init => ServerInv /\ AgentTypeOK
<1> SUFFICES ASSUME Init PROVE ServerInv /\ AgentTypeOK
  OBVIOUS
<1> USE DEF Init
<1>1. /\ subs = {p \in Pair : p[1] \in Server} /\ pubs = {}
      /\ ask = [p \in Pair |-> IF p \in Agent \X {"primary"} THEN 1 ELSE 0]
      /\ snap = [p \in Pair |-> <<>>]
      /\ out = [p \in Pair |-> <<>>]
      /\ updates = [p \in Agent \X Server |-> <<>>]
      /\ server = [s \in Server |->
         IF s = "primary" THEN [Down EXCEPT !.state = "ACTIVE", !.kvmap = EmptyMap]
         ELSE [Down EXCEPT !.state = "PASSIVE"]]
      /\ crashes = 0 /\ log = <<>> /\ tainted = {}
  BY DEF NetInit, ServerInit
<1>2. /\ server["primary"] = [state |-> "ACTIVE", kvmap |-> EmptyMap, sequence |-> 0,
                              pending |-> <<>>, asking |-> FALSE]
      /\ server["backup"] = [state |-> "PASSIVE", kvmap |-> Null, sequence |-> 0,
                             pending |-> <<>>, asking |-> FALSE]
  BY <1>1 DEF Server, Down
<1>3. EmptyMap \in Table /\ EmptyMap # Null
  BY EmptyMapType
<1>4. /\ Active("primary") /\ ~ Passive("primary") /\ ~ NoTable("primary") /\ Up("primary")
      /\ ~ Active("backup") /\ Passive("backup") /\ NoTable("backup") /\ Up("backup")
  BY <1>2, <1>3 DEF Active, Passive, NoTable, Up
<1>5. /\ Peer("primary") = "backup" /\ Peer("backup") = "primary" /\ Server = {"primary", "backup"}
      /\ FromPeer("primary") \in Pair /\ FromPeer("backup") \in Pair
      /\ FromPeer("primary") \notin Agent \X {"primary"}
      /\ FromPeer("backup") \notin Agent \X {"primary"}
  BY CloneAssumption DEF Peer, Server, FromPeer, Pair
<1>6. Types
  <2>1. NetTypeOK
    BY <1>1 DEF NetTypeOK
  <2>2. server \in [Server -> ServerRecord]
    <3>1. /\ Down = [state |-> "DOWN", kvmap |-> Null, sequence |-> 0, pending |-> <<>>,
                    asking |-> FALSE]
          /\ <<>> \in Seq(Update) /\ {"ACTIVE", "PASSIVE"} \subseteq State \cup {"DOWN"}
      BY DEF Down, State
    <3>2. /\ [Down EXCEPT !.state = "ACTIVE", !.kvmap = EmptyMap] \in ServerRecord
          /\ [Down EXCEPT !.state = "PASSIVE"] \in ServerRecord
      BY <1>3, <3>1 DEF ServerRecord
    <3> QED BY <1>1, <3>2
  <2>3. ServerTypeOK
    <3>1. log \in Seq(Published) /\ crashes \in 0 .. MaxCrashes /\ tainted \subseteq Server
      BY <1>1, CloneAssumption
    <3> QED BY <2>2, <3>1 DEF ServerTypeOK, ServerRecord
  <2> QED BY <2>1, <2>3 DEF Types
<1>7. Numbers
  BY <1>1 DEF Numbers
<1>8. Roles
  <2>1. RolesOf("primary")
    BY <1>2, <1>3, <1>4, <1>5 DEF RolesOf
  <2>2. RolesOf("backup")
    BY <1>2, <1>4, <1>5 DEF RolesOf
  <2>3. \A p \in subs : Up(p[2]) /\ (p[1] \in Server => Up(p[1]))
    BY <1>1, <1>4, <1>5 DEF Pair
  <2> QED BY <1>5, <2>1, <2>2, <2>3 DEF Roles
<1>9. Copies
  <2>1. TableIs(EmptyMap, 0)
    BY EmptyTable DEF TableIs
  <2> QED BY <1>1, <1>2, <1>4, <1>5, <2>1, TidyEmpty DEF Copies, CopyOf
<1>10. Asked /\ Snapshots
  <2>1. ~ server["primary"].asking /\ ~ server["backup"].asking
    BY <1>2
  <2> QED BY <1>1, <1>4, <1>5, <2>1 DEF Asked, AskOf, AskSubs, Snapshots, SnapFrom
<1>11. Streams
  <2>1. Stretch("backup", 0, 0)
    <3>1. out[FromPeer("backup")] = <<>> /\ log = <<>>
      BY <1>1, <1>5
    <3>2. <<>> \in Seq(Published) /\ 0 \in 0 .. Len(<<>>)
      OBVIOUS
    <3>3. Piece(<<>>, 0, 0) = <<>>
      BY <3>2, PieceEmpty
    <3> QED BY <3>1, <3>3 DEF Stretch
  <2>2. FromPeer("primary") \in subs /\ FromPeer("backup") \in subs
    BY <1>1, <1>5 DEF FromPeer
  <2> QED BY <1>1, <1>2, <1>4, <1>5, <2>1, <2>2 DEF Streams, StreamOf, Joining, Holder
<1>12. AgentTypeOK
  BY <1>1, <1>3, CloneAssumption DEF AgentInit, AgentTypeOK, Server
<1> QED BY <1>6, <1>7, <1>8, <1>9, <1>10, <1>11, <1>12 DEF ServerInv

\* Every step of the system keeps the invariant of the servers.
LEMMA ServerInvNext == ServerInv /\ AgentTypeOK /\ [Next]_vars => ServerInv' /\ AgentTypeOK'
<1> SUFFICES ASSUME ServerInv, AgentTypeOK, [Next]_vars PROVE ServerInv' /\ AgentTypeOK'
  OBVIOUS
<1>1. ASSUME NEW s \in Server, ServerStep(s), ServerEffect PROVE ServerInv' /\ AgentTypeOK'
  BY <1>1, ServerStepInv, EffectType
<1>2. ASSUME NEW x \in Agent \cup Server, NEW s \in Server, Subscribe(x, s)
      PROVE ServerInv' /\ AgentTypeOK'
  BY <1>2, SubscribeInv
<1>3. ASSUME NEW a \in Agent, AgentStep(a) PROVE ServerInv' /\ AgentTypeOK'
  BY <1>3, SetInv, SnapshotMessageInv, UpdateMessageInv, HugzMessageInv, FailoverInv DEF AgentStep
<1>4. ASSUME UNCHANGED vars PROVE ServerInv' /\ AgentTypeOK'
  <2>1. /\ UNCHANGED <<subs, pubs, ask, snap, out, updates>>
        /\ UNCHANGED <<server, crashes, log, tainted>>
        /\ UNCHANGED <<agent, failovers, writes, sets, sent, synced, leftover>>
    BY <1>4 DEF vars, netVars, serverVars, agentVars
  <2>2. NetTypeOK'
    BY <2>1 DEF ServerInv, Types, NetTypeOK
  <2>3. ServerInv'
    BY <2>1, <2>2, Undisturbed
  <2> QED BY <2>1, <2>3 DEF AgentTypeOK
<1> QED BY <1>1, <1>2, <1>3, <1>4 DEF Next

\* The invariant of the servers, and the types of the agents, hold in every
\* state.
LEMMA CloneInvariant == Spec => [](ServerInv /\ AgentTypeOK)
BY ServerInvInit, ServerInvNext, PTL DEF Spec

\* Every variable of the Clone pattern has its type.
THEOREM CloneTyped == Spec => []TypeOK
<1>1. ServerInv /\ AgentTypeOK => TypeOK
  BY DEF ServerInv, Types, TypeOK
<1> QED BY <1>1, CloneInvariant, PTL

\* The table of a server, as ReplicatedMap sees it.
View(s) == IF Holder(s) THEN Names(server[s].kvmap) ELSE NoMsg

\* The table of a server in the abstract map.
LEMMA Views ==
    /\ [s \in Server |->
          IF server[s].kvmap = Null \/ s \in tainted THEN NoMsg
          ELSE Names(server[s].kvmap)] = [s \in Server |-> View(s)]
    /\ \A s \in Server : View(s) # NoMsg => Holder(s)
BY DEF View, Holder, NoTable

\* A table as uuids is not the value for no table.
LEMMA NamesNotNoMsg ==
    ASSUME NEW map \in Table
    PROVE  Names(map) # NoMsg
<1>1. ASSUME NEW k \in Key
      PROVE  (IF map[k] = NoMsg THEN NoMsg ELSE map[k].uuid) \in Nat \cup {NoMsg}
  <2>1. map[k] \in Update \cup {NoMsg}
    BY DEF Table
  <2> QED BY <2>1, UpdateFields
<1>2. Names(map) \in [Key -> Nat \cup {NoMsg}]
  BY <1>1 DEF Names
<1> QED BY <1>2, CloneAssumption

\* What changes nothing of the other server, as ReplicatedMap sees it.
Apart(q) ==
    /\ server'[q] = server[q]
    /\ NoTable(q) \/ (q \in tainted' <=> q \in tainted)

\* A server that is left as it is has the same table in the abstract map.
LEMMA ApartView ==
    ASSUME NEW q \in Server, Apart(q)
    PROVE  View(q)' = View(q) /\ server'[q].sequence = server[q].sequence
<1>1. NoTable(q)' <=> NoTable(q)
  BY KeptServer DEF Apart
<1>2. CASE NoTable(q)
  BY <1>1, <1>2 DEF View, Holder, Apart
<1>3. CASE ~ NoTable(q)
  <2>1. Names(server[q].kvmap)' = Names(server[q].kvmap)
    BY DEF Apart
  <2> QED BY <1>1, <1>3, <2>1 DEF View, Holder, Apart
<1> QED BY <1>2, <1>3

\* The three kinds of step, in the terms of ReplicatedMap.
MapForget(s) == log' = log /\ View(s)' = NoMsg

MapAdvance(s) ==
    /\ log' = log
    /\ server'[s].sequence \in 0 .. Len(log)
    /\ View(s) # NoMsg => server'[s].sequence >= server[s].sequence
    /\ View(s)' = Map!TableOf(log, server'[s].sequence)

MapTakeOver(s) ==
    /\ View(s) # NoMsg
    /\ IsPrefix(SubSeq(log, 1, server[s].sequence), log')
    /\ server'[s].sequence = Len(log')
    /\ View(s)' = Map!TableOf(log', Len(log'))

\* A step that adds nothing to the log.
LEMMA QuietMaps ==
    ASSUME ServerInv, ServerInv', NEW s \in Server, log' = log,
           Holder(s) /\ Holder(s)' => server'[s].sequence >= server[s].sequence
    PROVE  MapForget(s) \/ MapAdvance(s)
<1>1. CASE ~ Holder(s)'
  BY <1>1 DEF MapForget, View
<1>2. CASE Holder(s)'
  <2>1. (Copies /\ Types)'
    BY DEF ServerInv
  <2>2. CopyOf(s)'
    BY <2>1 DEF Copies
  <2>3. /\ server'[s].sequence <= Len(log')
        /\ TableIs(server[s].kvmap, server[s].sequence)'
    BY <1>2, <2>2 DEF CopyOf, Holder
  <2>4. server'[s].sequence \in Nat
    BY <2>1 DEF Types, ServerTypeOK
  <2>5. View(s)' = Names(server[s].kvmap)'
    BY <1>2 DEF View
  <2>6. Names(server[s].kvmap)' = Map!TableOf(log, server'[s].sequence)
    BY <2>3 DEF TableIs
  <2>7. Len(log) \in Nat
    BY ServerFacts
  <2>8. server'[s].sequence \in 0 .. Len(log)
    BY <2>3, <2>4, <2>7
  <2> QED BY <1>2, <2>5, <2>6, <2>8, Views DEF MapAdvance
<1> QED BY <1>1, <1>2

\* A list is a prefix of itself with more behind it.
LEMMA ConcatPrefix ==
    ASSUME NEW S, NEW l \in Seq(S), NEW more \in Seq(S)
    PROVE  IsPrefix(l, l \o more)
<1>1. /\ l \o more \in Seq(S) /\ Len(l \o more) = Len(l) + Len(more)
      /\ \A i \in 1 .. Len(l) + Len(more) :
            (l \o more)[i] = IF i <= Len(l) THEN l[i] ELSE more[i - Len(l)]
  BY ConcatProperties
<1>2. Len(l) \in Nat /\ Len(more) \in Nat /\ DOMAIN l = 1 .. Len(l)
      /\ DOMAIN (l \o more) = 1 .. Len(l \o more)
  BY <1>1
<1>3. \A i \in 1 .. Len(l) : l[i] = (l \o more)[i]
  BY <1>1, <1>2
<1> QED BY <1>1, <1>2, <1>3 DEF IsPrefix

\* A step of a server that numbers updates.
LEMMA WriteMaps ==
    ASSUME ServerInv, ServerInv', NEW s \in Server, Runs(s), Active(s) \/ MayTakeOver(s),
           NEW msgs \in Seq(Published), NEW r \in ServerRecord, Writes_(s, msgs, r)
    PROVE  (MapForget(s) \/ MapTakeOver(s)) /\ Apart(Peer(s))
<1> PICK n \in Nat : n = server[s].sequence
  BY ServerFacts
<1>0. server \in [Server -> ServerRecord] /\ Peer(s) \in Server /\ Peer(s) # s
  BY ServerFacts, ServerRecords
<1>1. /\ server' = [server EXCEPT ![s] = r] /\ tainted' = tainted
      /\ NoTable(s) => r.kvmap = Null
      /\ ~ NoTable(s) => r.kvmap \in Table
      /\ log' = IF Holder(s) THEN SubSeq(log, 1, n) \o msgs ELSE log
      /\ r.sequence = n + Len(msgs)
  BY DEF Writes_
<1>2. server'[s] = r /\ server'[Peer(s)] = server[Peer(s)]
  BY <1>0, <1>1
<1>3. Apart(Peer(s))
  BY <1>1, <1>2 DEF Apart
<1>4. CASE ~ Holder(s)
  BY <1>1, <1>2, <1>3, <1>4 DEF MapForget, View, Holder, NoTable
<1>5. CASE Holder(s)
  <2>1. r.kvmap \in Table /\ r.kvmap # Null
    BY <1>1, <1>5, TableIsNotNull DEF Holder
  <2>2. Holder(s)'
    BY <1>1, <1>2, <1>5, <2>1 DEF Holder, NoTable
  <2>3. Names(r.kvmap) = Map!TableOf(log', r.sequence)
    BY <1>5, WriteTable
  <2>4. View(s)' = Map!TableOf(log', r.sequence)
    BY <1>2, <2>2, <2>3 DEF View
  <2>5. Len(log') = r.sequence
    BY <1>1, <1>5, WriteLog
  <2>6. n <= Len(log) /\ log \in Seq(Published) /\ Len(log) \in Nat
    BY <1>5, ServerFacts DEF Holder, CopyOf
  <2>7. SubSeq(log, 1, n) \in Seq(Published)
    BY <2>6
  <2>8. IsPrefix(SubSeq(log, 1, n), log')
    BY <1>1, <1>5, <2>7, ConcatPrefix
  <2>9. View(s) # NoMsg
    <3>1. server[s].kvmap \in Table
      BY <1>5, ServerFacts DEF Holder
    <3> QED BY <1>5, <3>1, NamesNotNoMsg DEF View
  <2>10. server'[s].sequence = Len(log') /\ View(s)' = Map!TableOf(log', Len(log'))
    BY <1>2, <2>4, <2>5
  <2> QED BY <1>3, <2>8, <2>9, <2>10 DEF MapTakeOver
<1> QED BY <1>3, <1>4, <1>5

\* A step that adds nothing to the log and leaves the peer as it is.
Quiet(s) ==
    /\ log' = log
    /\ Apart(Peer(s))
    /\ Holder(s) /\ Holder(s)' => server'[s].sequence >= server[s].sequence

\* A server writes, with some messages and some record of its own.
Adds(s) ==
    \E msgs \in Seq(Published), r \in ServerRecord :
       Runs(s) /\ (Active(s) \/ MayTakeOver(s)) /\ Writes_(s, msgs, r)

\* The death of a server leaves its peer with its table, or without one that
\* counts.
LEMMA DieQuiet ==
    ASSUME ServerInv, NEW s \in Server, Dies(s)
    PROVE  Quiet(s)
<1>0. /\ server \in [Server -> ServerRecord] /\ Peer(s) \in Server /\ Peer(s) # s
      /\ RolesOf(Peer(s))
  BY ServerFacts, ServerRecords
<1>1. /\ server' = [server EXCEPT ![s] = Down]
      /\ tainted' = (tainted \ {s}) \cup
          {q \in {Peer(s)} : \/ server[q].asking
                             \/ server[q].kvmap = Null /\ out'[<<q, s>>] # <<>>}
      /\ log' = log
  BY DEF Dies, Die
<1>2. server'[Peer(s)] = server[Peer(s)] /\ server'[s] = Down
  BY <1>0, <1>1
<1>3. ~ Holder(s)'
  BY <1>2 DEF Holder, NoTable, Down
<1>4. NoTable(Peer(s)) \/ (Peer(s) \in tainted' <=> Peer(s) \in tainted)
  BY <1>0, <1>1 DEF RolesOf, NoTable
<1> QED BY <1>1, <1>2, <1>3, <1>4 DEF Quiet, Apart

\* So does a start.
LEMMA StartQuiet ==
    ASSUME ServerInv, NEW s \in Server, Start(s)
    PROVE  Quiet(s)
<1>0. /\ server \in [Server -> ServerRecord] /\ Peer(s) \in Server /\ Peer(s) # s
      /\ RolesOf(s)
  BY ServerFacts, ServerRecords
<1>1. /\ ~ Up(s) /\ UNCHANGED <<log, tainted>>
      /\ server'[Peer(s)] = server[Peer(s)]
  BY <1>0 DEF Start
<1>2. ~ Holder(s)
  BY <1>0, <1>1 DEF Up, RolesOf, Holder
<1> QED BY <1>1, <1>2 DEF Quiet, Apart

\* A step that changes only the record of s, which loses no number.
LEMMA OwnQuiet ==
    ASSUME ServerInv, NEW s \in Server, UNCHANGED <<log, tainted>>,
           server'[Peer(s)] = server[Peer(s)],
           NoTable(s) \/ NoTable(s)' \/ server'[s].sequence >= server[s].sequence
    PROVE  Quiet(s)
BY DEF Quiet, Apart, Holder

\* A takeover adds what was pending to the log.
LEMMA TakeOverAdds ==
    ASSUME ServerInv, NEW s \in Server, MayTakeOver(s),
           NoTable(s) => server[s].pending = <<>>,
           server' = [server EXCEPT ![s] = NewActive(s)], TakesOver(s),
           UNCHANGED <<subs, pubs, tainted, crashes>>
    PROVE  Adds(s)
<1> PICK msgs : msgs = Renumbered(server[s].pending, server[s].sequence)
  OBVIOUS
<1> PICK r : r = NewActive(s)
  OBVIOUS
<1>1. msgs \in Seq(Published) /\ r \in ServerRecord /\ Writes_(s, msgs, r)
  BY TakeOverWrites
<1>2. Runs(s)
  BY DEF MayTakeOver
<1> QED BY <1>1, <1>2 DEF Adds

\* A state from the peer is one step of the abstract map, or none.
LEMMA RecvStateMaps ==
    ASSUME ServerInv, NEW s \in Server, RecvState(s)
    PROVE  Quiet(s) \/ Adds(s)
<1>0. /\ ServerTypeOK /\ server \in [Server -> ServerRecord]
      /\ Peer(s) \in Server /\ Peer(s) # s
  BY ServerFacts, ServerRecords
<1>1. CASE TurnsPassive(s)
  <2>1. server'[Peer(s)] = server[Peer(s)] /\ UNCHANGED <<log, tainted>> /\ NoTable(s)'
    BY <1>0, <1>1 DEF TurnsPassive, NoTable, ServerRecord
  <2> QED BY <2>1, OwnQuiet
<1> QED BY <1>0, <1>1, DieQuiet, TakeOverAdds, RecvCases

\* So is a request.
LEMMA VoterMaps ==
    ASSUME ServerInv, NEW s \in Server, NEW x \in Agent \cup {Peer(s)}, Voter(s, x)
    PROVE  Quiet(s) \/ Adds(s)
<1>0. ServerTypeOK /\ server[s].sequence \in Nat
  BY ServerFacts
<1>1. CASE UNCHANGED <<server, log, tainted>>
  <2>1. server'[s].sequence >= server[s].sequence
    BY <1>0, <1>1
  <2> QED BY <1>1, <2>1, OwnQuiet
<1>2. CASE Dies(s)
  BY <1>2, DieQuiet
<1>3. CASE /\ Replies(s, x) /\ MayTakeOver(s)
           /\ server' = [server EXCEPT ![s] = NewActive(s)]
           /\ TakesOver(s)
  BY <1>3, TakeOverAdds DEF Replies
<1>4. \/ Refuses(s, x)
      \/ Runs(s) /\ Dies(s) /\ UNCHANGED crashes
      \/ Replies(s, x) /\ UNCHANGED <<server, out, log>>
      \/ /\ Replies(s, x) /\ MayTakeOver(s)
         /\ server' = [server EXCEPT ![s] = NewActive(s)]
         /\ TakesOver(s)
  BY <1>0, VoterCases
<1> QED BY <1>1, <1>2, <1>3, <1>4 DEF Refuses, Replies

\* So is a flush.
LEMMA FlushMaps ==
    ASSUME ServerInv, NEW s \in Server, Flush(s)
    PROVE  Quiet(s) \/ Adds(s)
<1>0. server \in [Server -> ServerRecord] /\ Peer(s) \in Server /\ Peer(s) # s
  BY ServerFacts, ServerRecords
<1>1. PICK msgs \in Seq(Published), r \in ServerRecord :
             /\ Runs(s) /\ ~ NoTable(s)
             /\ \A i \in 1 .. Len(msgs) : msgs[i].seq = server[s].sequence + i
             /\ r.state = server[s].state /\ r.asking = server[s].asking
             /\ r.sequence = server[s].sequence + Len(msgs)
             /\ r.kvmap = Stored(server[s].kvmap, msgs)
             /\ r.kvmap \in Table /\ Tidy(r.kvmap)
             /\ server' = [server EXCEPT ![s] = r]
             /\ out' = Publish(s, msgs, Wanted)
             /\ log' = IF Active(s) /\ s \notin tainted THEN log \o msgs ELSE log
             /\ tainted' = IF Active(s) THEN tainted ELSE tainted \cup {s}
             /\ UNCHANGED <<subs, pubs, ask, snap, updates, crashes>>
  BY FlushIs
<1>2. CASE Active(s)
  <2>1. Writes_(s, msgs, r)
    BY <1>1, <1>2, FlushWrites
  <2> QED BY <1>1, <1>2, <2>1 DEF Adds
<1>3. CASE ~ Active(s)
  <2>1. ~ Holder(s)' /\ server'[Peer(s)] = server[Peer(s)]
    BY <1>0, <1>1, <1>3 DEF Holder
  <2>2. Peer(s) \in tainted' <=> Peer(s) \in tainted
    BY <1>0, <1>1, <1>3
  <2> QED BY <1>1, <1>3, <2>1, <2>2 DEF Quiet, Apart
<1> QED BY <1>2, <1>3

\* So is an update of a client.
LEMMA CollectorMaps ==
    ASSUME ServerInv, NEW s \in Server, NEW a \in Agent, Collector(s, a)
    PROVE  Quiet(s) \/ Adds(s)
<1>0. /\ NetTypeOK /\ ServerTypeOK /\ <<a, s>> \in Agent \X Server
      /\ server \in [Server -> ServerRecord] /\ Peer(s) \in Server /\ Peer(s) # s
      /\ server[s].sequence \in Nat
  BY ServerFacts, ServerRecords
<1> PICK queue : queue = updates[<<a, s>>]
  OBVIOUS
<1>1. queue \in Seq(Update) /\ queue # <<>> /\ Runs(s) /\ UNCHANGED crashes
  BY <1>0 DEF Collector, NetTypeOK
<1> PICK m \in Update : m = Head(queue)
  BY <1>1
<1>2. CASE Active(s) /\ NoTable(s)
  <2>1. Dies(s)
    BY <1>2, CollectorDies
  <2> QED BY <2>1, DieQuiet
<1>3. CASE Active(s) /\ ~ NoTable(s)
  <2>1. CollectActive(s, m) /\ UNCHANGED <<subs, pubs>>
    BY <1>3 DEF Collector
  <2>2. PICK n \in Nat \ {0}, r \in ServerRecord :
             /\ n = server[s].sequence + 1
             /\ r.pending = server[s].pending
             /\ Numbered(m, n) \in Published /\ <<Numbered(m, n)>> \in Seq(Published)
             /\ Writes_(s, <<Numbered(m, n)>>, r)
    BY <1>1, <1>3, <2>1, CollectWrites
  <2> PICK msgs : msgs = <<Numbered(m, n)>>
    OBVIOUS
  <2>3. msgs \in Seq(Published) /\ Writes_(s, msgs, r)
    BY <2>2
  <2> QED BY <1>1, <1>3, <2>3 DEF Adds
<1>4. CASE ~ Active(s)
  <2>1. server' = [server EXCEPT ![s].pending = Pended(s, m)] /\ UNCHANGED <<log, tainted>>
    BY <1>4 DEF Collector
  <2>2. server'[Peer(s)] = server[Peer(s)] /\ server'[s].sequence = server[s].sequence
    BY <1>0, <2>1 DEF ServerRecord
  <2>3. server'[s].sequence >= server[s].sequence
    BY <1>0, <2>2
  <2> QED BY <2>1, <2>2, <2>3, OwnQuiet
<1> QED BY <1>2, <1>3, <1>4

\* The other three handlers change nothing but the record of the server, and
\* tables that count for nothing.
LEMMA PassiveMaps ==
    ASSUME ServerInv, NEW s \in Server, AskPeer(s) \/ SnapshotLoaded(s) \/ Subscriber(s)
    PROVE  Quiet(s)
<1>0. /\ server \in [Server -> ServerRecord] /\ Peer(s) \in Server /\ Peer(s) # s
      /\ RolesOf(s) /\ server[s] \in ServerRecord /\ out[FromPeer(s)] \in Seq(Published)
      /\ server[s].sequence \in Nat
  BY ServerFacts, ServerRecords
<1>1. CASE AskPeer(s)
  <2>1. /\ server'[Peer(s)] = server[Peer(s)] /\ UNCHANGED <<log, tainted>> /\ NoTable(s)
    BY <1>0, <1>1 DEF AskPeer
  <2> QED BY <2>1, OwnQuiet
<1>2. CASE SnapshotLoaded(s)
  <2>1. /\ server'[Peer(s)] = server[Peer(s)] /\ log' = log /\ server[s].asking
        /\ Peer(s) \in tainted' <=> Peer(s) \in tainted
    BY <1>0, <1>2 DEF SnapshotLoaded
  <2>2. ~ Holder(s)
    BY <1>0, <2>1 DEF RolesOf, Holder
  <2> QED BY <2>1, <2>2 DEF Quiet, Apart
<1>3. CASE Subscriber(s)
  <2>1. /\ UNCHANGED <<log, tainted>> /\ server'[Peer(s)] = server[Peer(s)]
        /\ out[FromPeer(s)] # <<>>
    BY <1>0, <1>3 DEF Subscriber, FromPeer
  <2> PICK m : m = Head(out[FromPeer(s)])
    OBVIOUS
  <2>2. m \in Published /\ m.seq \in Nat
    <3>1. m \in Published
      BY <1>0, <2>1
    <3> QED BY <3>1, PublishedIsUpdate, UpdateFields
  <2>3. server'[s].sequence = IF m.seq > server[s].sequence THEN m.seq ELSE server[s].sequence
    BY <1>0, <1>3 DEF Subscriber, FromPeer, ServerRecord
  <2>4. server'[s].sequence >= server[s].sequence
    BY <1>0, <2>2, <2>3
  <2> QED BY <2>1, <2>4, OwnQuiet
<1> QED BY <1>1, <1>2, <1>3

\* Each step of a server, in the abstract map.
LEMMA ServerStepMaps ==
    ASSUME ServerInv, ServerInv', NEW s \in Server, ServerStep(s)
    PROVE  (MapForget(s) \/ MapAdvance(s) \/ MapTakeOver(s)) /\ Apart(Peer(s))
<1>1. Quiet(s) \/ Adds(s)
  BY CrashDies, DieQuiet, StartQuiet, RecvStateMaps, VoterMaps, FlushMaps, CollectorMaps,
     PassiveMaps DEF ServerStep
<1>2. CASE Quiet(s)
  BY <1>2, QuietMaps DEF Quiet
<1>3. CASE Adds(s)
  BY <1>3, WriteMaps DEF Adds
<1> QED BY <1>1, <1>2, <1>3

\* One step of the two servers is one step of the replicated map, or none.
LEMMA MapNext ==
    ASSUME ServerInv, ServerInv', [Next]_vars
    PROVE  Map!RNext \/ UNCHANGED <<log, [s \in Server |-> View(s)],
                                    [s \in Server |-> server[s].sequence]>>
<1>1. ASSUME NEW s \in Server, ServerStep(s) PROVE Map!RNext
  <2>0. /\ Peer(s) \in Server /\ \A q \in Server \ {s} : q = Peer(s)
    BY ServerFacts
  <2>1. \A q \in Server \ {s} : View(q)' = View(q) /\ server'[q].sequence = server[q].sequence
    BY <1>1, <2>0, ServerStepMaps, ApartView
  <2>a. \A q \in Server : View(q) = IF server[q].kvmap = Null \/ q \in tainted THEN NoMsg
                                    ELSE Names(server[q].kvmap)
    BY DEF View, Holder, NoTable
  <2>b. \A q \in Server : View(q)' = IF server'[q].kvmap = Null \/ q \in tainted' THEN NoMsg
                                     ELSE Names(server'[q].kvmap)
    BY DEF View, Holder, NoTable
  <2>2. Map!Others(s)
    BY <2>1, <2>a, <2>b DEF Map!Others
  <2>3. MapForget(s) \/ MapAdvance(s) \/ MapTakeOver(s)
    BY <1>1, ServerStepMaps
  <2>4. MapForget(s) => Map!Forget(s)
    BY <2>2, <2>a, <2>b DEF MapForget, Map!Forget
  <2>5. MapAdvance(s) => Map!Advance(s)
    BY <2>2, <2>a, <2>b DEF MapAdvance, Map!Advance
  <2>6. MapTakeOver(s) => Map!TakeOver(s)
    <3> HAVE MapTakeOver(s)
    <3>1. Map!Whole(s)
      BY <2>b DEF MapTakeOver, Map!Whole
    <3>2. [t \in Server |-> server[t].sequence][s] = server[s].sequence
      OBVIOUS
    <3>3. Map!IsPrefix(SubSeq(log, 1, [t \in Server |-> server[t].sequence][s]), log')
      <4>1. IsPrefix(SubSeq(log, 1, server[s].sequence), log')
        BY DEF MapTakeOver
      <4>2. Map!IsPrefix(SubSeq(log, 1, server[s].sequence), log')
        BY <4>1 DEF IsPrefix, Map!IsPrefix
      <4> QED BY <3>2, <4>2
    <3>4. (IF server[s].kvmap = Null \/ s \in tainted THEN NoMsg
           ELSE Names(server[s].kvmap)) # NoMsg
      BY <2>a DEF MapTakeOver
    <3>5. [t \in Server |-> IF server[t].kvmap = Null \/ t \in tainted THEN NoMsg
                             ELSE Names(server[t].kvmap)][s] # NoMsg
      BY <3>4
    <3> QED BY <2>2, <3>1, <3>3, <3>5 DEF Map!TakeOver
  <2> QED BY <2>3, <2>4, <2>5, <2>6 DEF Map!RNext
<1>2. ASSUME UNCHANGED serverVars
      PROVE  UNCHANGED <<log, [s \in Server |-> View(s)], [s \in Server |-> server[s].sequence]>>
  BY <1>2 DEF serverVars, View, Holder, NoTable, Names
<1> QED
  BY <1>1, <1>2 DEF Next, vars, Subscribe, AgentStep, Set, SnapshotMessage, UpdateMessage,
                    HugzMessage, Failover

\* The initial states map to initial states.
LEMMA MapInit == Init => Map!RInit
<1> SUFFICES ASSUME Init PROVE Map!RInit
  OBVIOUS
<1>0. ServerInv
  BY ServerInvInit
<1>1. /\ log = <<>> /\ tainted = {}
      /\ \A s \in Server : server[s].sequence = 0
      /\ \A s \in Server : server[s].kvmap \in {EmptyMap, Null}
  BY DEF Init, ServerInit, Down
<1>2. \A s \in Server : View(s) \in {NoMsg, Map!TableOf(<<>>, 0)}
  BY <1>1, EmptyTable DEF View, Holder, NoTable
<1>3. \A s \in Server : View(s) = IF server[s].kvmap = Null \/ s \in tainted THEN NoMsg
                                  ELSE Names(server[s].kvmap)
  BY DEF View, Holder, NoTable
<1> QED BY <1>1, <1>2, <1>3 DEF Map!RInit

\* The two servers implement the replicated map: through crashes, takeovers and
\* restarts every server that has a table, and one that counts, has exactly what
\* some prefix of one log of updates makes, and only the server that has the
\* whole log, or takes over, adds to it.
THEOREM CloneImplements == Spec => Implements
<1>1. ServerInv /\ ServerInv' /\ [Next]_vars
        => [Map!RNext]_<<log, [s \in Server |->
                                 IF server[s].kvmap = Null \/ s \in tainted THEN NoMsg
                                 ELSE Names(server[s].kvmap)],
                        [s \in Server |-> server[s].sequence]>>
  <2> SUFFICES ASSUME ServerInv, ServerInv', [Next]_vars
               PROVE  Map!RNext \/ UNCHANGED <<log, [s \in Server |->
                                 IF server[s].kvmap = Null \/ s \in tainted THEN NoMsg
                                 ELSE Names(server[s].kvmap)],
                        [s \in Server |-> server[s].sequence]>>
    OBVIOUS
  <2> QED BY MapNext DEF View, Holder, NoTable
<1> QED BY <1>1, MapInit, CloneInvariant, PTL DEF Spec, Implements, Map!RSpec

(* What was sent to a server. *)

\* The uuids of the part of the log that s has, and of what s has not collected.
Has(s) == {log[i].uuid : i \in 1 .. server[s].sequence}
Queued(s) == UNION {Uuids(updates[<<a, s>>]) : a \in Agent}
Held(s) == Uuids(server[s].pending)

\* No two updates that s is still to collect have the same uuid.
OneOf(s) ==
    \A a, b \in Agent : \A i \in DOMAIN updates[<<a, s>>], j \in DOMAIN updates[<<b, s>>] :
        updates[<<a, s>>][i].uuid = updates[<<b, s>>][j].uuid => a = b /\ i = j

KeptOf(s) ==
    /\ s \notin tainted =>
         /\ sent[s] \subseteq Held(s) \cup Queued(s) \cup Has(s)
         /\ ~ Active(s) => Held(s) \cap Queued(s) \subseteq Has(s)
         /\ Held(s) \subseteq 1 .. sets
    /\ ~ Up(s) => server[s].pending = <<>>
    /\ Queued(s) \subseteq 1 .. sets
    /\ OneOf(s)

Kept == Uuids(log) \subseteq 1 .. sets /\ \A s \in Server : KeptOf(s)

\* The uuids of a list, after an append, a removal, or without its head.
LEMMA UuidsOf ==
    ASSUME NEW list \in Seq(Update)
    PROVE  /\ Uuids(list) = {list[i].uuid : i \in 1 .. Len(list)}
           /\ \A m \in Update : Uuids(Append(list, m)) = Uuids(list) \cup {m.uuid}
           /\ list # <<>> => /\ Uuids(Tail(list)) \subseteq Uuids(list)
                             /\ Head(list) \in Update
                             /\ Head(list).uuid \in Uuids(list)
                             /\ Uuids(list) \subseteq Uuids(Tail(list)) \cup {Head(list).uuid}
           /\ \A n \in 1 .. Len(list) :
                /\ Uuids(RemoveAt(list, n)) \subseteq Uuids(list)
                /\ Uuids(list) \subseteq Uuids(RemoveAt(list, n)) \cup {list[n].uuid}
<1>1. Len(list) \in Nat /\ DOMAIN list = 1 .. Len(list)
  OBVIOUS
<1>2. Uuids(list) = {list[i].uuid : i \in 1 .. Len(list)}
  BY <1>1 DEF Uuids
<1>3. ASSUME NEW m \in Update PROVE Uuids(Append(list, m)) = Uuids(list) \cup {m.uuid}
  <2>1. /\ DOMAIN Append(list, m) = 1 .. Len(list) + 1
        /\ \A i \in 1 .. Len(list) : Append(list, m)[i] = list[i]
        /\ Append(list, m)[Len(list) + 1] = m
    BY <1>1
  <2>2. Uuids(Append(list, m)) = {Append(list, m)[i].uuid : i \in 1 .. Len(list) + 1}
    BY <2>1 DEF Uuids
  <2>3. \A i \in 1 .. Len(list) + 1 : i \in 1 .. Len(list) \/ i = Len(list) + 1
    BY <1>1
  <2>4. 1 .. Len(list) \subseteq 1 .. Len(list) + 1 /\ Len(list) + 1 \in 1 .. Len(list) + 1
    BY <1>1
  <2> QED BY <1>2, <2>1, <2>2, <2>3, <2>4
<1>4. ASSUME list # <<>>
      PROVE  /\ Uuids(Tail(list)) \subseteq Uuids(list)
             /\ Head(list) \in Update
             /\ Head(list).uuid \in Uuids(list)
             /\ Uuids(list) \subseteq Uuids(Tail(list)) \cup {Head(list).uuid}
  <2>1. /\ DOMAIN Tail(list) = 1 .. Len(list) - 1 /\ Len(list) >= 1
        /\ \A i \in 1 .. Len(list) - 1 : Tail(list)[i] = list[i + 1]
        /\ Head(list) = list[1]
    BY <1>1, <1>4
  <2>2. Uuids(Tail(list)) = {Tail(list)[i].uuid : i \in 1 .. Len(list) - 1}
    BY <2>1 DEF Uuids
  <2>3. /\ \A i \in 1 .. Len(list) - 1 : i + 1 \in 1 .. Len(list)
        /\ \A i \in 1 .. Len(list) : i = 1 \/ (i - 1 \in 1 .. Len(list) - 1 /\ (i - 1) + 1 = i)
        /\ 1 \in 1 .. Len(list)
    BY <1>1, <2>1
  <2>4. Uuids(Tail(list)) \subseteq Uuids(list)
    BY <1>2, <2>1, <2>2, <2>3
  <2>5. ASSUME NEW i \in 1 .. Len(list)
        PROVE  list[i].uuid \in Uuids(Tail(list)) \cup {Head(list).uuid}
    <3>1. CASE i = 1
      BY <2>1, <3>1
    <3>2. CASE i # 1
      <4>1. i - 1 \in 1 .. Len(list) - 1 /\ (i - 1) + 1 = i
        BY <2>3, <3>2
      <4>2. Tail(list)[i - 1] = list[i]
        BY <2>1, <4>1
      <4> QED BY <2>2, <4>1, <4>2
    <3> QED BY <3>1, <3>2
  <2> QED BY <1>2, <2>1, <2>3, <2>4, <2>5
<1>5. ASSUME NEW n \in 1 .. Len(list)
      PROVE  /\ Uuids(RemoveAt(list, n)) \subseteq Uuids(list)
             /\ Uuids(list) \subseteq Uuids(RemoveAt(list, n)) \cup {list[n].uuid}
  <2> PICK rest : rest = RemoveAt(list, n)
    OBVIOUS
  <2>1. /\ rest \in Seq(Update) /\ Len(rest) = Len(list) - 1
        /\ \A i \in 1 .. Len(list) - 1 : rest[i] = IF i < n THEN list[i] ELSE list[i + 1]
    BY RemoveAtIs
  <2>2. Uuids(rest) = {rest[i].uuid : i \in 1 .. Len(list) - 1}
    <3>1. DOMAIN rest = 1 .. Len(list) - 1
      BY <2>1
    <3> QED BY <3>1 DEF Uuids
  <2>3. ASSUME NEW i \in 1 .. Len(list) - 1 PROVE rest[i].uuid \in Uuids(list)
    <3>1. i \in 1 .. Len(list) /\ i + 1 \in 1 .. Len(list)
      BY <1>1
    <3> QED BY <1>2, <2>1, <3>1
  <2>4. ASSUME NEW i \in 1 .. Len(list), i # n PROVE list[i].uuid \in Uuids(rest)
    <3>1. CASE i < n
      <4>1. i \in 1 .. Len(list) - 1
        BY <1>1, <3>1
      <4> QED BY <2>1, <2>2, <3>1, <4>1
    <3>2. CASE ~ (i < n)
      <4>1. i - 1 \in 1 .. Len(list) - 1 /\ ~ (i - 1 < n) /\ (i - 1) + 1 = i
        BY <1>1, <2>4, <3>2
      <4>2. rest[i - 1] = list[i]
        BY <2>1, <4>1
      <4> QED BY <2>2, <4>1, <4>2
    <3> QED BY <3>1, <3>2
  <2>5. Uuids(list) \subseteq Uuids(rest) \cup {list[n].uuid}
    BY <1>2, <2>4
  <2> QED BY <2>2, <2>3, <2>5
<1> QED BY <1>2, <1>3, <1>4, <1>5

\* A uuid is queued when the queue of some agent has it.
LEMMA QueuedIs ==
    ASSUME NEW s
    PROVE  /\ \A u : u \in Queued(s) <=> \E a \in Agent : u \in Uuids(updates[<<a, s>>])
           /\ \A u : u \in Queued(s)' <=> \E a \in Agent : u \in Uuids(updates'[<<a, s>>])
BY DEF Queued

\* What is queued depends on the queues alone.
LEMMA SameQueued ==
    ASSUME NEW s, \A a \in Agent : updates'[<<a, s>>] = updates[<<a, s>>]
    PROVE  Queued(s)' = Queued(s)
<1>1. \A a \in Agent : Uuids(updates'[<<a, s>>]) = Uuids(updates[<<a, s>>])
  OBVIOUS
<1> QED BY <1>1, QueuedIs

\* The peer of a server that takes a step keeps what it has.
LEMMA OtherKept ==
    ASSUME Kept, NEW q \in Server, server'[q] = server[q],
           \A a \in Agent : updates'[<<a, q>>] = updates[<<a, q>>],
           sent'[q] \subseteq sent[q], q \notin tainted' => q \notin tainted, sets' = sets,
           q \notin tainted' => \A i \in 1 .. server[q].sequence : log'[i] = log[i]
    PROVE  KeptOf(q)'
<1>1. KeptOf(q)
  BY DEF Kept
<1>2. Queued(q)' = Queued(q) /\ Held(q)' = Held(q) /\ (Active(q)' <=> Active(q))
      /\ (Up(q)' <=> Up(q))
  <2>1. Queued(q)' = Queued(q)
    BY SameQueued
  <2> QED BY <2>1 DEF Held, Active, Up
<1>3. q \notin tainted' => Has(q)' = Has(q)
  BY DEF Has
<1>4. OneOf(q)' <=> OneOf(q)
  BY DEF OneOf
<1> QED BY <1>1, <1>2, <1>3, <1>4 DEF KeptOf

\* A step of s that collects nothing.
LEMMA OwnKept ==
    ASSUME Kept, NEW s \in Server,
           \A a \in Agent : updates'[<<a, s>>] = updates[<<a, s>>],
           sent'[s] \subseteq sent[s], sets' = sets,
           s \notin tainted' =>
              /\ s \notin tainted
              /\ Has(s) \subseteq Has(s)'
              /\ Held(s) \subseteq Held(s)' \cup Has(s)'
              /\ Held(s)' \subseteq Held(s) \cup (Has(s)' \cap 1 .. sets)
              /\ Active(s)' \/ ~ Active(s),
           Up(s)' \/ server'[s].pending = <<>>
    PROVE  KeptOf(s)'
<1>1. KeptOf(s)
  BY DEF Kept
<1>2. Queued(s)' = Queued(s)
  BY SameQueued
<1>3. /\ Queued(s) \subseteq 1 .. sets
      /\ OneOf(s)
      /\ s \notin tainted =>
         /\ sent[s] \subseteq Held(s) \cup Queued(s) \cup Has(s)
         /\ ~ Active(s) => Held(s) \cap Queued(s) \subseteq Has(s)
         /\ Held(s) \subseteq 1 .. sets
  BY <1>1 DEF KeptOf
<1>4. s \notin tainted' =>
         /\ sent'[s] \subseteq Held(s)' \cup Queued(s)' \cup Has(s)'
         /\ ~ Active(s)' => Held(s)' \cap Queued(s)' \subseteq Has(s)'
         /\ Held(s)' \subseteq 1 .. sets'
  BY <1>2, <1>3
<1>5. OneOf(s)' <=> OneOf(s)
  BY DEF OneOf
<1> QED BY <1>2, <1>3, <1>4, <1>5 DEF KeptOf

\* The death of s.
LEMMA DieKept ==
    ASSUME ServerInv, Kept, NEW s \in Server, Up(s), Dies(s), ServerEffect
    PROVE  Kept'
<1> PICK q \in Server : q = Peer(s)
  BY ServerFacts
<1>0. /\ q # s /\ \A t \in Server : t = s \/ t = q
      /\ server \in [Server -> ServerRecord]
  BY ServerFacts, ServerRecords
<1>1. /\ server' = [server EXCEPT ![s] = Down]
      /\ log' = log /\ sets' = sets
      /\ updates' = [p \in Agent \X Server |-> IF p[2] = s THEN <<>> ELSE updates[p]]
      /\ q \notin tainted' => q \notin tainted
  BY <1>0 DEF Dies, Die, Closed, ServerEffect
<1>2. server'[s] = Down /\ server'[q] = server[q]
  BY <1>0, <1>1
<1>3. sent'[s] = {} /\ sent'[q] \subseteq sent[q]
  <2>1. server'[s].state = "DOWN"
    BY <1>2 DEF Down
  <2> QED BY <2>1 DEF ServerEffect
<1>4. \A a \in Agent : updates'[<<a, s>>] = <<>> /\ updates'[<<a, q>>] = updates[<<a, q>>]
  BY <1>0, <1>1
<1>5. KeptOf(q)'
  BY <1>1, <1>2, <1>3, <1>4, OtherKept
<1>6. KeptOf(s)'
  <2>1. server'[s].pending = <<>>
    BY <1>2 DEF Down
  <2>2. Held(s)' = {} /\ Queued(s)' = {}
    <3>1. Uuids(<<>>) = {}
      BY DEF Uuids
    <3>2. Held(s)' = {}
      BY <2>1, <3>1 DEF Held
    <3>3. \A a \in Agent : Uuids(updates'[<<a, s>>]) = {}
      BY <1>4, <3>1
    <3> QED BY <3>2, <3>3, QueuedIs
  <2>3. \A a \in Agent : DOMAIN updates'[<<a, s>>] = {}
    <3>1. DOMAIN <<>> = {}
      OBVIOUS
    <3> QED BY <1>4, <3>1
  <2> QED BY <1>3, <2>1, <2>2, <2>3 DEF KeptOf, OneOf
<1>7. Uuids(log)' \subseteq 1 .. sets'
  BY <1>1 DEF Kept, Uuids
<1> QED BY <1>0, <1>5, <1>6, <1>7 DEF Kept

\* What remains to be shown of a step of s that is not its death.
LEMMA StepKept ==
    ASSUME ServerInv, Kept, NEW s \in Server, ServerEffect,
           \A q \in Server : q # s => server'[q] = server[q],
           \A q \in Server, a \in Agent : q # s => updates'[<<a, q>>] = updates[<<a, q>>],
           \A q \in Server : q # s /\ q \notin tainted' =>
              q \notin tainted /\ \A i \in 1 .. server[q].sequence : log'[i] = log[i],
           Uuids(log') \subseteq 1 .. sets,
           KeptOf(s)'
    PROVE  Kept'
<1>1. sets' = sets /\ \A q \in Server : sent'[q] \subseteq sent[q]
  BY DEF ServerEffect
<1>2. \A q \in Server : q # s => KeptOf(q)'
  BY <1>1, OtherKept
<1>3. Uuids(log)' \subseteq 1 .. sets'
  BY <1>1 DEF Uuids
<1> QED BY <1>2, <1>3 DEF Kept

\* What a server that numbers updates does to the log.
LEMMA WriteKeeps ==
    ASSUME ServerInv, Kept, NEW s \in Server, Runs(s), Active(s) \/ MayTakeOver(s),
           NEW msgs \in Seq(Published), NEW r \in ServerRecord, Writes_(s, msgs, r)
    PROVE  /\ \A q \in Server : q # s => server'[q] = server[q]
           /\ server'[s] = r
           /\ \A q \in Server : q # s /\ q \notin tainted' =>
                 q \notin tainted /\ \A i \in 1 .. server[q].sequence : log'[i] = log[i]
           /\ s \notin tainted' =>
                 s \notin tainted /\ Has(s) \subseteq Has(s)' /\ Uuids(msgs) \subseteq Has(s)'
           /\ (Holder(s) => Uuids(msgs) \subseteq 1 .. sets) => Uuids(log') \subseteq 1 .. sets
           /\ Active(s)' /\ Up(s)'
<1> PICK n \in Nat : n = server[s].sequence
  BY ServerFacts
<1> PICK len \in Nat : len = Len(msgs)
  OBVIOUS
<1> PICK q \in Server : q = Peer(s)
  BY ServerFacts
<1>0. /\ server \in [Server -> ServerRecord] /\ q # s /\ \A t \in Server : t = s \/ t = q
      /\ log \in Seq(Published) /\ Len(log) \in Nat /\ CopyOf(q) /\ RolesOf(q)
  BY ServerFacts, ServerRecords
<1>1. /\ server' = [server EXCEPT ![s] = r] /\ tainted' = tainted
      /\ r.state = "ACTIVE" /\ r.sequence = n + len
      /\ NoTable(s) => msgs = <<>>
      /\ ~ Holder(s) => log' = log
  BY DEF Writes_
<1>2. server'[s] = r /\ server'[q] = server[q]
  BY <1>0, <1>1
<1>3. Active(s)' /\ Up(s)'
  BY <1>1, <1>2 DEF Active, Up
<1>4. Holder(s) => /\ log' \in Seq(Published) /\ Len(log') = n + len /\ n <= Len(log)
                   /\ \A i \in 1 .. n : log'[i] = log[i]
                   /\ \A i \in 1 .. len : log'[n + i] = msgs[i]
                   /\ Active(s) => n = Len(log)
  BY WriteLog
<1>5. ASSUME q \notin tainted, NEW i \in 1 .. server[q].sequence
      PROVE  log'[i] = log[i]
  <2>1. CASE ~ Holder(s)
    BY <1>1, <2>1
  <2>2. CASE Holder(s) /\ MayTakeOver(s)
    <3>1. server[q].sequence = 0
      BY <2>2, PeerOfWriter
    <3> QED BY <3>1
  <2>3. CASE Holder(s) /\ Active(s)
    <3>1. server[q].sequence \in Nat /\ server[q].sequence <= Len(log)
      BY <1>0, <1>5, ServerFacts DEF CopyOf, RolesOf
    <3>2. i \in 1 .. n
      BY <1>0, <1>4, <2>3, <3>1
    <3> QED BY <1>4, <2>3, <3>2
  <2> QED BY <2>1, <2>2, <2>3
<1>6. Uuids(msgs) = {msgs[i].uuid : i \in 1 .. len}
  <2>1. msgs \in Seq(Update)
    BY PublishedIsUpdate
  <2> QED BY <2>1, UuidsOf
<1>7. ASSUME s \notin tainted
      PROVE  Has(s) \subseteq Has(s)' /\ Uuids(msgs) \subseteq Has(s)'
  <2>0. Has(s)' = {log'[i].uuid : i \in 1 .. n + len} /\ Has(s) = {log[i].uuid : i \in 1 .. n}
    BY <1>1, <1>2 DEF Has
  <2>1. CASE Holder(s)
    <3>1. ASSUME NEW i \in 1 .. n PROVE log[i].uuid \in Has(s)'
      <4>1. i \in 1 .. n + len /\ log'[i] = log[i]
        BY <1>4, <2>1
      <4> QED BY <2>0, <4>1
    <3>2. ASSUME NEW i \in 1 .. len PROVE msgs[i].uuid \in Has(s)'
      <4>1. n + i \in 1 .. n + len /\ log'[n + i] = msgs[i]
        BY <1>4, <2>1
      <4> QED BY <2>0, <4>1
    <3> QED BY <1>6, <2>0, <3>1, <3>2
  <2>2. CASE ~ Holder(s)
    <3>1. NoTable(s)
      BY <1>7, <2>2 DEF Holder
    <3>2. len = 0 /\ log' = log /\ Uuids(msgs) = {}
      BY <1>1, <1>6, <2>2, <3>1
    <3> QED BY <2>0, <3>2
  <2> QED BY <2>1, <2>2
<1>8. ASSUME Holder(s) => Uuids(msgs) \subseteq 1 .. sets
      PROVE  Uuids(log') \subseteq 1 .. sets
  <2>1. CASE ~ Holder(s)
    BY <1>1, <2>1 DEF Kept
  <2>2. CASE Holder(s)
    <3>1. log' \in Seq(Update) /\ log \in Seq(Update)
      BY <1>0, <1>4, <2>2, PublishedIsUpdate
    <3>2. /\ Uuids(log') = {log'[i].uuid : i \in 1 .. n + len}
          /\ Uuids(log) = {log[i].uuid : i \in 1 .. Len(log)}
      <4>1. Len(log') = n + len
        BY <1>4, <2>2
      <4> QED BY <3>1, <4>1, UuidsOf
    <3>3. ASSUME NEW i \in 1 .. n + len PROVE log'[i].uuid \in 1 .. sets
      <4>1. CASE i <= n
        <5>1. i \in 1 .. n /\ i \in 1 .. Len(log)
          BY <1>0, <1>4, <2>2, <4>1
        <5>2. log'[i] = log[i] /\ log[i].uuid \in Uuids(log)
          BY <1>4, <2>2, <3>2, <5>1
        <5> QED BY <5>2 DEF Kept
      <4>2. CASE ~ (i <= n)
        <5>1. i - n \in 1 .. len /\ n + (i - n) = i
          BY <4>2
        <5>2. log'[i] = msgs[i - n] /\ msgs[i - n].uuid \in Uuids(msgs)
          BY <1>4, <1>6, <2>2, <5>1
        <5> QED BY <1>8, <2>2, <5>2
      <4> QED BY <4>1, <4>2
    <3> QED BY <3>2, <3>3
  <2> QED BY <2>1, <2>2
<1> QED BY <1>0, <1>1, <1>2, <1>3, <1>5, <1>7, <1>8

\* A takeover moves the list into the log.
LEMMA TakeOverKept ==
    ASSUME ServerInv, Kept, NEW s \in Server, MayTakeOver(s), ServerEffect,
           NoTable(s) => server[s].pending = <<>>,
           server' = [server EXCEPT ![s] = NewActive(s)], TakesOver(s),
           UNCHANGED <<subs, pubs, tainted, crashes, updates>>
    PROVE  Kept'
<1> PICK msgs : msgs = Renumbered(server[s].pending, server[s].sequence)
  OBVIOUS
<1> PICK r : r = NewActive(s)
  OBVIOUS
<1>1. msgs \in Seq(Published) /\ r \in ServerRecord /\ Writes_(s, msgs, r)
  BY TakeOverWrites
<1>2. Runs(s)
  BY DEF MayTakeOver
<1>3. /\ \A q \in Server : q # s => server'[q] = server[q]
      /\ server'[s] = r
      /\ \A q \in Server : q # s /\ q \notin tainted' =>
                 q \notin tainted /\ \A i \in 1 .. server[q].sequence : log'[i] = log[i]
      /\ s \notin tainted' =>
                 s \notin tainted /\ Has(s) \subseteq Has(s)' /\ Uuids(msgs) \subseteq Has(s)'
      /\ (Holder(s) => Uuids(msgs) \subseteq 1 .. sets) => Uuids(log') \subseteq 1 .. sets
      /\ Active(s)' /\ Up(s)'
  BY <1>1, <1>2, WriteKeeps
<1>4. Uuids(msgs) = Held(s)
  <2>1. server[s].pending \in Seq(Update) /\ server[s].sequence \in Nat
    BY ServerFacts
  <2>2. /\ DOMAIN msgs = 1 .. Len(server[s].pending)
        /\ \A i \in 1 .. Len(server[s].pending) :
             /\ msgs[i] = Numbered(server[s].pending[i], server[s].sequence + i)
             /\ server[s].pending[i] \in Update
    BY <2>1, RenumberedType
  <2>3. \A i \in 1 .. Len(server[s].pending) : msgs[i].uuid = server[s].pending[i].uuid
    BY <2>2 DEF Numbered, Update, Message
  <2>4. Uuids(msgs) = {msgs[i].uuid : i \in 1 .. Len(server[s].pending)}
    BY <2>2 DEF Uuids
  <2>5. Held(s) = {server[s].pending[i].uuid : i \in 1 .. Len(server[s].pending)}
    BY <2>1, UuidsOf DEF Held
  <2> QED BY <2>3, <2>4, <2>5
<1>5. Held(s)' = {}
  <2>1. server'[s].pending = <<>>
    <3>1. r.pending = <<>>
      BY ServerFacts, NewActiveIs
    <3> QED BY <1>3, <3>1
  <2>2. Uuids(<<>>) = {}
    BY DEF Uuids
  <2> QED BY <2>1, <2>2 DEF Held
<1>6. Holder(s) => Uuids(msgs) \subseteq 1 .. sets
  BY <1>4 DEF Kept, KeptOf, Holder
<1>7. sent'[s] \subseteq sent[s] /\ sets' = sets
  BY DEF ServerEffect
<1>8. KeptOf(s)'
  BY <1>3, <1>4, <1>5, <1>7, OwnKept
<1> QED BY <1>3, <1>6, <1>8, StepKept

\* The uuids of the values of a table that counts are in the log.
LEMMA ValuesInLog ==
    ASSUME ServerInv, NEW s \in Server, Holder(s), NEW k \in Key, server[s].kvmap[k] # NoMsg
    PROVE  server[s].kvmap[k].uuid \in Uuids(log)
<1> PICK n \in Nat : n = server[s].sequence
  BY ServerFacts
<1>1. /\ server[s].kvmap \in Table /\ Names(server[s].kvmap) = Map!TableOf(log, n)
      /\ n <= Len(log) /\ log \in Seq(Published) /\ Len(log) \in Nat
  BY ServerFacts DEF Holder, CopyOf, TableIs
<1>2. Map!TableOf(log, n)[k] = server[s].kvmap[k].uuid
  BY <1>1, NamesIs
<1>3. server[s].kvmap[k].uuid # NoMsg
  <2>1. server[s].kvmap[k] \in Update
    BY <1>1 DEF Table
  <2>2. server[s].kvmap[k].uuid \in Nat
    BY <2>1, UpdateFields
  <2> QED BY <2>2, CloneAssumption
<1>4. ~ NoneWith(log, n, k)
  BY <1>2, <1>3, TableOfIs
<1>5. PICK i \in 1 .. n : LastWith(log, n, k, i)
  BY <1>4, LastOrNone
<1>6. Map!TableOf(log, n)[k] = log[i].uuid
  BY <1>2, <1>3, <1>5, TableOfIs
<1>7. i \in DOMAIN log
  BY <1>1
<1> QED BY <1>2, <1>6, <1>7 DEF Uuids

\* A flush adds no uuid to the log that is not there.
LEMMA FlushKept ==
    ASSUME ServerInv, Kept, NEW s \in Server, Flush(s), ServerEffect
    PROVE  Kept'
<1>0. server \in [Server -> ServerRecord]
  BY ServerFacts, ServerRecords
<1>1. PICK msgs \in Seq(Published), r \in ServerRecord :
             /\ Runs(s) /\ ~ NoTable(s)
             /\ \A i \in 1 .. Len(msgs) : /\ msgs[i].seq = server[s].sequence + i
                                          /\ \E k \in Key : server[s].kvmap[k] # NoMsg
                                                 /\ msgs[i].uuid = server[s].kvmap[k].uuid
                                                 /\ msgs[i].key = k
             /\ r.state = server[s].state /\ r.asking = server[s].asking
             /\ r.pending = server[s].pending
             /\ r.sequence = server[s].sequence + Len(msgs)
             /\ r.kvmap = Stored(server[s].kvmap, msgs)
             /\ r.kvmap \in Table /\ Tidy(r.kvmap)
             /\ server' = [server EXCEPT ![s] = r]
             /\ out' = Publish(s, msgs, Wanted)
             /\ log' = IF Active(s) /\ s \notin tainted THEN log \o msgs ELSE log
             /\ tainted' = IF Active(s) THEN tainted ELSE tainted \cup {s}
             /\ UNCHANGED <<subs, pubs, ask, snap, updates, crashes>>
  BY FlushIs
<1>2. server'[s] = r /\ \A q \in Server : q # s => server'[q] = server[q]
  BY <1>0, <1>1
<1>3. Held(s)' = Held(s) /\ sent'[s] \subseteq sent[s] /\ sets' = sets /\ Up(s)'
  <2>1. server'[s].pending = server[s].pending
    BY <1>1, <1>2
  <2> QED BY <1>1, <1>2, <2>1 DEF ServerEffect, Held, Up, Runs
<1>4. CASE Active(s)
  <2>1. Writes_(s, msgs, r)
    BY <1>1, <1>4, FlushWrites
  <2>2. /\ \A q \in Server : q # s /\ q \notin tainted' =>
                 q \notin tainted /\ \A i \in 1 .. server[q].sequence : log'[i] = log[i]
        /\ s \notin tainted' =>
                 s \notin tainted /\ Has(s) \subseteq Has(s)' /\ Uuids(msgs) \subseteq Has(s)'
        /\ (Holder(s) => Uuids(msgs) \subseteq 1 .. sets) => Uuids(log') \subseteq 1 .. sets
        /\ Active(s)'
    BY <1>1, <1>4, <2>1, WriteKeeps
  <2>3. Holder(s) => Uuids(msgs) \subseteq 1 .. sets
    <3>1. DOMAIN msgs = 1 .. Len(msgs)
      OBVIOUS
    <3>2. Holder(s) => Uuids(msgs) \subseteq Uuids(log)
      BY <1>1, <3>1, ValuesInLog DEF Uuids
    <3> QED BY <3>2 DEF Kept
  <2>4. KeptOf(s)'
    BY <1>1, <1>3, <2>2, OwnKept
  <2> QED BY <1>1, <1>2, <2>2, <2>3, <2>4, StepKept
<1>5. CASE ~ Active(s)
  <2>1. s \in tainted' /\ log' = log /\ \A q \in Server : q # s => (q \in tainted' <=> q \in tainted)
    BY <1>1, <1>5
  <2>2. KeptOf(s)'
    BY <1>1, <1>3, <2>1, OwnKept
  <2>3. Uuids(log') \subseteq 1 .. sets
    BY <2>1 DEF Kept
  <2> QED BY <1>1, <1>2, <2>1, <2>2, <2>3, StepKept
<1> QED BY <1>4, <1>5

\* A step of s that leaves alone the log, the updates and its own list.
LEMMA PlainKept ==
    ASSUME ServerInv, Kept, NEW s \in Server, ServerEffect,
           \A q \in Server : q # s => server'[q] = server[q],
           log' = log, updates' = updates, tainted \subseteq tainted',
           server'[s].pending = server[s].pending,
           server'[s].sequence \in Nat, server'[s].sequence >= server[s].sequence,
           Up(s)' \/ server'[s].pending = <<>>, Active(s)' \/ ~ Active(s)
    PROVE  Kept'
<1>1. server[s].sequence \in Nat
  BY ServerFacts
<1>2. Held(s)' = Held(s) /\ Has(s) \subseteq Has(s)'
  <2>1. 1 .. server[s].sequence \subseteq 1 .. server'[s].sequence
    BY <1>1
  <2>2. Has(s)' = {log[i].uuid : i \in 1 .. server'[s].sequence}
    BY DEF Has
  <2> QED BY <2>1, <2>2 DEF Held, Has
<1>3. sent'[s] \subseteq sent[s] /\ sets' = sets
  BY DEF ServerEffect
<1>4. Held(s) \subseteq Held(s)' \cup Has(s)'
      /\ Held(s)' \subseteq Held(s) \cup (Has(s)' \cap 1 .. sets)
  BY <1>2
<1>5. KeptOf(s)'
  BY <1>2, <1>3, <1>4, OwnKept
<1>6. Uuids(log') \subseteq 1 .. sets
  BY DEF Kept
<1> QED BY <1>5, <1>6, StepKept

\* A server that starts has been sent nothing.
LEMMA StartKept ==
    ASSUME ServerInv, Kept, NEW s \in Server, Start(s), ServerEffect
    PROVE  Kept'
<1>0. server \in [Server -> ServerRecord] /\ RolesOf(s)
  BY ServerFacts, ServerRecords
<1>1. /\ ~ Up(s) /\ UNCHANGED <<log, updates, tainted>>
      /\ server'[s].state = StartState(s)
      /\ server'[s].pending = <<>> /\ server'[s].sequence = 0
      /\ \A q \in Server : q # s => server'[q] = server[q]
  BY <1>0 DEF Start, Down, netVars
<1>2. server[s].pending = <<>> /\ server[s].sequence = 0 /\ ~ Active(s)
  BY <1>0, <1>1 DEF Kept, KeptOf, RolesOf, Up, Active
<1>3. Up(s)'
  BY <1>1 DEF Up, StartState
<1>4. server'[s].sequence \in Nat /\ server'[s].sequence >= server[s].sequence
  BY <1>1, <1>2
<1> QED BY <1>1, <1>2, <1>3, <1>4, PlainKept

\* Of the outcomes of a state from the peer only the takeover moves the list.
LEMMA RecvStateKept ==
    ASSUME ServerInv, Kept, NEW s \in Server, RecvState(s), ServerEffect
    PROVE  Kept'
<1>0. server \in [Server -> ServerRecord] /\ ServerTypeOK /\ server[s].sequence \in Nat
  BY ServerFacts, ServerRecords
<1>1. CASE TurnsPassive(s)
  <2>1. /\ UNCHANGED <<log, updates, tainted>>
        /\ server'[s].pending = server[s].pending
        /\ server'[s].sequence = server[s].sequence
        /\ server'[s].state = "PASSIVE" /\ ~ Active(s)
        /\ \A q \in Server : q # s => server'[q] = server[q]
    BY <1>0, <1>1 DEF TurnsPassive, ServerRecord, netVars, Active
  <2>2. Up(s)' /\ server'[s].sequence \in Nat /\ server'[s].sequence >= server[s].sequence
    BY <1>0, <2>1 DEF Up
  <2> QED BY <2>1, <2>2, PlainKept
<1>2. CASE Runs(s) /\ Dies(s)
  BY <1>2, DieKept DEF Runs
<1>3. CASE /\ MayTakeOver(s) /\ (NoTable(s) => server[s].pending = <<>>)
           /\ server' = [server EXCEPT ![s] = NewActive(s)]
           /\ TakesOver(s)
           /\ UNCHANGED <<subs, pubs, ask, snap, updates, tainted, crashes>>
  BY <1>3, TakeOverKept
<1> QED BY <1>0, <1>1, <1>2, <1>3, RecvCases

\* The same of a request.
LEMMA VoterKept ==
    ASSUME ServerInv, Kept, NEW s \in Server, NEW x \in Agent \cup {Peer(s)}, Voter(s, x),
           ServerEffect
    PROVE  Kept'
<1>0. ServerTypeOK /\ server[s].sequence \in Nat
  BY ServerFacts
<1>1. CASE Runs(s) /\ UNCHANGED <<server, log, tainted, updates>>
  <2>1. /\ Up(s)' /\ (Active(s)' \/ ~ Active(s))
        /\ server'[s].sequence \in Nat /\ server'[s].sequence >= server[s].sequence
    BY <1>0, <1>1 DEF Runs, Up, Active
  <2> QED BY <1>1, <2>1, PlainKept
<1>2. CASE Runs(s) /\ Dies(s)
  BY <1>2, DieKept DEF Runs
<1>3. CASE /\ Replies(s, x) /\ MayTakeOver(s)
           /\ server' = [server EXCEPT ![s] = NewActive(s)]
           /\ TakesOver(s)
  <2>1. ~ NoTable(s) /\ UNCHANGED <<subs, pubs, tainted, crashes, updates>>
    BY <1>3 DEF Replies
  <2> QED BY <1>3, <2>1, TakeOverKept
<1>4. \/ Refuses(s, x)
      \/ Runs(s) /\ Dies(s)
      \/ Replies(s, x) /\ UNCHANGED <<server, out, log>>
      \/ /\ Replies(s, x) /\ MayTakeOver(s)
         /\ server' = [server EXCEPT ![s] = NewActive(s)]
         /\ TakesOver(s)
  BY <1>0, VoterCases
<1>5. Runs(s)
  BY DEF Voter
<1> QED BY <1>1, <1>2, <1>3, <1>4, <1>5 DEF Refuses, Replies

\* Asking for a snapshot moves nothing.
LEMMA AskPeerKept ==
    ASSUME ServerInv, Kept, NEW s \in Server, AskPeer(s), ServerEffect
    PROVE  Kept'
<1>0. server \in [Server -> ServerRecord] /\ server[s].sequence \in Nat
  BY ServerFacts, ServerRecords
<1>1. /\ Runs(s) /\ UNCHANGED <<log, updates, tainted>>
      /\ server'[s].pending = server[s].pending
      /\ server'[s].sequence = server[s].sequence
      /\ server'[s].state = server[s].state
      /\ \A q \in Server : q # s => server'[q] = server[q]
  BY <1>0 DEF AskPeer, ServerRecord
<1>2. /\ Up(s)' /\ (Active(s)' \/ ~ Active(s))
      /\ server'[s].sequence \in Nat /\ server'[s].sequence >= server[s].sequence
  BY <1>0, <1>1 DEF Runs, Up, Active
<1> QED BY <1>1, <1>2, PlainKept

\* A snapshot only adds to the part of the log that the server has.
LEMMA SnapshotLoadedKept ==
    ASSUME ServerInv, Kept, NEW s \in Server, SnapshotLoaded(s), ServerEffect
    PROVE  Kept'
<1>0. server \in [Server -> ServerRecord] /\ RolesOf(s) /\ server[s] \in ServerRecord
  BY ServerFacts, ServerRecords
<1>1. PICK reply \in Seq(Reply), end \in Nat \ {0} :
             /\ reply = snap[FromPeer(s)] /\ end = SelectInSeq(reply, IsEnd)
             /\ reply[end].kthxbai \in Nat
  BY LoadedIs
<1>2. /\ server[s].asking /\ UNCHANGED <<log, updates>> /\ tainted \subseteq tainted'
      /\ server'[s].pending = server[s].pending
      /\ server'[s].sequence = reply[end].kthxbai
      /\ server'[s].state = server[s].state
      /\ \A q \in Server : q # s => server'[q] = server[q]
  BY <1>0, <1>1 DEF SnapshotLoaded, ServerRecord, FromPeer
<1>3. server[s].sequence = 0 /\ Passive(s)
  BY <1>0, <1>2 DEF RolesOf
<1>4. /\ Up(s)' /\ (Active(s)' \/ ~ Active(s))
      /\ server'[s].sequence \in Nat /\ server'[s].sequence >= server[s].sequence
  BY <1>1, <1>2, <1>3 DEF Up, Active, Passive
<1> QED BY <1>2, <1>4, PlainKept

\* The list of what is pending, by its uuids.
LEMMA PendedUuids ==
    ASSUME ServerTypeOK, NEW s \in Server, NEW m \in Update
    PROVE  /\ Uuids(Pended(s, m)) \subseteq Held(s) \cup {m.uuid}
           /\ Held(s) \subseteq Uuids(Pended(s, m)) \cup {m.uuid}
           /\ m.uuid \in Held(s) \/ m.uuid \in Uuids(Pended(s, m))
<1> PICK list \in Seq(Update) : list = server[s].pending
  BY ServerRecords
<1>1. CASE IsPending(s, m)
  <2>1. PICK n \in 1 .. Len(list) : list[n].uuid = m.uuid /\ Pended(s, m) = RemoveAt(list, n)
    BY <1>1, PendedIs
  <2>2. m.uuid \in Uuids(list)
    BY <2>1, UuidsOf
  <2> QED BY <2>1, <2>2, UuidsOf DEF Held
<1>2. CASE ~ IsPending(s, m)
  <2>1. Pended(s, m) = Append(list, m)
    BY <1>2, PendedIs
  <2> QED BY <2>1, UuidsOf DEF Held
<1> QED BY <1>1, <1>2

\* An update of the peer that leaves the list is in the part of the log that
\* the server has.
LEMMA SubscriberKept ==
    ASSUME ServerInv, Kept, NEW s \in Server, Subscriber(s), ServerEffect
    PROVE  Kept'
<1>0. /\ server \in [Server -> ServerRecord] /\ ServerTypeOK /\ server[s] \in ServerRecord
      /\ out[FromPeer(s)] \in Seq(Published) /\ server[s].sequence \in Nat
      /\ Len(log) \in Nat /\ log \in Seq(Published)
  BY ServerFacts, ServerRecords
<1>1. /\ Passive(s) /\ Runs(s) /\ ~ NoTable(s) /\ UNCHANGED <<log, updates, tainted>>
      /\ out[FromPeer(s)] # <<>>
  BY DEF Subscriber, FromPeer
<1> PICK m \in Published : m = Head(out[FromPeer(s)])
  BY <1>0, <1>1
<1>2. m \in Update /\ m.seq \in Nat
  BY PublishedIsUpdate, UpdateFields
<1>3. Dup(m) \in Update /\ Dup(m).uuid = m.uuid
  BY <1>2, DupType DEF Dup, Update, Message
<1>4. /\ server'[s].pending = Pended(s, Dup(m))
      /\ server'[s].sequence = IF m.seq > server[s].sequence THEN m.seq ELSE server[s].sequence
      /\ server'[s].state = server[s].state
      /\ \A q \in Server : q # s => server'[q] = server[q]
  BY <1>0 DEF Subscriber, FromPeer, ServerRecord
<1>5. Up(s)' /\ ~ Active(s)
  BY <1>1, <1>4 DEF Up, Passive, Active
<1>6. sent'[s] \subseteq sent[s] /\ sets' = sets
  BY DEF ServerEffect
<1>7. ASSUME s \notin tainted'
      PROVE  /\ Has(s) \subseteq Has(s)'
             /\ Held(s) \subseteq Held(s)' \cup Has(s)'
             /\ Held(s)' \subseteq Held(s) \cup (Has(s)' \cap 1 .. sets)
  <2>1. PICK k \in 1 .. Len(log) : \E j \in 1 .. k :
             m.seq = j /\ m.uuid = log[j].uuid /\ j <= server[s].sequence + 1
    BY <1>1, <1>7, ReadIs
  <2>2. PICK j \in 1 .. k :
             m.seq = j /\ m.uuid = log[j].uuid /\ j <= server[s].sequence + 1
    BY <2>1
  <2>3. /\ j \in 1 .. server'[s].sequence /\ j \in 1 .. Len(log)
        /\ 1 .. server[s].sequence \subseteq 1 .. server'[s].sequence
    <3>1. CASE m.seq > server[s].sequence
      <4>1. server'[s].sequence = j
        BY <1>4, <2>2, <3>1
      <4> QED BY <1>0, <2>2, <3>1, <4>1
    <3>2. CASE ~ (m.seq > server[s].sequence)
      <4>1. server'[s].sequence = server[s].sequence
        BY <1>4, <3>2
      <4> QED BY <1>0, <2>2, <3>2, <4>1
    <3> QED BY <3>1, <3>2
  <2>4. Has(s)' = {log[i].uuid : i \in 1 .. server'[s].sequence}
    BY <1>1 DEF Has
  <2>5. Has(s) \subseteq Has(s)' /\ m.uuid \in Has(s)'
    BY <2>2, <2>3, <2>4 DEF Has
  <2>6. m.uuid \in 1 .. sets
    <3>1. j \in DOMAIN log
      BY <1>0, <2>3
    <3>2. m.uuid \in Uuids(log)
      BY <2>2, <3>1 DEF Uuids
    <3> QED BY <3>2 DEF Kept
  <2>7. Held(s)' = Uuids(Pended(s, Dup(m)))
    BY <1>4 DEF Held
  <2> QED BY <1>0, <1>3, <2>5, <2>6, <2>7, PendedUuids
<1>8. KeptOf(s)'
  BY <1>1, <1>5, <1>6, <1>7, OwnKept
<1>9. Uuids(log') \subseteq 1 .. sets
  BY <1>1 DEF Kept
<1> QED BY <1>1, <1>4, <1>8, <1>9, StepKept

\* The first update of one client is collected.
LEMMA QueueTail ==
    ASSUME NetTypeOK, NEW s \in Server, NEW a \in Agent, updates[<<a, s>>] # <<>>, OneOf(s),
           updates' = [updates EXCEPT ![<<a, s>>] = Tail(@)]
    PROVE  LET u == Head(updates[<<a, s>>]).uuid IN
           /\ Queued(s)' \subseteq Queued(s)
           /\ u \in Queued(s)
           /\ Queued(s) \subseteq Queued(s)' \cup {u}
           /\ u \notin Queued(s)'
           /\ OneOf(s)'
           /\ \A q \in Server, b \in Agent : q # s => updates'[<<b, q>>] = updates[<<b, q>>]
<1> PICK list \in Seq(Update) : list = updates[<<a, s>>]
  BY DEF NetTypeOK
<1> PICK len \in Nat : len = Len(list)
  OBVIOUS
<1> PICK u : u = Head(list).uuid
  OBVIOUS
<1>1. /\ updates \in [Agent \X Server -> Seq(Update)] /\ <<a, s>> \in Agent \X Server
      /\ \A b \in Agent, q \in Server : <<b, q>> \in Agent \X Server
  BY DEF NetTypeOK
<1>2. /\ updates'[<<a, s>>] = Tail(list)
      /\ \A b \in Agent, q \in Server : b # a \/ q # s => updates'[<<b, q>>] = updates[<<b, q>>]
  BY <1>1
<1>3. /\ Uuids(Tail(list)) \subseteq Uuids(list) /\ u \in Uuids(list)
      /\ Uuids(list) \subseteq Uuids(Tail(list)) \cup {u}
  BY UuidsOf
<1>4. /\ DOMAIN list = 1 .. len /\ 1 \in 1 .. len /\ list[1].uuid = u
      /\ DOMAIN Tail(list) = 1 .. len - 1
      /\ \A i \in 1 .. len - 1 : Tail(list)[i] = list[i + 1] /\ i + 1 \in 1 .. len /\ i + 1 # 1
  OBVIOUS
<1>5. Queued(s)' \subseteq Queued(s)
  <2>1. \A b \in Agent : Uuids(updates'[<<b, s>>]) \subseteq Uuids(updates[<<b, s>>])
    BY <1>2, <1>3
  <2> QED BY <2>1, QueuedIs
<1>6. u \in Queued(s)
  BY <1>3, QueuedIs
<1>7. Queued(s) \subseteq Queued(s)' \cup {u}
  <2>1. \A b \in Agent : Uuids(updates[<<b, s>>]) \subseteq Uuids(updates'[<<b, s>>]) \cup {u}
    BY <1>2, <1>3
  <2> QED BY <2>1, QueuedIs
<1>8. u \notin Queued(s)'
  <2>1. ASSUME NEW b \in Agent PROVE u \notin Uuids(updates'[<<b, s>>])
    <3>1. CASE b # a
      <4>1. updates'[<<b, s>>] = updates[<<b, s>>]
        BY <1>2, <3>1
      <4>2. \A j \in DOMAIN updates[<<b, s>>] : updates[<<b, s>>][j].uuid # u
        BY <1>4, <3>1 DEF OneOf
      <4> QED BY <4>1, <4>2 DEF Uuids
    <3>2. CASE b = a
      <4>1. ASSUME NEW i \in 1 .. len - 1 PROVE Tail(list)[i].uuid # u
        <5>1. i + 1 \in DOMAIN updates[<<a, s>>] /\ 1 \in DOMAIN updates[<<a, s>>] /\ i + 1 # 1
          BY <1>4
        <5>2. updates[<<a, s>>][i + 1].uuid # updates[<<a, s>>][1].uuid
          BY <5>1 DEF OneOf
        <5> QED BY <1>4, <5>2
      <4>2. Uuids(Tail(list)) = {Tail(list)[i].uuid : i \in 1 .. len - 1}
        BY <1>4 DEF Uuids
      <4>3. u \notin Uuids(Tail(list))
        BY <4>1, <4>2
      <4> QED BY <1>2, <3>2, <4>3
    <3> QED BY <3>1, <3>2
  <2> QED BY <2>1, QueuedIs
<1>9. OneOf(s)'
  <2> DEFINE Was(b, i) == IF b = a THEN i + 1 ELSE i
  <2>1. ASSUME NEW b \in Agent, NEW i \in DOMAIN updates'[<<b, s>>]
        PROVE  /\ Was(b, i) \in DOMAIN updates[<<b, s>>]
               /\ updates'[<<b, s>>][i] = updates[<<b, s>>][Was(b, i)]
    <3>1. CASE b = a
      <4>1. i \in 1 .. len - 1 /\ updates'[<<b, s>>][i] = Tail(list)[i]
        BY <1>2, <1>4, <2>1, <3>1
      <4>2. i + 1 \in DOMAIN updates[<<b, s>>] /\ updates'[<<b, s>>][i] = updates[<<b, s>>][i + 1]
        BY <1>4, <3>1, <4>1
      <4> QED BY <3>1, <4>2
    <3>2. CASE b # a
      <4>1. updates'[<<b, s>>] = updates[<<b, s>>]
        BY <1>2, <3>2
      <4> QED BY <2>1, <3>2, <4>1
    <3> QED BY <3>1, <3>2
  <2>2. ASSUME NEW b \in Agent, NEW i \in DOMAIN updates'[<<b, s>>] PROVE i \in Int
    <3>1. CASE b = a
      BY <1>2, <1>4, <2>2, <3>1
    <3>2. CASE b # a
      <4>1. updates[<<b, s>>] \in Seq(Update) /\ updates'[<<b, s>>] = updates[<<b, s>>]
        BY <1>1, <1>2, <3>2
      <4> QED BY <2>2, <4>1
    <3> QED BY <3>1, <3>2
  <2>3. ASSUME NEW b \in Agent, NEW c \in Agent, NEW i \in DOMAIN updates'[<<b, s>>],
               NEW j \in DOMAIN updates'[<<c, s>>],
               updates'[<<b, s>>][i].uuid = updates'[<<c, s>>][j].uuid
        PROVE  b = c /\ i = j
    <3> HIDE DEF Was
    <3>1. /\ Was(b, i) \in DOMAIN updates[<<b, s>>]
          /\ updates'[<<b, s>>][i] = updates[<<b, s>>][Was(b, i)]
      BY <2>1
    <3>2. /\ Was(c, j) \in DOMAIN updates[<<c, s>>]
          /\ updates'[<<c, s>>][j] = updates[<<c, s>>][Was(c, j)]
      BY <2>1
    <3>3. b = c /\ Was(b, i) = Was(c, j)
      BY <2>3, <3>1, <3>2 DEF OneOf
    <3>4. i \in Int /\ j \in Int
      BY <2>2
    <3>5. i = j
      BY <3>3, <3>4 DEF Was
    <3> QED BY <3>3, <3>5
  <2> QED BY <2>3 DEF OneOf
<1> QED BY <1>2, <1>5, <1>6, <1>7, <1>8, <1>9

\* A collected update goes to the log or to the list, or has been matched on it.
LEMMA CollectorKept ==
    ASSUME ServerInv, Kept, NEW s \in Server, NEW a \in Agent, Collector(s, a), ServerEffect
    PROVE  Kept'
<1>0. /\ NetTypeOK /\ ServerTypeOK /\ <<a, s>> \in Agent \X Server
      /\ server \in [Server -> ServerRecord] /\ server[s] \in ServerRecord
  BY ServerFacts, ServerRecords
<1> PICK queue : queue = updates[<<a, s>>]
  OBVIOUS
<1>1. queue \in Seq(Update) /\ queue # <<>> /\ Runs(s) /\ UNCHANGED crashes
  BY <1>0 DEF Collector, NetTypeOK
<1> PICK m \in Update : m = Head(queue)
  BY <1>1
<1> PICK u : u = m.uuid
  OBVIOUS
<1>2. sent'[s] \subseteq sent[s] /\ sets' = sets
  BY DEF ServerEffect
<1>3. /\ KeptOf(s) /\ OneOf(s) /\ Queued(s) \subseteq 1 .. sets
      /\ s \notin tainted =>
         /\ sent[s] \subseteq Held(s) \cup Queued(s) \cup Has(s)
         /\ ~ Active(s) => Held(s) \cap Queued(s) \subseteq Has(s)
         /\ Held(s) \subseteq 1 .. sets
  BY DEF Kept, KeptOf
<1>4. ASSUME updates' = [updates EXCEPT ![<<a, s>>] = Tail(@)]
      PROVE  /\ Queued(s)' \subseteq Queued(s)
             /\ u \in Queued(s)
             /\ Queued(s) \subseteq Queued(s)' \cup {u}
             /\ u \notin Queued(s)'
             /\ OneOf(s)'
             /\ \A q \in Server, b \in Agent : q # s => updates'[<<b, q>>] = updates[<<b, q>>]
  BY <1>0, <1>1, <1>3, <1>4, QueueTail
<1>5. CASE Active(s) /\ NoTable(s)
  <2>1. Dies(s)
    BY <1>5, CollectorDies
  <2> QED BY <1>1, <2>1, DieKept DEF Runs
<1>6. CASE Active(s) /\ ~ NoTable(s)
  <2>1. /\ updates' = [updates EXCEPT ![<<a, s>>] = Tail(@)]
        /\ CollectActive(s, m)
        /\ UNCHANGED <<subs, pubs, ask, snap>>
    BY <1>6 DEF Collector
  <2>2. PICK n \in Nat \ {0}, r \in ServerRecord :
             /\ n = server[s].sequence + 1
             /\ r.pending = server[s].pending
             /\ Numbered(m, n) \in Published /\ <<Numbered(m, n)>> \in Seq(Published)
             /\ Writes_(s, <<Numbered(m, n)>>, r)
    BY <1>1, <1>6, <2>1, CollectWrites
  <2> PICK msgs : msgs = <<Numbered(m, n)>>
    OBVIOUS
  <2>3. msgs \in Seq(Published) /\ Writes_(s, msgs, r)
    BY <2>2
  <2>4. Uuids(msgs) = {u}
    <3>1. Numbered(m, n).uuid = u
      BY DEF Numbered, Update, Message
    <3>2. DOMAIN msgs = {1} /\ msgs[1] = Numbered(m, n)
      OBVIOUS
    <3> QED BY <3>1, <3>2 DEF Uuids
  <2>5. /\ \A q \in Server : q # s => server'[q] = server[q]
        /\ server'[s] = r
        /\ \A q \in Server : q # s /\ q \notin tainted' =>
                 q \notin tainted /\ \A i \in 1 .. server[q].sequence : log'[i] = log[i]
        /\ s \notin tainted' =>
                 s \notin tainted /\ Has(s) \subseteq Has(s)' /\ Uuids(msgs) \subseteq Has(s)'
        /\ (Holder(s) => Uuids(msgs) \subseteq 1 .. sets) => Uuids(log') \subseteq 1 .. sets
        /\ Active(s)' /\ Up(s)'
    BY <1>1, <1>6, <2>3, WriteKeeps
  <2>6. Uuids(log') \subseteq 1 .. sets
    BY <1>3, <1>4, <2>1, <2>4, <2>5
  <2>7. Held(s)' = Held(s)
    BY <2>2, <2>5 DEF Held
  <2>8. s \notin tainted' =>
           /\ sent'[s] \subseteq Held(s)' \cup Queued(s)' \cup Has(s)'
           /\ Held(s)' \subseteq 1 .. sets'
    BY <1>2, <1>3, <1>4, <2>1, <2>4, <2>5, <2>7
  <2>9. Queued(s)' \subseteq 1 .. sets' /\ OneOf(s)'
    BY <1>2, <1>3, <1>4, <2>1
  <2>10. KeptOf(s)'
    BY <2>5, <2>8, <2>9 DEF KeptOf
  <2>11. \A q \in Server, b \in Agent : q # s => updates'[<<b, q>>] = updates[<<b, q>>]
    BY <1>4, <2>1
  <2> QED BY <2>5, <2>6, <2>10, <2>11, StepKept
<1>7. CASE ~ Active(s)
  <2>1. /\ updates' = [updates EXCEPT ![<<a, s>>] = Tail(@)]
        /\ server' = [server EXCEPT ![s].pending = Pended(s, m)]
        /\ UNCHANGED <<subs, pubs, ask, snap, out, log, tainted>>
    BY <1>7 DEF Collector
  <2>2. /\ server'[s].pending = Pended(s, m) /\ server'[s].state = server[s].state
        /\ server'[s].sequence = server[s].sequence
        /\ \A q \in Server : q # s => server'[q] = server[q]
    BY <1>0, <2>1 DEF ServerRecord
  <2>3. /\ Held(s)' = Uuids(Pended(s, m)) /\ Has(s)' = Has(s)
        /\ (Active(s)' <=> Active(s)) /\ Up(s)'
    BY <1>1, <2>1, <2>2 DEF Held, Has, Active, Up, Runs
  <2>4. /\ Held(s)' \subseteq Held(s) \cup {u}
        /\ Held(s) \subseteq Held(s)' \cup {u}
        /\ u \in Held(s) \/ u \in Held(s)'
    BY <1>0, <2>3, PendedUuids
  <2>5. Queued(s)' \subseteq 1 .. sets' /\ OneOf(s)'
    BY <1>2, <1>3, <1>4, <2>1
  <2>6. s \notin tainted' =>
           /\ sent'[s] \subseteq Held(s)' \cup Queued(s)' \cup Has(s)'
           /\ Held(s)' \cap Queued(s)' \subseteq Has(s)'
           /\ Held(s)' \subseteq 1 .. sets'
    BY <1>2, <1>3, <1>4, <1>7, <2>1, <2>3, <2>4
  <2>7. KeptOf(s)'
    BY <2>3, <2>5, <2>6 DEF KeptOf
  <2>8. Uuids(log') \subseteq 1 .. sets
    BY <2>1 DEF Kept
  <2>9. \A q \in Server, b \in Agent : q # s => updates'[<<b, q>>] = updates[<<b, q>>]
    BY <1>4, <2>1
  <2> QED BY <2>1, <2>2, <2>7, <2>8, <2>9, StepKept
<1> QED BY <1>5, <1>6, <1>7

\* Every step of a server keeps what was sent to it.
LEMMA ServerStepKept ==
    ASSUME ServerInv, Kept, NEW s \in Server, ServerStep(s), ServerEffect
    PROVE  Kept'
<1>1. ASSUME Crash(s) PROVE Kept'
  BY <1>1, CrashDies, DieKept DEF Crash
<1> QED BY <1>1, StartKept, RecvStateKept, FlushKept, AskPeerKept, SnapshotLoadedKept,
           SubscriberKept, CollectorKept, VoterKept DEF ServerStep

\* A client makes an update: its uuid is new.
LEMMA SetKept ==
    ASSUME ServerInv, AgentTypeOK, Kept, NEW a \in Agent, Set(a)
    PROVE  Kept'
<1> PICK to : to = pubs'
  OBVIOUS
<1>0. /\ sets \in Nat /\ sets' = sets + 1 /\ sets < Len(writes)
      /\ writes \in Seq([body : BOOLEAN, ttl : {"zero", "relative"}]) /\ Len(writes) \in Nat
      /\ UNCHANGED <<server, log, tainted>>
      /\ sent' = [s \in Server |-> IF <<a, s>> \in to THEN sent[s] \cup {sets + 1} ELSE sent[s]]
  BY CloneAssumption DEF AgentTypeOK, Set, serverVars
<1> PICK u \in Nat : u = sets + 1
  BY <1>0
<1> PICK v \in [body : BOOLEAN, ttl : {"zero", "relative"}] : v = writes[u]
  <2>1. u \in 1 .. Len(writes)
    BY <1>0
  <2>2. writes[u] \in [body : BOOLEAN, ttl : {"zero", "relative"}]
    BY <1>0, <2>1, ElementOfSeq
  <2> QED BY <2>2
<1>1. PICK k \in Key :
           updates' = [p \in Agent \X Server |->
                IF p[1] = a /\ p \in to
                THEN Append(updates[p], KVUpdate(sets + 1, k, v.body, v.ttl)) ELSE updates[p]]
  <2>1. PICK k \in Key :
           LET w == writes[sets + 1]
               m == KVUpdate(sets + 1, k, w.body, w.ttl) IN
             updates' = [p \in Agent \X Server |->
                  IF p[1] = a /\ p \in pubs' THEN Append(updates[p], m) ELSE updates[p]]
    BY Zenon DEF Set
  <2>2. v = writes[sets + 1] /\ to = pubs'
    OBVIOUS
  <2> QED BY <2>1, <2>2
<1> PICK m : m = KVUpdate(u, k, v.body, v.ttl)
  OBVIOUS
<1>2. m \in Update /\ m.uuid = u
  BY <1>0 DEF KVUpdate, Update, Message, Uuid, Ttl
<1>3. /\ updates \in [Agent \X Server -> Seq(Update)]
      /\ updates' = [p \in Agent \X Server |->
                IF p[1] = a /\ p \in to THEN Append(updates[p], m) ELSE updates[p]]
  BY <1>1 DEF ServerInv, Types, NetTypeOK
<1>4. u \notin 1 .. sets /\ 1 .. sets \subseteq 1 .. sets' /\ u \in 1 .. sets'
  BY <1>0
<1>5. ASSUME NEW s \in Server PROVE KeptOf(s)'
  <2>0. /\ KeptOf(s) /\ OneOf(s) /\ Queued(s) \subseteq 1 .. sets
        /\ s \notin tainted =>
           /\ sent[s] \subseteq Held(s) \cup Queued(s) \cup Has(s)
           /\ ~ Active(s) => Held(s) \cap Queued(s) \subseteq Has(s)
           /\ Held(s) \subseteq 1 .. sets
        /\ ~ Up(s) => server[s].pending = <<>>
    BY DEF Kept, KeptOf
  <2>1. /\ Held(s)' = Held(s) /\ Has(s)' = Has(s) /\ (Active(s)' <=> Active(s))
        /\ (Up(s)' <=> Up(s)) /\ (s \in tainted' <=> s \in tainted)
        /\ server'[s].pending = server[s].pending
    BY <1>0 DEF Held, Has, Active, Up
  <2>2. CASE <<a, s>> \notin to
    <3>1. \A b \in Agent : updates'[<<b, s>>] = updates[<<b, s>>]
      BY <1>3, <2>2
    <3>2. Queued(s)' = Queued(s) /\ (OneOf(s)' <=> OneOf(s))
      BY <3>1, SameQueued DEF OneOf
    <3>3. sent'[s] = sent[s]
      BY <1>0, <2>2
    <3> QED BY <1>4, <2>0, <2>1, <3>2, <3>3 DEF KeptOf
  <2>3. CASE <<a, s>> \in to
    <3> PICK list \in Seq(Update) : list = updates[<<a, s>>]
      BY <1>3
    <3> PICK len \in Nat : len = Len(list)
      OBVIOUS
    <3>1. /\ updates'[<<a, s>>] = Append(list, m)
          /\ \A b \in Agent : b # a => updates'[<<b, s>>] = updates[<<b, s>>]
      BY <1>3, <2>3
    <3>2. Uuids(Append(list, m)) = Uuids(list) \cup {u}
      BY <1>2, UuidsOf
    <3>3. Queued(s) \subseteq Queued(s)' /\ Queued(s)' \subseteq Queued(s) \cup {u}
          /\ u \in Queued(s)'
      <4>1. \A b \in Agent : /\ Uuids(updates[<<b, s>>]) \subseteq Uuids(updates'[<<b, s>>])
                             /\ Uuids(updates'[<<b, s>>]) \subseteq Uuids(updates[<<b, s>>]) \cup {u}
        BY <3>1, <3>2
      <4>2. u \in Uuids(updates'[<<a, s>>])
        BY <3>1, <3>2
      <4> QED BY <4>1, <4>2, QueuedIs
    <3>4. sent'[s] = sent[s] \cup {u}
      BY <1>0, <2>3
    <3>5. OneOf(s)'
      <4>1. ASSUME NEW b \in Agent, NEW i \in DOMAIN updates'[<<b, s>>]
            PROVE  \/ /\ i \in DOMAIN updates[<<b, s>>]
                      /\ updates'[<<b, s>>][i] = updates[<<b, s>>][i]
                      /\ updates'[<<b, s>>][i].uuid # u
                   \/ b = a /\ i = len + 1 /\ updates'[<<b, s>>][i].uuid = u
        <5>1. CASE i \in DOMAIN updates[<<b, s>>]
          <6>1. updates'[<<b, s>>][i] = updates[<<b, s>>][i]
            <7>1. CASE b # a
              BY <3>1, <7>1
            <7>2. CASE b = a
              <8>1. i \in 1 .. len
                BY <5>1, <7>2
              <8>2. Append(list, m)[i] = list[i]
                BY <1>2, <8>1
              <8> QED BY <3>1, <7>2, <8>2
            <7> QED BY <7>1, <7>2
          <6>2. updates[<<b, s>>][i].uuid \in Queued(s)
            <7>1. updates[<<b, s>>][i].uuid \in Uuids(updates[<<b, s>>])
              BY <5>1 DEF Uuids
            <7> QED BY <7>1, QueuedIs
          <6> QED BY <1>4, <2>0, <5>1, <6>1, <6>2
        <5>2. CASE i \notin DOMAIN updates[<<b, s>>]
          <6>1. b = a
            BY <3>1, <4>1, <5>2
          <6>2. i = len + 1 /\ updates'[<<b, s>>][i] = m
            BY <3>1, <4>1, <5>2, <6>1, <1>2
          <6> QED BY <1>2, <6>1, <6>2
        <5> QED BY <5>1, <5>2
      <4>2. ASSUME NEW b \in Agent, NEW c \in Agent, NEW i \in DOMAIN updates'[<<b, s>>],
                   NEW j \in DOMAIN updates'[<<c, s>>],
                   updates'[<<b, s>>][i].uuid = updates'[<<c, s>>][j].uuid
            PROVE  b = c /\ i = j
        <5>1. \/ /\ i \in DOMAIN updates[<<b, s>>]
                 /\ updates'[<<b, s>>][i] = updates[<<b, s>>][i]
                 /\ updates'[<<b, s>>][i].uuid # u
              \/ b = a /\ i = len + 1 /\ updates'[<<b, s>>][i].uuid = u
          BY <4>1
        <5>2. \/ /\ j \in DOMAIN updates[<<c, s>>]
                 /\ updates'[<<c, s>>][j] = updates[<<c, s>>][j]
                 /\ updates'[<<c, s>>][j].uuid # u
              \/ c = a /\ j = len + 1 /\ updates'[<<c, s>>][j].uuid = u
          BY <4>1
        <5>3. CASE updates'[<<b, s>>][i].uuid = u
          BY <4>2, <5>1, <5>2, <5>3
        <5>4. CASE updates'[<<b, s>>][i].uuid # u
          BY <2>0, <4>2, <5>1, <5>2, <5>4 DEF OneOf
        <5> QED BY <5>3, <5>4
      <4> QED BY <4>2 DEF OneOf
    <3>6. Queued(s)' \subseteq 1 .. sets'
      BY <1>4, <2>0, <3>3
    <3>7. s \notin tainted' =>
             /\ sent'[s] \subseteq Held(s)' \cup Queued(s)' \cup Has(s)'
             /\ ~ Active(s)' => Held(s)' \cap Queued(s)' \subseteq Has(s)'
             /\ Held(s)' \subseteq 1 .. sets'
      BY <1>4, <2>0, <2>1, <3>3, <3>4
    <3> QED BY <2>0, <2>1, <3>5, <3>6, <3>7 DEF KeptOf
  <2> QED BY <2>2, <2>3
<1>6. Uuids(log)' \subseteq 1 .. sets'
  BY <1>0, <1>4 DEF Kept, Uuids
<1> QED BY <1>5, <1>6 DEF Kept

\* What leaves the servers and the updates alone keeps it.
LEMMA SameKept ==
    ASSUME Kept, UNCHANGED <<server, log, tainted, updates, sets, sent>>
    PROVE  Kept'
<1>1. ASSUME NEW q \in Server PROVE KeptOf(q)'
  <2>1. /\ sent'[q] \subseteq sent[q] /\ (q \notin tainted' => q \notin tainted)
        /\ server'[q] = server[q]
        /\ \A a \in Agent : updates'[<<a, q>>] = updates[<<a, q>>]
        /\ \A i \in 1 .. server[q].sequence : log'[i] = log[i]
    OBVIOUS
  <2> QED BY <2>1, OtherKept
<1>2. Uuids(log)' \subseteq 1 .. sets'
  BY DEF Kept, Uuids
<1> QED BY <1>1, <1>2 DEF Kept

\* Every step keeps what was sent to the servers.
LEMMA KeptNext == ServerInv /\ AgentTypeOK /\ Kept /\ [Next]_vars => Kept'
<1> SUFFICES ASSUME ServerInv, AgentTypeOK, Kept, [Next]_vars PROVE Kept'
  OBVIOUS
<1>1. ASSUME NEW s \in Server, ServerStep(s), ServerEffect PROVE Kept'
  BY <1>1, ServerStepKept
<1>2. ASSUME NEW x \in Agent \cup Server, NEW s \in Server, Subscribe(x, s) PROVE Kept'
  BY <1>2, SameKept DEF Subscribe, serverVars, agentVars
<1>3. ASSUME NEW a \in Agent, AgentStep(a) PROVE Kept'
  <2>1. CASE Set(a)
    BY <2>1, SetKept
  <2>2. CASE SnapshotMessage(a)
    BY <2>2, SameKept DEF SnapshotMessage, serverVars
  <2>3. CASE UpdateMessage(a)
    BY <2>3, SameKept DEF UpdateMessage, serverVars
  <2>4. CASE HugzMessage(a)
    BY <2>4, SameKept DEF HugzMessage, serverVars, netVars
  <2>5. CASE Failover(a)
    BY <2>5, SameKept DEF Failover, serverVars
  <2> QED BY <1>3, <2>1, <2>2, <2>3, <2>4, <2>5 DEF AgentStep
<1>4. ASSUME UNCHANGED vars PROVE Kept'
  BY <1>4, SameKept DEF vars, netVars, serverVars, agentVars
<1> QED BY <1>1, <1>2, <1>3, <1>4 DEF Next

\* In the initial states nothing was sent.
LEMMA KeptInit == Init => Kept
<1> SUFFICES ASSUME Init PROVE Kept
  OBVIOUS
<1>1. /\ updates = [p \in Agent \X Server |-> <<>>]
      /\ log = <<>> /\ sets = 0 /\ sent = [s \in Server |-> {}]
      /\ server = [s \in Server |->
           IF s = "primary" THEN [Down EXCEPT !.state = "ACTIVE", !.kvmap = EmptyMap]
           ELSE [Down EXCEPT !.state = "PASSIVE"]]
  BY DEF Init, NetInit, ServerInit, AgentInit
<1>2. DOMAIN <<>> = {} /\ Uuids(<<>>) = {}
  BY DEF Uuids
<1>3. ASSUME NEW s \in Server PROVE KeptOf(s)
  <2>1. server[s].pending = <<>>
    BY <1>1 DEF Down
  <2>2. Held(s) = {}
    BY <1>2, <2>1 DEF Held
  <2>3. \A a \in Agent : updates[<<a, s>>] = <<>>
    BY <1>1
  <2>4. \A a \in Agent : Uuids(updates[<<a, s>>]) = {} /\ DOMAIN updates[<<a, s>>] = {}
    BY <1>2, <2>3
  <2>5. Queued(s) = {} /\ OneOf(s)
    BY <2>4, QueuedIs DEF OneOf
  <2>6. sent[s] = {}
    BY <1>1
  <2> QED BY <2>1, <2>2, <2>5, <2>6 DEF KeptOf
<1> QED BY <1>1, <1>2, <1>3 DEF Kept

\* What was sent is kept in every state.
LEMMA KeptAlways == Spec => []Kept
BY CloneInvariant, KeptInit, KeptNext, PTL DEF Spec

\* What clients sent to a server that runs is not lost with its peer: of every
\* server whose table counts, what was sent to its process is in the queue of
\* the collector, on the list of what is pending, or in the log.
THEOREM CloneNothingLost == Spec => []NothingLost
<1>1. ASSUME ServerInv, Kept PROVE NothingLost
  <2>1. ASSUME NEW s \in Server \ tainted
        PROVE  sent[s] \subseteq Held(s) \cup Queued(s) \cup Uuids(log)
    <3>0. /\ sent[s] \subseteq Held(s) \cup Queued(s) \cup Has(s)
          /\ RolesOf(s) /\ CopyOf(s) /\ log \in Seq(Published) /\ Len(log) \in Nat
          /\ server[s].sequence \in Nat
      BY <1>1, ServerFacts DEF Kept, KeptOf
    <3>1. server[s].sequence <= Len(log)
      BY <3>0 DEF RolesOf, CopyOf
    <3>2. 1 .. server[s].sequence \subseteq DOMAIN log
      BY <3>0, <3>1
    <3>3. Has(s) \subseteq Uuids(log)
      BY <3>2 DEF Has, Uuids
    <3> QED BY <3>0, <3>3
  <2>2. ASSUME NEW s \in Server \ tainted
        PROVE  sent[s] \subseteq Uuids(server[s].pending) \cup Uuids(log)
                   \cup UNION {Uuids(updates[<<a, s>>]) : a \in Agent}
    <3>1. Held(s) = Uuids(server[s].pending)
      BY DEF Held
    <3>2. Queued(s) = UNION {Uuids(updates[<<a, s>>]) : a \in Agent}
      BY DEF Queued
    <3> QED BY <2>1, <3>1, <3>2
  <2> QED BY <2>2 DEF NothingLost
<1> QED BY <1>1, CloneInvariant, KeptAlways, PTL

-----------------------------------------------------------------------------
(* Which key an update was made for. *)

\* Some update of the list has this uuid and this key.
Bears(list, u, k) == \E i \in DOMAIN list : list[i].uuid = u /\ list[i].key = k

\* So has an update that a server has numbered, holds back or is to collect.
Seen(u, k) ==
    \/ Bears(log, u, k)
    \/ \E s \in Server, a \in Agent : Bears(updates[<<a, s>>], u, k)
    \/ \E s \in Server \ tainted : Bears(server[s].pending, u, k)

\* A step makes no update that was not there.
Fewer == \A u, k : Seen(u, k)' => Seen(u, k)

\* A list after an append, a removal, or without its head.
LEMMA BearsOf ==
    ASSUME NEW list \in Seq(Update), NEW u, NEW k
    PROVE  /\ \A m \in Update : Bears(Append(list, m), u, k) =>
                Bears(list, u, k) \/ (m.uuid = u /\ m.key = k)
           /\ list # <<>> => /\ Bears(Tail(list), u, k) => Bears(list, u, k)
                             /\ Bears(list, Head(list).uuid, Head(list).key)
           /\ \A n \in 1 .. Len(list) : Bears(RemoveAt(list, n), u, k) => Bears(list, u, k)
<1> PICK len \in Nat : len = Len(list)
  OBVIOUS
<1>0. DOMAIN list = 1 .. len
  OBVIOUS
<1>1. ASSUME NEW m \in Update, Bears(Append(list, m), u, k)
      PROVE  Bears(list, u, k) \/ (m.uuid = u /\ m.key = k)
  <2>1. /\ DOMAIN Append(list, m) = 1 .. len + 1
        /\ \A i \in 1 .. len : Append(list, m)[i] = list[i]
        /\ Append(list, m)[len + 1] = m
    OBVIOUS
  <2>2. PICK i \in 1 .. len + 1 : Append(list, m)[i].uuid = u /\ Append(list, m)[i].key = k
    BY <1>1, <2>1 DEF Bears
  <2>3. CASE i = len + 1
    BY <2>1, <2>2, <2>3
  <2>4. CASE i # len + 1
    <3>1. i \in 1 .. len
      BY <2>4
    <3> QED BY <1>0, <2>1, <2>2, <3>1 DEF Bears
  <2> QED BY <2>3, <2>4
<1>2. ASSUME list # <<>>
      PROVE  /\ Bears(Tail(list), u, k) => Bears(list, u, k)
             /\ Bears(list, Head(list).uuid, Head(list).key)
  <2>1. /\ 1 \in 1 .. len /\ Head(list) = list[1] /\ DOMAIN Tail(list) = 1 .. len - 1
        /\ \A i \in 1 .. len - 1 : Tail(list)[i] = list[i + 1] /\ i + 1 \in 1 .. len
    BY <1>2
  <2> QED BY <1>0, <2>1 DEF Bears
<1>3. ASSUME NEW n \in 1 .. Len(list), Bears(RemoveAt(list, n), u, k) PROVE Bears(list, u, k)
  <2>1. /\ RemoveAt(list, n) \in Seq(Update) /\ Len(RemoveAt(list, n)) = len - 1
        /\ \A i \in 1 .. len - 1 :
              RemoveAt(list, n)[i] = IF i < n THEN list[i] ELSE list[i + 1]
    BY RemoveAtIs
  <2>2. DOMAIN RemoveAt(list, n) = 1 .. len - 1
    BY <2>1
  <2>3. PICK i \in 1 .. len - 1 : RemoveAt(list, n)[i].uuid = u /\ RemoveAt(list, n)[i].key = k
    BY <1>3, <2>2 DEF Bears
  <2>4. i \in 1 .. len /\ i + 1 \in 1 .. len
    OBVIOUS
  <2>5. RemoveAt(list, n)[i] = list[i] \/ RemoveAt(list, n)[i] = list[i + 1]
    BY <2>1
  <2> QED BY <1>0, <2>3, <2>4, <2>5 DEF Bears
<1> QED BY <1>1, <1>2, <1>3

\* So with the list that a passive server holds back.
LEMMA PendedBears ==
    ASSUME ServerTypeOK, NEW s \in Server, NEW m \in Update, NEW u, NEW k,
           Bears(Pended(s, m), u, k)
    PROVE  Bears(server[s].pending, u, k) \/ (m.uuid = u /\ m.key = k)
<1>1. server[s].pending \in Seq(Update)
  BY ServerRecords
<1>2. CASE IsPending(s, m)
  <2>1. PICK n \in 1 .. Len(server[s].pending) : Pended(s, m) = RemoveAt(server[s].pending, n)
    BY <1>2, PendedIs
  <2> QED BY <1>1, <2>1, BearsOf
<1>3. CASE ~ IsPending(s, m)
  <2>1. Pended(s, m) = Append(server[s].pending, m)
    BY <1>3, PendedIs
  <2> QED BY <1>1, <2>1, BearsOf
<1> QED BY <1>2, <1>3

\* Nothing is in the empty list.
LEMMA EmptyBears == \A u, k : ~ Bears(<<>>, u, k)
BY DEF Bears

\* To show that a step is Fewer.
LEMMA SeenIs ==
    ASSUME \A u, k : Bears(log', u, k) => Seen(u, k),
           \A u, k : \A s \in Server, a \in Agent :
               Bears(updates'[<<a, s>>], u, k) => Seen(u, k),
           \A u, k : \A s \in Server :
               s \notin tainted' /\ Bears(server'[s].pending, u, k) => Seen(u, k)
    PROVE  Fewer
<1>1. ASSUME NEW u, NEW k, Seen(u, k)' PROVE Seen(u, k)
  <2>1. \/ Bears(log', u, k)
        \/ \E s \in Server, a \in Agent : Bears(updates'[<<a, s>>], u, k)
        \/ \E s \in Server : s \notin tainted' /\ Bears(server'[s].pending, u, k)
    BY <1>1, Zenon DEF Seen
  <2> QED BY <2>1, Zenon
<1> QED BY <1>1 DEF Fewer

\* Every list is as it was, or empty.
LEMMA LessFewer ==
    ASSUME log' = log,
           \A s \in Server, a \in Agent :
               updates'[<<a, s>>] \in {<<>>, updates[<<a, s>>]},
           \A s \in Server : s \notin tainted' =>
               \/ server'[s].pending = <<>>
               \/ s \notin tainted /\ server'[s].pending = server[s].pending
    PROVE  Fewer
<1>1. \A u, k : Bears(log', u, k) => Seen(u, k)
  BY DEF Seen
<1>2. ASSUME NEW u, NEW k, NEW s \in Server, NEW a \in Agent, Bears(updates'[<<a, s>>], u, k)
      PROVE  Seen(u, k)
  BY <1>2, EmptyBears DEF Seen
<1>3. ASSUME NEW u, NEW k, NEW s \in Server, s \notin tainted', Bears(server'[s].pending, u, k)
      PROVE  Seen(u, k)
  BY <1>3, EmptyBears DEF Seen
<1> QED BY <1>1, <1>2, <1>3, SeenIs

\* The death of a server makes no update.
LEMMA DieFewer ==
    ASSUME ServerInv, NEW s \in Server, Dies(s)
    PROVE  Fewer
<1>0. server \in [Server -> ServerRecord]
  BY ServerFacts, ServerRecords
<1>1. /\ server' = [server EXCEPT ![s] = Down] /\ log' = log
      /\ updates' = [p \in Agent \X Server |-> IF p[2] = s THEN <<>> ELSE updates[p]]
      /\ \A q \in Server : q # s /\ q \in tainted => q \in tainted'
  BY DEF Dies, Die, Closed
<1>2. ASSUME NEW q \in Server, NEW a \in Agent
      PROVE  updates'[<<a, q>>] \in {<<>>, updates[<<a, q>>]}
  <2>1. <<a, q>> \in Agent \X Server
    OBVIOUS
  <2> QED BY <1>1, <2>1
<1>3. ASSUME NEW q \in Server, q \notin tainted'
      PROVE  \/ server'[q].pending = <<>>
             \/ q \notin tainted /\ server'[q].pending = server[q].pending
  <2>1. CASE q = s
    BY <1>0, <1>1, <2>1 DEF Down
  <2>2. CASE q # s
    BY <1>0, <1>1, <1>3, <2>2
  <2> QED BY <2>1, <2>2
<1> QED BY <1>1, <1>2, <1>3, LessFewer

\* A server numbers updates that are its own.
LEMMA WriteFewer ==
    ASSUME ServerInv, NEW s \in Server, Runs(s), Active(s) \/ MayTakeOver(s),
           NEW msgs \in Seq(Published), NEW r \in ServerRecord, Writes_(s, msgs, r),
           Holder(s) => \A u, k : Bears(msgs, u, k) => Seen(u, k),
           r.pending \in {<<>>, server[s].pending},
           \A u, k : \A q \in Server, a \in Agent :
               Bears(updates'[<<a, q>>], u, k) => Seen(u, k)
    PROVE  Fewer
<1>1. /\ server' = [server EXCEPT ![s] = r] /\ tainted' = tainted
      /\ server \in [Server -> ServerRecord]
  BY ServerFacts, ServerRecords DEF Writes_
<1>2. ASSUME NEW u, NEW k, Bears(log', u, k) PROVE Seen(u, k)
  <2>1. CASE ~ Holder(s)
    <3>1. log' = log
      BY <2>1, WriteLog
    <3> QED BY <1>2, <3>1 DEF Seen
  <2>2. CASE Holder(s)
    <3> PICK n \in Nat : n = server[s].sequence
      BY ServerFacts
    <3> PICK len \in Nat : len = Len(msgs)
      OBVIOUS
    <3>1. /\ log' \in Seq(Published) /\ Len(log') = n + len /\ n <= Len(log)
          /\ \A i \in 1 .. n : log'[i] = log[i]
          /\ \A i \in 1 .. len : log'[n + i] = msgs[i]
      BY <2>2, WriteLog
    <3>2. DOMAIN log' = 1 .. n + len /\ DOMAIN msgs = 1 .. len
      BY <3>1
    <3>3. PICK i \in 1 .. n + len : log'[i].uuid = u /\ log'[i].key = k
      BY <1>2, <3>2 DEF Bears
    <3>4. CASE i <= n
      <4>1. i \in DOMAIN log /\ log[i] = log'[i]
        <5>1. log \in Seq(Published) /\ Len(log) \in Nat
          BY ServerFacts
        <5> QED BY <3>1, <3>4, <5>1
      <4> QED BY <3>3, <4>1 DEF Seen, Bears
    <3>5. CASE ~ (i <= n)
      <4>1. i - n \in 1 .. len /\ n + (i - n) = i
        BY <3>5
      <4>2. msgs[i - n] = log'[i]
        BY <3>1, <4>1
      <4>3. Bears(msgs, u, k)
        BY <3>2, <3>3, <4>1, <4>2 DEF Bears
      <4> QED BY <2>2, <4>3
    <3> QED BY <3>4, <3>5
  <2> QED BY <2>1, <2>2
<1>3. ASSUME NEW u, NEW k, NEW q \in Server, q \notin tainted', Bears(server'[q].pending, u, k)
      PROVE  Seen(u, k)
  <2>1. server'[q].pending \in {<<>>, server[q].pending}
    BY <1>1
  <2> QED BY <1>1, <1>3, <2>1, EmptyBears DEF Seen
<1> QED BY <1>2, <1>3, SeenIs

-----------------------------------------------------------------------------
(* What an agent's copy has to do with the log. *)

\* The uuids of the first n updates of the log, and the value they give a key.
Known(n) == {log[i].uuid : i \in 1 .. n}
Value(n, k) == Map!TableOf(log, n)[k]

\* The agent's value of a key.
Mine(a, k) == Names(agent[a].kvmap)[k]

\* If an update with this uuid is under way, it is for this key.
KeyOf(u, k) == \A c \in Key : Seen(u, c) => c = k

\* The agent's value is one that its application has set, or the lack of one
\* that it has deleted, and the first n updates have not got that.
Own(a, k, n) ==
    \E u \in 1 .. sets : u \notin Known(n) /\ KeyOf(u, k) /\ Mine(a, k) \in {u, NoMsg}

Good(a, k, n) == Mine(a, k) = Value(n, k) \/ Own(a, k, n)
GoodTo(a, n) == \A k \in Key : Value(n, k) # NoMsg => Good(a, k, n)

\* What s publishes is the log, and all that a has to read of it.
Live(a, s) ==
    <<a, s>> \notin leftover /\ Active(s) /\ s \notin tainted /\ ~ NoTable(s)

\* Agent a reads the updates of s.
Reads(a, s) == Cur(a) = s /\ agent[a].state = "ACTIVE"

\* Agent a reads a snapshot of s, or waits for it.
Joins(a, s) == Cur(a) = s /\ agent[a].state # "ACTIVE"

\* The snapshot that ends at position e of a queue brings a key the value with
\* uuid u; or what is left of it leaves the key as it is.
HasKey(queue, i, k) == ~ IsEnd(queue[i]) /\ queue[i].key = k
Other(queue, i, k) == ~ IsEnd(queue[i]) /\ queue[i].key # k
Brings(queue, e, k, u) ==
    \E i \in 1 .. e - 1 : /\ HasKey(queue, i, k) /\ queue[i].uuid = u /\ queue[i].body
                          /\ \A h \in 1 .. e - 1 : h > i => Other(queue, h, k)
Leaves(queue, e, k) == \A i \in 1 .. e - 1 : Other(queue, i, k)

\* With the snapshot that ends at e the agent has what the log has up to there.
SnapGood(a, s, queue, e) ==
    \A k \in Key : Value(queue[e].kthxbai, k) # NoMsg =>
       \/ Brings(queue, e, k, Value(queue[e].kthxbai, k))
       \/ Leaves(queue, e, k) /\ Joins(a, s) /\ Good(a, k, queue[e].kthxbai)

ReaderOK(a, j) ==
    a \in synced => agent[a].sequence \in j .. Len(log) /\ GoodTo(a, agent[a].sequence)

SnapsOK(a, s, queue, j) ==
    \A e \in 1 .. Len(queue) :
       IsEnd(queue[e]) => queue[e].kthxbai \in j .. Len(log) /\ SnapGood(a, s, queue, e)

\* What s has published and a has not read is the log from some position on,
\* and neither the agent nor a snapshot on its way to it is behind that.  Where
\* the subscription has not come that is nothing.
LiveStream(a, s) ==
    \E j \in 0 .. Len(log) :
       /\ out[<<a, s>>] = Piece(log, j, Len(log))
       /\ <<a, s>> \notin subs => j = Len(log)
       /\ Reads(a, s) => ReaderOK(a, j)
       /\ (Reads(a, s) /\ <<a, s>> \in subs) \/ SnapsOK(a, s, snap[<<a, s>>], j)

IdleStream(a, s) ==
    <<a, s>> \notin leftover /\ s \notin tainted =>
       out[<<a, s>>] = <<>> /\ snap[<<a, s>>] = <<>>

StreamTo(a, s) == IF Live(a, s) THEN LiveStream(a, s) ELSE IdleStream(a, s)
AgentOf(a) == a \in synced => agent[a].state = "ACTIVE" /\ Live(a, Cur(a))
Agents == \A a \in Agent : AgentOf(a) /\ \A s \in Server : StreamTo(a, s)

\* The log goes on.
LogGrows ==
    /\ log \in Seq(Published) /\ log' \in Seq(Published)
    /\ Len(log) <= Len(log')
    /\ \A i \in 1 .. Len(log) : log'[i] = log[i]

\* What is good of an agent's table stays good.
Steady(a) == \A k \in Key : \A n \in 0 .. Len(log) : Good(a, k, n) => Good(a, k, n)'

\* The beginning of the log says the same while the log goes on.
LEMMA ValueStays ==
    ASSUME LogGrows, NEW n \in 0 .. Len(log)
    PROVE  Known(n)' = Known(n) /\ \A k \in Key : Value(n, k)' = Value(n, k)
<1>1. n \in Nat /\ Len(log) \in Nat /\ \A i \in 1 .. n : i \in 1 .. Len(log)
  BY DEF LogGrows
<1>2. \A i \in 1 .. n : log'[i] = log[i]
  BY <1>1 DEF LogGrows
<1>3. Map!TableOf(log', n) = Map!TableOf(log, n)
  BY <1>1, <1>2, TablePrefix
<1> QED BY <1>2, <1>3 DEF Known, Value

\* An agent's table stays as good while others act.
LEMMA GoodStays ==
    ASSUME LogGrows, Fewer, NEW a \in Agent, sets' = sets,
           agent'[a].kvmap = agent[a].kvmap
    PROVE  Steady(a)
<1> SUFFICES ASSUME NEW k \in Key, NEW n \in 0 .. Len(log), Good(a, k, n) PROVE Good(a, k, n)'
  BY DEF Steady
<1>1. Known(n)' = Known(n) /\ Value(n, k)' = Value(n, k)
  BY ValueStays
<1>2. Mine(a, k)' = Mine(a, k)
  BY DEF Mine
<1>3. ASSUME NEW u, KeyOf(u, k) PROVE KeyOf(u, k)'
  BY <1>3 DEF KeyOf, Fewer
<1>4. CASE Own(a, k, n)
  <2>1. PICK u \in 1 .. sets : u \notin Known(n) /\ KeyOf(u, k) /\ Mine(a, k) \in {u, NoMsg}
    BY <1>4 DEF Own
  <2>2. u \notin Known(n)' /\ KeyOf(u, k)' /\ Mine(a, k)' \in {u, NoMsg} /\ u \in 1 .. sets'
    BY <1>1, <1>2, <1>3, <2>1
  <2>3. Own(a, k, n)'
    BY <2>2 DEF Own
  <2> QED BY <2>3 DEF Good
<1>5. CASE Mine(a, k) = Value(n, k)
  BY <1>1, <1>2, <1>5 DEF Good
<1> QED BY <1>4, <1>5 DEF Good

\* A snapshot under way stays good, when more is queued behind it, too.
LEMMA SnapGoodStays ==
    ASSUME LogGrows, NEW a \in Agent, NEW s \in Server,
           Joins(a, s) => Joins(a, s)' /\ Steady(a),
           NEW queue, NEW queue2, NEW e \in Nat \ {0}, \A i \in 1 .. e : queue2[i] = queue[i],
           queue[e].kthxbai \in 0 .. Len(log), SnapGood(a, s, queue, e)
    PROVE  SnapGood(a, s, queue2, e)'
<1> PICK n \in 0 .. Len(log) : n = queue[e].kthxbai
  OBVIOUS
<1>0. /\ e \in 1 .. e /\ queue2[e].kthxbai = n
      /\ \A i \in 1 .. e - 1 : i \in 1 .. e /\ queue2[i] = queue[i]
  OBVIOUS
<1>1. \A k \in Key : Value(n, k)' = Value(n, k)
  BY ValueStays
<1>2. ASSUME NEW k \in Key, Value(n, k) # NoMsg
      PROVE  \/ Brings(queue2, e, k, Value(n, k))
             \/ Leaves(queue2, e, k) /\ Joins(a, s)' /\ Good(a, k, n)'
  <2>1. \/ Brings(queue, e, k, Value(n, k))
        \/ Leaves(queue, e, k) /\ Joins(a, s) /\ Good(a, k, n)
    BY <1>2 DEF SnapGood
  <2>2. \A i \in 1 .. e - 1 : /\ HasKey(queue2, i, k) <=> HasKey(queue, i, k)
                              /\ Other(queue2, i, k) <=> Other(queue, i, k)
    BY <1>0 DEF HasKey, Other
  <2>3. CASE Brings(queue, e, k, Value(n, k))
    <3>1. PICK i \in 1 .. e - 1 :
                 /\ HasKey(queue, i, k) /\ queue[i].uuid = Value(n, k) /\ queue[i].body
                 /\ \A h \in 1 .. e - 1 : h > i => Other(queue, h, k)
      BY <2>3 DEF Brings
    <3>2. /\ HasKey(queue2, i, k) /\ queue2[i].uuid = Value(n, k) /\ queue2[i].body
          /\ \A h \in 1 .. e - 1 : h > i => Other(queue2, h, k)
      BY <1>0, <2>2, <3>1
    <3> QED BY <3>2 DEF Brings
  <2>4. CASE Leaves(queue, e, k) /\ Joins(a, s) /\ Good(a, k, n)
    <3>1. Leaves(queue2, e, k)
      BY <2>2, <2>4 DEF Leaves
    <3>2. Good(a, k, n)'
      BY <2>4 DEF Steady
    <3> QED BY <2>4, <3>1, <3>2
  <2> QED BY <2>1, <2>3, <2>4
<1>3. ASSUME NEW k \in Key, Value(queue2[e].kthxbai, k)' # NoMsg
      PROVE  \/ Brings(queue2, e, k, Value(queue2[e].kthxbai, k)')
             \/ Leaves(queue2, e, k) /\ Joins(a, s)' /\ Good(a, k, queue2[e].kthxbai)'
  BY <1>0, <1>1, <1>2, <1>3
<1> QED BY <1>3 DEF SnapGood

\* A queue that goes on with the log.
LEMMA StreamGoes ==
    ASSUME LogGrows, NEW a \in Agent, NEW s \in Server, LiveStream(a, s),
           Reads(a, s)' <=> Reads(a, s), Cur(a) = s => Cur(a)' = s /\ Steady(a),
           Reads(a, s) => /\ a \in synced' => a \in synced
                          /\ agent'[a].sequence = agent[a].sequence,
           <<a, s>> \notin subs' => <<a, s>> \notin subs /\ Len(log') = Len(log),
           \A j \in 0 .. Len(log) :
               out[<<a, s>>] = Piece(log, j, Len(log)) => out'[<<a, s>>] = Piece(log', j, Len(log')),
           NEW queue \in Seq(Reply), queue = snap[<<a, s>>],
           NEW queue2 \in Seq(Reply), queue2 = snap'[<<a, s>>],
           \A e \in 1 .. Len(queue2) : IsEnd(queue2[e]) =>
              \/ e \in 1 .. Len(queue) /\ \A i \in 1 .. e : queue2[i] = queue[i]
              \/ queue2[e].kthxbai = Len(log') /\ SnapGood(a, s, queue2, e)'
    PROVE  LiveStream(a, s)'
<1>n. Len(log) \in Nat /\ Len(log') \in Nat
  <2>1. log \in Seq(Published) /\ log' \in Seq(Published)
    BY Zenon DEF LogGrows
  <2> QED BY ONLY <2>1
<1> PICK len \in Nat : len = Len(log)
  BY <1>n, Zenon
<1> PICK len2 \in Nat : len2 = Len(log')
  BY <1>n, Zenon
<1>0. len <= len2 /\ 0 .. len \subseteq 0 .. len2 /\ Len(queue) \in Nat /\ Len(queue2) \in Nat
  BY DEF LogGrows
<1>1. PICK j \in 0 .. len :
         /\ out[<<a, s>>] = Piece(log, j, len)
         /\ <<a, s>> \notin subs => j = len
         /\ Reads(a, s) => ReaderOK(a, j)
         /\ (Reads(a, s) /\ <<a, s>> \in subs) \/ SnapsOK(a, s, queue, j)
  BY DEF LiveStream
<1>2. out'[<<a, s>>] = Piece(log', j, len2) /\ j \in 0 .. len2 /\ j \in Nat
  BY <1>0, <1>1, SMTT(60)
<1>a. <<a, s>> \notin subs' => j = len2
  BY <1>1
<1>3. ASSUME Reads(a, s) PROVE ReaderOK(a, j)'
  <2>1. ASSUME a \in synced'
        PROVE  agent'[a].sequence \in j .. len2 /\ GoodTo(a, agent[a].sequence)'
    <3> PICK n \in j .. len : n = agent[a].sequence
      BY <1>1, <1>3, <2>1 DEF ReaderOK
    <3>1. n = agent'[a].sequence /\ n \in j .. len2 /\ n \in 0 .. Len(log) /\ GoodTo(a, n)
      BY <1>0, <1>1, <1>3, <2>1 DEF ReaderOK
    <3>2. \A k \in Key : Value(n, k)' = Value(n, k)
      BY <3>1, ValueStays
    <3>3. ASSUME NEW k \in Key, Value(n, k)' # NoMsg PROVE Good(a, k, n)'
      <4>1. Good(a, k, n)
        BY <3>1, <3>2, <3>3 DEF GoodTo
      <4>2. Steady(a)
        BY <1>3 DEF Reads
      <4> QED BY <3>1, <4>1, <4>2 DEF Steady
    <3>4. \A k \in Key : Value(agent[a].sequence, k)' # NoMsg => Good(a, k, agent[a].sequence)'
      BY <3>1, <3>3
    <3>5. GoodTo(a, agent[a].sequence)'
      BY <3>4 DEF GoodTo
    <3> QED BY <3>1, <3>5
  <2> QED BY <2>1 DEF ReaderOK
<1>4. ASSUME ~ (Reads(a, s)' /\ <<a, s>> \in subs') PROVE SnapsOK(a, s, snap[<<a, s>>], j)'
  <2>0. SnapsOK(a, s, queue, j) /\ (Joins(a, s) => Joins(a, s)' /\ Steady(a))
    BY <1>1, <1>4 DEF Joins, Reads
  <2>1. ASSUME NEW e \in 1 .. Len(queue2), IsEnd(queue2[e])
        PROVE  queue2[e].kthxbai \in j .. len2 /\ SnapGood(a, s, queue2, e)'
    <3>1. CASE e \in 1 .. Len(queue) /\ \A i \in 1 .. e : queue2[i] = queue[i]
      <4>0. e \in Nat \ {0} /\ e \in 1 .. e
        BY <1>0, <2>1
      <4>1. e \in Nat \ {0} /\ queue2[e] = queue[e] /\ IsEnd(queue[e])
        <5>1. queue2[e] = queue[e]
          BY <3>1, <4>0
        <5>2. IsEnd(queue[e])
          BY <2>1, <5>1, Zenon
        <5> QED BY <4>0, <5>1, <5>2
      <4>2. queue[e].kthxbai \in j .. len /\ SnapGood(a, s, queue, e)
        BY <2>0, <3>1, <4>1 DEF SnapsOK
      <4>3. queue[e].kthxbai \in 0 .. Len(log) /\ queue[e].kthxbai \in j .. len2
        BY <1>0, <1>1, <4>2
      <4>4. SnapGood(a, s, queue2, e)'
        BY <2>0, <3>1, <4>1, <4>2, <4>3, SnapGoodStays
      <4> QED BY <4>1, <4>3, <4>4
    <3>2. CASE queue2[e].kthxbai = len2 /\ SnapGood(a, s, queue2, e)'
      <4>1. len2 \in j .. len2
        BY <1>2
      <4> QED BY <3>2, <4>1
    <3> QED BY <2>1, <3>1, <3>2
  <2>2. SnapsOK(a, s, queue2, j)'
    BY <2>1 DEF SnapsOK
  <2> QED BY <2>2 DEF SnapsOK
<1> QED BY <1>2, <1>a, <1>3, <1>4 DEF LiveStream

\* Nothing is under way: the agent has to read what comes after the log.
LEMMA EmptyStream ==
    ASSUME log' \in Seq(Published), NEW a \in Agent, NEW s \in Server,
           out'[<<a, s>>] = <<>>, snap'[<<a, s>>] = <<>>, Reads(a, s)' => a \notin synced'
    PROVE  LiveStream(a, s)'
<1> PICK len \in Nat : len = Len(log')
  OBVIOUS
<1>1. out'[<<a, s>>] = Piece(log', len, len) /\ len \in 0 .. len
  BY PieceEmpty
<1>2. SnapsOK(a, s, <<>>, len)'
  BY DEF SnapsOK
<1>3. Reads(a, s)' => ReaderOK(a, len)'
  BY DEF ReaderOK
<1> QED BY <1>1, <1>2, <1>3 DEF LiveStream

\* A step that does not concern the pair.
LEMMA StreamStays ==
    ASSUME NEW a \in Agent, NEW s \in Server, StreamTo(a, s), log \in Seq(Published),
           agent'[a] = agent[a], a \in synced' => a \in synced,
           <<a, s>> \in leftover => <<a, s>> \in leftover',
           <<a, s>> \in subs => <<a, s>> \in subs' \/ ~ Live(a, s),
           s \notin tainted' => s \notin tainted,
           s \notin tainted' => /\ out'[<<a, s>>] = out[<<a, s>>]
                                /\ snap'[<<a, s>>] = snap[<<a, s>>],
           snap[<<a, s>>] \in Seq(Reply),
           Live(a, s)' <=> Live(a, s),
           Live(a, s) => log' = log /\ Steady(a)
    PROVE  StreamTo(a, s)'
<1>1. CASE ~ Live(a, s)
  <2>1. IdleStream(a, s)
    BY <1>1 DEF StreamTo
  <2>2. IdleStream(a, s)'
    BY <2>1 DEF IdleStream
  <2> QED BY <1>1, <2>2 DEF StreamTo
<1>2. CASE Live(a, s)
  <2>1. LiveStream(a, s) /\ log' = log /\ Steady(a) /\ s \notin tainted'
    BY <1>2 DEF StreamTo, Live
  <2>2. LogGrows
    BY <2>1 DEF LogGrows
  <2>3. /\ Reads(a, s)' <=> Reads(a, s)
        /\ Cur(a) = s => Cur(a)' = s
        /\ agent'[a].sequence = agent[a].sequence
    BY DEF Reads, Cur
  <2>4. out'[<<a, s>>] = out[<<a, s>>] /\ snap'[<<a, s>>] = snap[<<a, s>>]
    BY <2>1
  <2>5. \A j \in 0 .. Len(log) :
           out[<<a, s>>] = Piece(log, j, Len(log)) => out'[<<a, s>>] = Piece(log', j, Len(log'))
    BY <2>1, <2>4
  <2> PICK queue \in Seq(Reply) : queue = snap[<<a, s>>]
    OBVIOUS
  <2>a. <<a, s>> \notin subs' => <<a, s>> \notin subs /\ Len(log') = Len(log)
    BY <1>2, <2>1
  <2>6. LiveStream(a, s)'
    BY <2>1, <2>2, <2>3, <2>4, <2>5, <2>a, StreamGoes
  <2> QED BY <1>2, <2>6 DEF StreamTo
<1> QED BY <1>1, <1>2

\* A value of a table that messages make of an empty one is the last of them
\* that has its key.
LEMMA LastBrings ==
    ASSUME NEW msgs \in Seq(Reply), NEW k \in Key, NEW u, u # NoMsg,
           Names(Stored(EmptyMap, msgs))[k] = u
    PROVE  \E i \in 1 .. Len(msgs) :
              /\ msgs[i].key = k /\ msgs[i].body /\ msgs[i].uuid = u
              /\ \A h \in 1 .. Len(msgs) : msgs[h].key = k => h <= i
<1>0. Len(msgs) \in Nat
  OBVIOUS
<1>1. Names(Stored(EmptyMap, msgs))[k] =
         IF Stored(EmptyMap, msgs)[k] = NoMsg THEN NoMsg ELSE Stored(EmptyMap, msgs)[k].uuid
  BY NamesIs
<1>2. ~ NoneWith(msgs, Len(msgs), k)
  <2>1. ASSUME NoneWith(msgs, Len(msgs), k) PROVE FALSE
    <3>1. Stored(EmptyMap, msgs)[k] = EmptyMap[k]
      BY <2>1, StoredIs
    <3>2. EmptyMap[k] = NoMsg
      BY DEF EmptyMap
    <3> QED BY <1>1, <3>1, <3>2
  <2> QED BY <2>1
<1>3. PICK i \in 1 .. Len(msgs) : LastWith(msgs, Len(msgs), k, i)
  BY <1>0, <1>2, LastOrNone
<1>4. Stored(EmptyMap, msgs)[k] = IF msgs[i].body THEN msgs[i] ELSE NoMsg
  BY <1>3, StoredIs
<1>5. msgs[i].body /\ msgs[i].uuid = u
  BY <1>1, <1>4
<1>6. msgs[i].key = k /\ \A h \in 1 .. Len(msgs) : msgs[h].key = k => h <= i
  BY <1>3 DEF LastWith
<1> QED BY <1>5, <1>6

\* A reply behind a queue: where its messages are.
LEMMA ReplyBehind ==
    ASSUME NEW queue \in Seq(Reply), NEW reply \in Seq(Reply)
    PROVE  /\ queue \o reply \in Seq(Reply)
           /\ Len(queue \o reply) = Len(queue) + Len(reply)
           /\ \A i \in 1 .. Len(queue) : (queue \o reply)[i] = queue[i]
           /\ \A i \in 1 .. Len(reply) : (queue \o reply)[Len(queue) + i] = reply[i]
OBVIOUS

\* What a reply brings is what it makes of an empty table.
LEMMA ReplyBrings ==
    ASSUME NEW reply \in Seq(Reply), NEW n \in Nat \ {0}, n = Len(reply),
           \A i \in 1 .. n - 1 : ~ IsEnd(reply[i]),
           NEW queue2, NEW q \in Nat, \A i \in 1 .. n : queue2[q + i] = reply[i],
           NEW k \in Key, NEW u, u # NoMsg,
           Names(Stored(EmptyMap, SubSeq(reply, 1, n - 1)))[k] = u
    PROVE  Brings(queue2, q + n, k, u)
<1>1. SubSeq(reply, 1, n - 1) \in Seq(Reply)
  <2>1. n - 1 \in Nat /\ n - 1 <= Len(reply)
    OBVIOUS
  <2> QED BY <2>1
<1>2. /\ Len(SubSeq(reply, 1, n - 1)) = n - 1
      /\ \A i \in 1 .. n - 1 : SubSeq(reply, 1, n - 1)[i] = reply[i]
  <2>1. n - 1 \in Nat /\ n - 1 <= Len(reply)
    OBVIOUS
  <2> QED BY <2>1
<1>a. PICK front \in Seq(Reply) :
         /\ Len(front) = n - 1 /\ \A i \in 1 .. n - 1 : front[i] = reply[i]
         /\ Names(Stored(EmptyMap, front))[k] = u
  BY <1>1, <1>2
<1>b. Names(Stored(EmptyMap, front))[k] = u
  BY <1>a
<1>3. \E i \in 1 .. Len(front) :
         /\ front[i].key = k /\ front[i].body /\ front[i].uuid = u
         /\ \A h \in 1 .. Len(front) : front[h].key = k => h <= i
  BY <1>b, LastBrings
<1>4. PICK i \in 1 .. n - 1 :
         /\ reply[i].key = k /\ reply[i].body /\ reply[i].uuid = u
         /\ \A h \in 1 .. n - 1 : reply[h].key = k => h <= i
  <2>1. PICK i \in 1 .. n - 1 :
         /\ front[i].key = k /\ front[i].body /\ front[i].uuid = u
         /\ \A h \in 1 .. n - 1 : front[h].key = k => h <= i
    BY <1>a, <1>3
  <2> QED BY <1>a, <2>1
<1>5. /\ q + i \in 1 .. (q + n) - 1 /\ i \in 1 .. n
      /\ queue2[q + i] = reply[i]
  OBVIOUS
<1>6. HasKey(queue2, q + i, k) /\ queue2[q + i].uuid = u /\ queue2[q + i].body
  BY <1>4, <1>5 DEF HasKey
<1>7. ASSUME NEW h \in 1 .. (q + n) - 1, h > q + i PROVE Other(queue2, h, k)
  <2>1. h - q \in 1 .. n - 1 /\ h - q \in 1 .. n /\ q + (h - q) = h /\ ~ (h - q <= i)
    BY <1>7
  <2>2. queue2[h] = reply[h - q] /\ reply[h - q].key # k /\ ~ IsEnd(reply[h - q])
    BY <1>4, <2>1
  <2> QED BY <2>2 DEF Other
<1> QED BY <1>5, <1>6, <1>7 DEF Brings

\* A snapshot of r has come to the end of a queue.
Answered(queue, queue2, r) == queue2 = queue \o Snapshot(r)

\* A snapshot that comes to the end of a queue brings every value of the table.
LEMMA SnapshotBrings ==
    ASSUME NEW a \in Agent, NEW s \in Server, NEW r, r.kvmap \in Table, Tidy(r.kvmap),
           r.sequence \in Nat, Names(r.kvmap) = Map!TableOf(log', r.sequence),
           NEW queue \in Seq(Reply), NEW queue2, Answered(queue, queue2, r)
    PROVE  /\ queue2 \in Seq(Reply)
           /\ \A e \in 1 .. Len(queue2) : IsEnd(queue2[e]) =>
                \/ e \in 1 .. Len(queue) /\ \A i \in 1 .. e : queue2[i] = queue[i]
                \/ queue2[e].kthxbai = r.sequence /\ SnapGood(a, s, queue2, e)'
<1>1. PICK reply \in Seq(Reply) :
        \E n \in Nat \ {0} :
         /\ reply = Snapshot(r) /\ n = Len(reply)
         /\ IsEnd(reply[n]) /\ reply[n].kthxbai = r.sequence
         /\ \A i \in 1 .. n - 1 : reply[i] \in Update /\ ~ IsEnd(reply[i])
         /\ Names(Stored(EmptyMap, SubSeq(reply, 1, n - 1))) = Names(r.kvmap)
  BY SnapshotIs
<1>2. PICK n \in Nat \ {0} :
         /\ n = Len(reply) /\ queue2 = queue \o reply
         /\ IsEnd(reply[n]) /\ reply[n].kthxbai = r.sequence
         /\ \A i \in 1 .. n - 1 : ~ IsEnd(reply[i])
         /\ Names(Stored(EmptyMap, SubSeq(reply, 1, n - 1))) = Names(r.kvmap)
  BY <1>1 DEF Answered
<1>3. PICK q \in Nat : q = Len(queue)
  OBVIOUS
<1>4. /\ queue2 \in Seq(Reply) /\ Len(queue2) = q + n
      /\ \A i \in 1 .. q : queue2[i] = queue[i]
      /\ \A i \in 1 .. n : queue2[q + i] = reply[i]
  BY <1>2, <1>3, ReplyBehind
<1>5. ASSUME NEW k \in Key, Value(r.sequence, k)' # NoMsg
      PROVE  Brings(queue2, q + n, k, Value(r.sequence, k)')
  <2>1. PICK u : u = Map!TableOf(log', r.sequence)[k]
    OBVIOUS
  <2>2. u = Value(r.sequence, k)' /\ u # NoMsg
    BY <1>5, <2>1 DEF Value
  <2>3. Names(Stored(EmptyMap, SubSeq(reply, 1, n - 1)))[k] = u
    BY <1>2, <2>1
  <2>4. Brings(queue2, q + n, k, u)
    BY <1>2, <1>4, <2>2, <2>3, ReplyBrings
  <2> QED BY <2>2, <2>4
<1>6. ASSUME NEW e \in 1 .. Len(queue2), IsEnd(queue2[e])
      PROVE  \/ e \in 1 .. Len(queue) /\ \A i \in 1 .. e : queue2[i] = queue[i]
             \/ queue2[e].kthxbai = r.sequence /\ SnapGood(a, s, queue2, e)'
  <2>1. CASE e <= q
    BY <1>3, <1>4, <2>1
  <2>2. CASE ~ (e <= q)
    <3>1. PICK i \in 1 .. n : e = q + i
      <4>1. e - q \in 1 .. n /\ e = q + (e - q)
        BY <1>4, <2>2
      <4> QED BY <4>1
    <3>2. reply[i] = queue2[e]
      BY <1>4, <3>1
    <3>3. IsEnd(reply[i])
      BY <1>6, <3>2, Zenon
    <3>4. i = n
      BY <1>2, <3>3
    <3>5. e = q + n /\ queue2[e].kthxbai = r.sequence
      BY <1>2, <3>1, <3>2, <3>4
    <3>6. SnapGood(a, s, queue2, e)'
      BY <1>5, <3>5 DEF SnapGood
    <3> QED BY <3>5, <3>6
  <2> QED BY <2>1, <2>2
<1> QED BY <1>4, <1>6

\* Server s publishes what a has not subscribed to.
Misses(a, s) == <<a, s>> \notin subs /\ server'[s].sequence > server[s].sequence

\* No server ends: what the step means to the agents' records.
LEMMA NobodyDied ==
    ASSUME ServerInv, AgentTypeOK, ServerEffect, NEW s \in Server,
           \A q \in Server : q # s => server'[q] = server[q],
           Up(s)' \/ ~ Up(s)
    PROVE  /\ UNCHANGED <<agent, sets>>
           /\ synced' \subseteq synced
           /\ \A a \in Agent : a \in synced' <=> a \in synced /\ ~ (Cur(a) = s /\ Misses(a, s))
           /\ \A a \in Agent, q \in Server : <<a, q>> \in leftover' <=>
                 \/ <<a, q>> \in leftover
                 \/ q = s /\ Misses(a, s) /\ snap[<<a, s>>] # <<>>
<1>1. {t \in Server : Up(t) /\ server'[t].state = "DOWN"} = {}
  <2>1. ASSUME NEW t \in Server PROVE ~ (Up(t) /\ server'[t].state = "DOWN")
    <3>1. CASE t = s
      BY <3>1 DEF Up
    <3>2. CASE t # s
      BY <3>2 DEF Up
    <3> QED BY <3>1, <3>2
  <2> QED BY <2>1
<1> PICK wrote : wrote = {q \in Server : server'[q].sequence > server[q].sequence}
  OBVIOUS
<1>2. /\ \A q \in Server : q \in wrote <=> server'[q].sequence > server[q].sequence
      /\ \A q \in Server : q # s => q \notin wrote
  <2>1. ASSUME NEW q \in Server, q # s PROVE q \notin wrote
    <3>1. server'[q].sequence = server[q].sequence /\ server[q].sequence \in Nat
      BY <2>1, ServerFacts
    <3> QED BY <3>1
  <2> QED BY <2>1
<1>3. /\ UNCHANGED <<agent, sets>>
      /\ synced' = {a \in synced : FromCur(a) \notin (Agent \X wrote) \ subs}
      /\ leftover' = leftover \cup {p \in (Agent \X wrote) \ subs : snap[p] # <<>>}
  BY <1>1 DEF ServerEffect
<1>4. ASSUME NEW a \in Agent
      PROVE  a \in synced' <=> a \in synced /\ ~ (Cur(a) = s /\ Misses(a, s))
  <2>1. Cur(a) \in Server /\ FromCur(a) = <<a, Cur(a)>>
    BY AgentFacts DEF FromCur
  <2>2. FromCur(a) \in (Agent \X wrote) \ subs <=> Cur(a) = s /\ Misses(a, s)
    BY <1>2, <2>1 DEF Misses
  <2> QED BY <1>3, <2>2
<1>5. ASSUME NEW a \in Agent, NEW q \in Server
      PROVE  <<a, q>> \in leftover' <=>
                 \/ <<a, q>> \in leftover
                 \/ q = s /\ Misses(a, s) /\ snap[<<a, s>>] # <<>>
  <2>1. <<a, q>> \in (Agent \X wrote) \ subs <=> q = s /\ Misses(a, s)
    BY <1>2 DEF Misses
  <2> QED BY <1>3, <2>1
<1> QED BY <1>3, <1>4, <1>5

\* A step of s that writes nothing and is none of an active server.
LEMMA QuietAgents ==
    ASSUME ServerInv, AgentTypeOK, Agents, NEW s \in Server, ServerEffect,
           \A q \in Server : q # s => server'[q] = server[q],
           Up(s)' \/ ~ Up(s), Fewer, log' = log, subs' = subs,
           (~ Active(s) /\ ~ Active(s)') \/ server'[s] = server[s],
           tainted \subseteq tainted', tainted' \subseteq tainted \cup {s},
           s \in tainted' => s \in tainted \/ ~ Active(s),
           \A a \in Agent, q \in Server : q \notin tainted' =>
               out'[<<a, q>>] = out[<<a, q>>] /\ snap'[<<a, q>>] = snap[<<a, q>>]
    PROVE  Agents'
<1>1. /\ UNCHANGED <<agent, sets>> /\ synced' \subseteq synced
      /\ \A a \in Agent, q \in Server : <<a, q>> \in leftover => <<a, q>> \in leftover'
  BY NobodyDied
<1>a. ASSUME NEW a \in Agent, NEW q \in Server, server'[q] = server[q]
      PROVE  <<a, q>> \in leftover' <=> <<a, q>> \in leftover
  <2>1. q = s => ~ Misses(a, s)
    <3>1. server[q].sequence \in Nat
      BY ServerFacts
    <3> QED BY <1>a, <3>1 DEF Misses
  <2> QED BY <2>1, NobodyDied
<1>2. log \in Seq(Published) /\ LogGrows
  <2>1. log \in Seq(Published) /\ Len(log) \in Nat
    BY ServerFacts
  <2> QED BY <2>1 DEF LogGrows
<1>3. ASSUME NEW a \in Agent, NEW q \in Server PROVE Live(a, q)' <=> Live(a, q)
  <2>1. CASE server'[q] = server[q] /\ (q \in tainted' <=> q \in tainted)
    <3>1. /\ Active(q)' <=> Active(q)
          /\ NoTable(q)' <=> NoTable(q)
      BY <2>1, KeptServer
    <3> QED BY <1>a, <2>1, <3>1 DEF Live
  <2>2. CASE ~ Active(q) /\ ~ Active(q)'
    BY <2>2 DEF Live
  <2>3. \/ server'[q] = server[q] /\ (q \in tainted' <=> q \in tainted)
        \/ ~ Active(q) /\ ~ Active(q)'
    <3>1. CASE q # s
      BY <3>1
    <3>2. CASE q = s
      <4>1. server'[s] = server[s] => (Active(s)' <=> Active(s))
        BY KeptServer
      <4> QED BY <3>2, <4>1
    <3> QED BY <3>1, <3>2
  <2> QED BY <2>1, <2>2, <2>3
<1>4. ASSUME NEW a \in Agent, NEW q \in Server PROVE StreamTo(a, q)'
  <2>1. StreamTo(a, q) /\ Steady(a)
    BY <1>1, <1>2, GoodStays DEF Agents
  <2>2. snap[<<a, q>>] \in Seq(Reply)
    BY AgentFacts, PairOfAgent
  <2>3. q \notin tainted' => /\ q \notin tainted
                             /\ out'[<<a, q>>] = out[<<a, q>>] /\ snap'[<<a, q>>] = snap[<<a, q>>]
    OBVIOUS
  <2> QED BY <1>1, <1>2, <1>3, <2>1, <2>2, <2>3, StreamStays
<1>5. ASSUME NEW a \in Agent PROVE AgentOf(a)'
  <2>1. AgentOf(a) /\ Cur(a)' = Cur(a) /\ Cur(a) \in Server
    BY <1>1, AgentFacts DEF Agents, Cur
  <2>2. ASSUME NEW q \in Server, q = Cur(a), Live(a, q) PROVE Live(a, Cur(a))'
    <3>1. Live(a, q)'
      BY <1>3, <2>2
    <3> QED BY <2>1, <2>2, <3>1 DEF Live
  <2> QED BY <1>1, <2>1, <2>2 DEF AgentOf
<1> QED BY <1>4, <1>5 DEF Agents

\* The empty queue is a queue of snapshots.
LEMMA NoReplies == <<>> \in Seq(Reply)
OBVIOUS

\* What a server that writes publishes reaches the agents that have subscribed.
LEMMA WriteToAgent ==
    ASSUME ServerInv, AgentTypeOK, NEW s \in Server, NEW msgs \in Seq(Published),
           NEW r \in ServerRecord, Writes_(s, msgs, r), NEW a \in Agent, NEW q \in Server
    PROVE  out'[<<a, q>>] = IF q = s /\ <<a, q>> \in subs
                            THEN Behind(out[<<a, q>>], msgs) ELSE out[<<a, q>>]
<1>1. <<a, q>> \in Pair /\ <<a, q>> # FromPeer(s) /\ NetTypeOK
  BY AgentFacts, PairOfAgent
<1>2. <<a, q>> \in Wanted
  BY <1>1, PairOfAgent DEF Wanted
<1>3. out'[<<a, q>>] = Publish(s, msgs, Wanted)[<<a, q>>]
  BY <1>1 DEF Writes_
<1>4. Publish(s, msgs, Wanted)[<<a, q>>] =
         IF <<a, q>>[2] = s /\ <<a, q>> \in subs /\ <<a, q>> \in Wanted
         THEN out[<<a, q>>] \o Wired(msgs) ELSE out[<<a, q>>]
  BY <1>1, PublishIs
<1> QED BY <1>2, <1>3, <1>4 DEF Behind

\* To publish nothing changes no queue.
LEMMA BehindNothing ==
    ASSUME ServerInv, AgentTypeOK, NEW s \in Server, NEW a \in Agent
    PROVE  Behind(out[<<a, s>>], <<>>) = out[<<a, s>>]
<1>1. out[<<a, s>>] \in Seq(Published)
  BY AgentFacts, PairOfAgent
<1>2. Wired(<<>>) = <<>>
  <2>1. <<>> \in Seq(Update)
    OBVIOUS
  <2>2. Wired(<<>>) \in Seq(Update) /\ Len(Wired(<<>>)) = Len(<<>>)
    BY <2>1, WiredType
  <2> QED BY <2>2, EmptySeq
<1> QED BY <1>1, <1>2 DEF Behind

\* A step that adds to the queues of an active server with a table of the log.
LEMMA WriteLive ==
    ASSUME ServerInv, AgentTypeOK, NEW s \in Server, Runs(s), Active(s), Holder(s),
           NEW msgs \in Seq(Published), NEW r \in ServerRecord, Writes_(s, msgs, r), Fewer,
           UNCHANGED <<agent, sets>>, NEW a \in Agent, a \in synced' => a \in synced,
           subs' = subs, <<a, s>> \in subs \/ msgs = <<>>, LiveStream(a, s),
           \/ snap'[<<a, s>>] = snap[<<a, s>>]
           \/ snap'[<<a, s>>] = snap[<<a, s>>] \o Snapshot(r)
    PROVE  LiveStream(a, s)'
<1>1. /\ log \in Seq(Published) /\ log' \in Seq(Published) /\ Len(log) \in Nat
      /\ server[s].sequence = Len(log) /\ Len(log') = Len(log) + Len(msgs) /\ Len(msgs) \in Nat
      /\ \A i \in 1 .. Len(log) : log'[i] = log[i]
      /\ \A j \in 0 .. Len(log) : Behind(Piece(log, j, Len(log)), msgs) = Piece(log, j, Len(log))'
  BY ServerFacts, WriteLog
<1>2. LogGrows
  <2>1. /\ log \in Seq(Published) /\ log' \in Seq(Published) /\ Len(log) \in Nat
        /\ Len(log') = Len(log) + Len(msgs) /\ Len(msgs) \in Nat
        /\ \A i \in 1 .. Len(log) : log'[i] = log[i]
    BY <1>1
  <2>2. Len(log) <= Len(log')
    BY <2>1
  <2> QED BY <2>1, <2>2 DEF LogGrows
<1>3. Steady(a)
  BY <1>2, GoodStays
<1>4. out'[<<a, s>>] = Behind(out[<<a, s>>], msgs)
  <2>1. CASE <<a, s>> \in subs
    BY <2>1, WriteToAgent
  <2>2. CASE <<a, s>> \notin subs
    BY <2>2, WriteToAgent, BehindNothing
  <2> QED BY <2>1, <2>2
<1>a. <<a, s>> \notin subs' => <<a, s>> \notin subs /\ Len(log') = Len(log)
  BY <1>1
<1>5. \A j \in 0 .. Len(log) :
         out[<<a, s>>] = Piece(log, j, Len(log)) => out'[<<a, s>>] = Piece(log', j, Len(log'))
  BY <1>1, <1>4
<1>6. Reads(a, s)' <=> Reads(a, s)
  BY DEF Reads, Cur
<1>7. Cur(a)' = Cur(a)
  BY DEF Cur
<1>8. PICK queue \in Seq(Reply) : queue = snap[<<a, s>>]
  BY AgentFacts, PairOfAgent
<1>9. /\ r.kvmap \in Table /\ Tidy(r.kvmap) /\ r.sequence \in Nat /\ r.sequence = Len(log')
      /\ Names(r.kvmap) = Map!TableOf(log', r.sequence)
  <2>1. r.sequence = Len(log') /\ r.kvmap \in Table /\ Tidy(r.kvmap)
    BY <1>1 DEF Writes_, Holder
  <2>2. Len(log') \in Nat
    BY <1>1
  <2>3. Names(r.kvmap) = Map!TableOf(log', r.sequence)
    BY WriteTable
  <2> QED BY <2>1, <2>2, <2>3
<1>10. PICK queue2 \in Seq(Reply) :
          /\ queue2 = snap'[<<a, s>>]
          /\ \A e \in 1 .. Len(queue2) : IsEnd(queue2[e]) =>
                \/ e \in 1 .. Len(queue) /\ \A i \in 1 .. e : queue2[i] = queue[i]
                \/ queue2[e].kthxbai = Len(log') /\ SnapGood(a, s, queue2, e)'
  <2>1. CASE snap'[<<a, s>>] = queue
    <3>1. \A e \in 1 .. Len(queue) : \A i \in 1 .. e : queue[i] = queue[i]
      OBVIOUS
    <3> QED BY <2>1, <3>1
  <2>2. CASE snap'[<<a, s>>] = queue \o Snapshot(r)
    <3>1. PICK queue2 : queue2 = snap'[<<a, s>>]
      OBVIOUS
    <3>a. Answered(queue, queue2, r)
      BY <2>2, <3>1 DEF Answered
    <3>2. /\ queue2 \in Seq(Reply)
          /\ \A e \in 1 .. Len(queue2) : IsEnd(queue2[e]) =>
                \/ e \in 1 .. Len(queue) /\ \A i \in 1 .. e : queue2[i] = queue[i]
                \/ queue2[e].kthxbai = r.sequence /\ SnapGood(a, s, queue2, e)'
      BY <1>9, <3>a, SnapshotBrings
    <3> QED BY <1>9, <2>2, <3>1, <3>2
  <2> QED BY <1>8, <2>1, <2>2
<1> QED BY <1>2, <1>3, <1>a, <1>5, <1>6, <1>7, <1>8, <1>10, StreamGoes

\* The same where nothing is under way to an agent: its server takes over, or
\* publishes what the agent has not subscribed to.
LEMMA WriteFirst ==
    ASSUME ServerInv, AgentTypeOK, NEW s \in Server, Runs(s), Active(s) \/ MayTakeOver(s),
           Holder(s), NEW msgs \in Seq(Published), NEW r \in ServerRecord,
           Writes_(s, msgs, r), subs' = subs,
           NEW a \in Agent, out[<<a, s>>] = <<>>, snap[<<a, s>>] = <<>>,
           Reads(a, s)' => a \notin synced',
           \/ snap'[<<a, s>>] = snap[<<a, s>>]
           \/ snap'[<<a, s>>] = snap[<<a, s>>] \o Snapshot(r)
    PROVE  LiveStream(a, s)'
<1>1. PICK n \in Nat : n = server[s].sequence
  BY ServerFacts
<1>2. /\ log \in Seq(Published) /\ Len(log) \in Nat /\ n <= Len(log)
      /\ log' \in Seq(Published) /\ Len(msgs) \in Nat /\ Len(log') = n + Len(msgs)
      /\ \A j \in 0 .. n : Behind(Piece(log, j, n), msgs) = Piece(log, j, Len(log))'
  BY <1>1, ServerFacts, WriteLog
<1>3. out'[<<a, s>>] = IF <<a, s>> \in subs THEN Behind(out[<<a, s>>], msgs) ELSE <<>>
  BY WriteToAgent
<1>4. PICK j \in 0 .. Len(log') :
         /\ out'[<<a, s>>] = Piece(log', j, Len(log'))
         /\ <<a, s>> \notin subs' => j = Len(log')
  <2>1. /\ n \in 0 .. Len(log) /\ n \in 0 .. n /\ n \in 0 .. Len(log')
        /\ Len(log') \in 0 .. Len(log')
    BY <1>2
  <2>2. Piece(log, n, n) = <<>> /\ Piece(log', Len(log'), Len(log')) = <<>>
    BY <1>2, <2>1, PieceEmpty
  <2>3. CASE <<a, s>> \in subs
    <3>1. out'[<<a, s>>] = Piece(log', n, Len(log'))
      BY <1>2, <1>3, <2>1, <2>2, <2>3
    <3> QED BY <2>1, <2>3, <3>1
  <2>4. CASE <<a, s>> \notin subs
    BY <1>3, <2>1, <2>2, <2>4
  <2> QED BY <2>3, <2>4
<1>5. /\ r.kvmap \in Table /\ Tidy(r.kvmap) /\ r.sequence \in Nat /\ r.sequence = Len(log')
      /\ Names(r.kvmap) = Map!TableOf(log', r.sequence)
  <2>1. r.sequence = Len(log') /\ r.kvmap \in Table /\ Tidy(r.kvmap)
    BY <1>1, <1>2 DEF Writes_, Holder
  <2>2. Len(log') \in Nat
    BY <1>2
  <2>3. Names(r.kvmap) = Map!TableOf(log', r.sequence)
    BY WriteTable
  <2> QED BY <2>1, <2>2, <2>3
<1>6. SnapsOK(a, s, snap[<<a, s>>], j)'
  <2>1. PICK queue \in Seq(Reply) : queue = <<>>
    BY NoReplies
  <2>2. PICK queue2 : queue2 = snap'[<<a, s>>]
    OBVIOUS
  <2>3. ASSUME NEW e \in 1 .. Len(queue2), IsEnd(queue2[e])
        PROVE  queue2[e].kthxbai \in j .. Len(log') /\ SnapGood(a, s, queue2, e)'
    <3>1. CASE queue2 = queue
      BY <2>1, <2>3, <3>1
    <3>2. CASE queue2 = queue \o Snapshot(r)
      <4>1. \/ e \in 1 .. Len(queue) /\ \A i \in 1 .. e : queue2[i] = queue[i]
            \/ queue2[e].kthxbai = r.sequence /\ SnapGood(a, s, queue2, e)'
        <5>1. Answered(queue, queue2, r)
          BY <3>2 DEF Answered
        <5>2. \A d \in 1 .. Len(queue2) : IsEnd(queue2[d]) =>
                  \/ d \in 1 .. Len(queue) /\ \A i \in 1 .. d : queue2[i] = queue[i]
                  \/ queue2[d].kthxbai = r.sequence /\ SnapGood(a, s, queue2, d)'
          BY <1>5, <5>1, SnapshotBrings
        <5> QED BY <2>3, <5>2
      <4>2. ~ (e \in 1 .. Len(queue))
        BY <2>1
      <4>3. r.sequence \in j .. Len(log')
        BY <1>2, <1>5
      <4> QED BY <4>1, <4>2, <4>3
    <3> QED BY <2>1, <2>2, <3>1, <3>2
  <2>4. SnapsOK(a, s, queue2, j)'
    BY <2>3 DEF SnapsOK
  <2> QED BY <2>2, <2>4 DEF SnapsOK
<1>7. Reads(a, s)' => ReaderOK(a, j)'
  BY DEF ReaderOK
<1> QED BY <1>4, <1>6, <1>7 DEF LiveStream

\* A server numbers some messages: the agents' invariant.
LEMMA WriteAgents ==
    ASSUME ServerInv, AgentTypeOK, Agents, NEW s \in Server, ServerEffect,
           Runs(s), Active(s) \/ MayTakeOver(s),
           NEW msgs \in Seq(Published), NEW r \in ServerRecord, Writes_(s, msgs, r), Fewer,
           \A a \in Agent, q \in Server :
              \/ snap'[<<a, q>>] = snap[<<a, q>>]
              \/ /\ q = s /\ ~ NoTable(s)
                 /\ snap'[<<a, s>>] = snap[<<a, s>>] \o Snapshot(r)
    PROVE  Agents'
<1>1. /\ server' \in [Server -> ServerRecord] /\ server'[s] = r
      /\ \A q \in Server : q # s => server'[q] = server[q]
  BY ServerFacts, OneRecord DEF Writes_
<1>2. Active(s)' /\ Up(s)' /\ (NoTable(s)' <=> NoTable(s)) /\ subs' = subs /\ tainted' = tainted
  BY <1>1, TableIsNotNull DEF Active, Up, NoTable, Writes_
<1>3. /\ UNCHANGED <<agent, sets>> /\ synced' \subseteq synced
      /\ \A a \in Agent : a \in synced' <=> a \in synced /\ ~ (Cur(a) = s /\ Misses(a, s))
      /\ \A a \in Agent, q \in Server : <<a, q>> \in leftover' <=>
            <<a, q>> \in leftover \/ (q = s /\ Misses(a, s) /\ snap[<<a, s>>] # <<>>)
  BY <1>1, <1>2, NobodyDied
<1>m. ASSUME NEW a \in Agent PROVE Misses(a, s) <=> <<a, s>> \notin subs /\ msgs # <<>>
  <2>1. /\ server'[s].sequence = server[s].sequence + Len(msgs)
        /\ server[s].sequence \in Nat /\ Len(msgs) \in Nat
    BY <1>1, ServerFacts DEF Writes_
  <2>2. Len(msgs) > 0 <=> msgs # <<>>
    BY <2>1, EmptySeq
  <2> QED BY <2>1, <2>2 DEF Misses
<1>4. ~ Active(Peer(s)) /\ (MayTakeOver(s) => ~ Active(s))
  BY PeerOfWriter
<1>5. ASSUME NEW q \in Server, q # s PROVE q = Peer(s) /\ ~ Active(q) /\ ~ Active(q)'
  <2>1. q = Peer(s) /\ server'[q] = server[q]
    BY <1>1, <1>5, ServerFacts
  <2> QED BY <1>4, <2>1, KeptServer
<1>6. ASSUME NEW a \in Agent, a \in synced
      PROVE  Cur(a) = s /\ Active(s) /\ Live(a, s)
  <2>1. Live(a, Cur(a)) /\ Cur(a) \in Server
    BY <1>6, AgentFacts DEF Agents, AgentOf
  <2>2. Active(Cur(a))
    BY <2>1 DEF Live
  <2> QED BY <1>5, <2>1, <2>2
<1>7. ASSUME NEW a \in Agent
      PROVE  Live(a, s)' <=> <<a, s>> \notin leftover' /\ s \notin tainted /\ ~ NoTable(s)
  BY <1>2 DEF Live
<1>8. ASSUME NEW a \in Agent PROVE AgentOf(a)'
  <2>1. AgentOf(a) /\ Cur(a)' = Cur(a)
    BY <1>3 DEF Agents, Cur
  <2>2. ASSUME a \in synced' PROVE Live(a, Cur(a))'
    <3>1. Cur(a) = s /\ Live(a, s) /\ ~ Misses(a, s)
      BY <1>3, <1>6, <2>2
    <3>2. Live(a, s)'
      BY <1>3, <1>7, <3>1 DEF Live
    <3> QED BY <2>1, <3>1, <3>2 DEF Live
  <2> QED BY <1>3, <2>1, <2>2 DEF AgentOf
<1>9. ASSUME NEW a \in Agent PROVE StreamTo(a, s)'
  <2>0. StreamTo(a, s)
    BY DEF Agents
  <2>a. /\ out'[<<a, s>>] = IF <<a, s>> \in subs THEN Behind(out[<<a, s>>], msgs) ELSE out[<<a, s>>]
        /\ out[<<a, s>>] \in Seq(Published)
    <3>1. <<a, s>> \in Pair /\ out \in [Pair -> Seq(Published)]
      BY AgentFacts, PairOfAgent
    <3> QED BY <3>1, WriteToAgent
  <2>1. CASE ~ Live(a, s)'
    <3>1. CASE <<a, s>> \in leftover' \/ s \in tainted
      <4>1. IdleStream(a, s)'
        BY <1>2, <3>1 DEF IdleStream
      <4> QED BY <2>1, <4>1 DEF StreamTo
    <3>2. CASE <<a, s>> \notin leftover' /\ s \notin tainted
      <4>1. NoTable(s) /\ msgs = <<>> /\ <<a, s>> \notin leftover
        BY <1>3, <1>7, <2>1, <3>2 DEF Writes_
      <4>2. ~ Live(a, s)
        BY <4>1 DEF Live
      <4>3. out[<<a, s>>] = <<>> /\ snap[<<a, s>>] = <<>>
        BY <2>0, <3>2, <4>1, <4>2 DEF StreamTo, IdleStream
      <4>4. snap'[<<a, s>>] = <<>>
        BY <4>1, <4>3
      <4>5. out'[<<a, s>>] = <<>>
        BY <2>a, <4>1, <4>3, BehindNothing
      <4>6. IdleStream(a, s)'
        BY <4>4, <4>5 DEF IdleStream
      <4> QED BY <2>1, <4>6 DEF StreamTo
    <3> QED BY <3>1, <3>2
  <2>2. CASE Live(a, s)'
    <3>1. /\ <<a, s>> \notin leftover' /\ <<a, s>> \notin leftover
          /\ s \notin tainted /\ ~ NoTable(s)
      BY <1>3, <1>7, <2>2
    <3>2. Holder(s)
      BY <3>1 DEF Holder
    <3>3. \/ snap'[<<a, s>>] = snap[<<a, s>>]
          \/ snap'[<<a, s>>] = snap[<<a, s>>] \o Snapshot(r)
      OBVIOUS
    <3>4. CASE Active(s) /\ ~ Misses(a, s)
      <4>1. LiveStream(a, s)
        BY <2>0, <3>1, <3>4 DEF StreamTo, Live
      <4>2. <<a, s>> \in subs \/ msgs = <<>>
        BY <1>m, <3>4
      <4>3. LiveStream(a, s)'
        BY <1>2, <1>3, <3>2, <3>3, <3>4, <4>1, <4>2, WriteLive
      <4> QED BY <2>2, <4>3 DEF StreamTo
    <3>5. CASE ~ Active(s) \/ Misses(a, s)
      <4>1. out[<<a, s>>] = <<>> /\ snap[<<a, s>>] = <<>>
        <5>1. CASE ~ Active(s)
          BY <2>0, <3>1, <5>1 DEF StreamTo, IdleStream, Live
        <5>2. CASE Active(s)
          <6>1. snap[<<a, s>>] = <<>> /\ <<a, s>> \notin subs
            BY <1>3, <3>1, <3>5, <5>2 DEF Misses
          <6>2. LiveStream(a, s)
            BY <2>0, <3>1, <5>2 DEF StreamTo, Live
          <6>3. log \in Seq(Published) /\ Len(log) \in Nat
            BY ServerFacts
          <6>4. out[<<a, s>>] = Piece(log, Len(log), Len(log)) /\ Len(log) \in 0 .. Len(log)
            BY <6>1, <6>2, <6>3 DEF LiveStream
          <6> QED BY <6>1, <6>3, <6>4, PieceEmpty
        <5> QED BY <5>1, <5>2
      <4>2. Reads(a, s)' => a \notin synced'
        <5>1. CASE ~ Active(s)
          BY <1>3, <1>6, <5>1
        <5>2. CASE Misses(a, s)
          BY <1>3, <5>2 DEF Reads, Cur
        <5> QED BY <3>5, <5>1, <5>2
      <4>3. LiveStream(a, s)'
        BY <1>2, <3>2, <3>3, <4>1, <4>2, WriteFirst
      <4> QED BY <2>2, <4>3 DEF StreamTo
    <3> QED BY <3>4, <3>5
  <2> QED BY <2>1, <2>2
<1>10. ASSUME NEW a \in Agent, NEW q \in Server, q # s PROVE StreamTo(a, q)'
  <2>1. ~ Live(a, q) /\ ~ Live(a, q)'
    BY <1>5, <1>10 DEF Live
  <2>2. out'[<<a, q>>] = out[<<a, q>>] /\ snap'[<<a, q>>] = snap[<<a, q>>]
    BY <1>10, WriteToAgent
  <2>3. IdleStream(a, q)
    BY <2>1 DEF Agents, StreamTo
  <2>4. IdleStream(a, q)'
    BY <1>2, <1>3, <2>2, <2>3 DEF IdleStream
  <2> QED BY <2>1, <2>4 DEF StreamTo
<1>11. ASSUME NEW a \in Agent, NEW q \in Server PROVE StreamTo(a, q)'
  <2>1. CASE q = s
    <3>1. StreamTo(a, s)'
      BY <1>9
    <3> QED BY <2>1, <3>1 DEF StreamTo, Live, LiveStream, IdleStream, Reads
  <2>2. CASE q # s
    BY <1>10, <2>2
  <2> QED BY <2>1, <2>2
<1> QED BY <1>8, <1>11 DEF Agents

\* What the end of a server leaves to the agents.
LEMMA DieEffect ==
    ASSUME ServerInv, AgentTypeOK, NEW s \in Server, Up(s), Dies(s), ServerEffect
    PROVE  /\ UNCHANGED <<agent, sets, log>>
           /\ synced' = {a \in synced : Cur(a) # s}
           /\ ~ Active(s)'
           /\ \A a \in Agent : /\ <<a, s>> \notin leftover' =>
                                     snap'[<<a, s>>] = <<>> /\ out'[<<a, s>>] = <<>>
                               /\ ~ Live(a, s)'
           /\ \A q \in Server : q # s =>
                /\ server'[q] = server[q]
                /\ q \in tainted => q \in tainted'
                /\ q \in tainted' => q \in tainted \/ server[q].asking \/ NoTable(q)
                /\ \A a \in Agent : /\ <<a, q>> \in subs => <<a, q>> \in subs'
                                    /\ <<a, q>> \in leftover' <=> <<a, q>> \in leftover
                                    /\ snap'[<<a, q>>] = snap[<<a, q>>]
                                    /\ out'[<<a, q>>] = out[<<a, q>>]
<1> PICK msgs \in Seq(Published) : Die(s, msgs)
  BY DEF Dies
<1> PICK queues : queues = Publish(s, msgs, Wanted)
  OBVIOUS
<1>1. server \in [Server -> ServerRecord]
  BY ServerFacts, ServerRecords
<1>2. /\ server' = [server EXCEPT ![s] = Down] /\ log' = log
      /\ subs' = {p \in subs : s \notin {p[1], p[2]}}
      /\ snap' \in Remains(s, snap) /\ out' \in Remains(s, queues)
      /\ tainted' = (tainted \ {s}) \cup
          {q \in {Peer(s)} : \/ server[q].asking
                             \/ server[q].kvmap = Null /\ out'[<<q, s>>] # <<>>}
  BY DEF Die, Closed
<1>3. server'[s] = Down /\ \A q \in Server : q # s => server'[q] = server[q]
  BY <1>1, <1>2
<1>4. {t \in Server : Up(t) /\ server'[t].state = "DOWN"} = {s}
  BY <1>3 DEF Up, Down
<1>b. {t \in Server : server'[t].sequence > server[t].sequence} = {}
  <2>1. ASSUME NEW t \in Server PROVE ~ (server'[t].sequence > server[t].sequence)
    <3>1. server[t].sequence \in Nat /\ server'[t].sequence \in {0, server[t].sequence}
      BY <1>3, ServerFacts DEF Down
    <3> QED BY <3>1
  <2> QED BY <2>1
<1>5. /\ UNCHANGED <<agent, sets>>
      /\ synced' = {a \in synced : Cur(a) \notin {s}}
      /\ leftover' = leftover \cup {p \in Agent \X {s} : snap'[p] # <<>> \/ out'[p] # <<>>}
  <2>1. (Agent \X {}) \ subs = {}
    OBVIOUS
  <2> QED BY <1>4, <1>b, <2>1 DEF ServerEffect
<1>6. ~ Active(s)'
  BY <1>3 DEF Active, Down
<1>7. ASSUME NEW a \in Agent
      PROVE  /\ <<a, s>> \notin leftover' => snap'[<<a, s>>] = <<>> /\ out'[<<a, s>>] = <<>>
             /\ ~ Live(a, s)'
  <2>1. <<a, s>> \in Agent \X {s}
    OBVIOUS
  <2> QED BY <1>5, <1>6, <2>1 DEF Live
<1>8. ASSUME NEW q \in Server, q # s
      PROVE  /\ server'[q] = server[q]
             /\ q \in tainted => q \in tainted'
             /\ q \in tainted' => q \in tainted \/ server[q].asking \/ NoTable(q)
  BY <1>2, <1>3, <1>8 DEF NoTable
<1>9. ASSUME NEW q \in Server, q # s, NEW a \in Agent
      PROVE  /\ <<a, q>> \in subs => <<a, q>> \in subs'
             /\ <<a, q>> \in leftover' <=> <<a, q>> \in leftover
             /\ snap'[<<a, q>>] = snap[<<a, q>>]
             /\ out'[<<a, q>>] = out[<<a, q>>]
  <2>1. PICK p \in Pair : p = <<a, q>>
    BY PairOfAgent
  <2>2. p[1] # s /\ p[2] # s /\ s \notin {p[1], p[2]} /\ p \notin Agent \X {s}
    BY <1>9, <2>1, PairOfAgent
  <2>3. snap \in [Pair -> Seq(Reply)] /\ out \in [Pair -> Seq(Published)]
    BY AgentFacts
  <2>4. snap'[p] = snap[p]
    <3>1. snap' \in Remains(s, snap) /\ snap \in [Pair -> Seq(Reply)]
      BY <1>2, <2>3
    <3>2. \A x \in Pair : x[1] # s /\ x[2] # s => snap'[x] = snap[x]
      BY <3>1, RemainsIs
    <3> QED BY <2>2, <3>2
  <2>5. out'[p] = out[p]
    <3>1. /\ queues \in [Pair -> Seq(Published)]
          /\ queues[p] = out[p]
      <4>1. NetTypeOK
        BY ServerFacts
      <4> QED BY <2>2, <4>1, PublishIs
    <3> PICK queue : queue = queues
      OBVIOUS
    <3>2. out' \in Remains(s, queue) /\ queue \in [Pair -> Seq(Published)]
      BY <1>2, <3>1
    <3> PICK left : left = out'
      OBVIOUS
    <3>3. \A x \in Pair : x[1] # s /\ x[2] # s => left[x] = queue[x]
      BY <3>2, RemainsIs, SMTT(60)
    <3> QED BY <2>2, <3>1, <3>3
  <2>6. (p \in subs => p \in subs') /\ (p \in leftover' <=> p \in leftover)
    BY <1>2, <1>5, <2>2
  <2> QED BY <2>1, <2>4, <2>5, <2>6
<1>10. synced' = {a \in synced : Cur(a) # s}
  BY <1>5
<1> QED BY <1>2, <1>5, <1>6, <1>7, <1>8, <1>9, <1>10

\* A server dies: what it has sent is a piece of the log no more.
LEMMA DieAgents ==
    ASSUME ServerInv, AgentTypeOK, Agents, NEW s \in Server, Up(s), Dies(s), ServerEffect
    PROVE  Agents'
<1>1. /\ UNCHANGED <<agent, sets, log>>
      /\ synced' = {a \in synced : Cur(a) # s} /\ synced' \subseteq synced
  BY DieEffect
<1>2. log \in Seq(Published) /\ LogGrows
  <2>1. log \in Seq(Published) /\ Len(log) \in Nat
    BY ServerFacts
  <2> QED BY <1>1, <2>1 DEF LogGrows
<1>3. Fewer
  BY DieFewer
<1>4. ASSUME NEW q \in Server, q # s, NEW a \in Agent PROVE Live(a, q)' <=> Live(a, q)
  <2>1. /\ server'[q] = server[q]
        /\ q \in tainted => q \in tainted'
        /\ q \in tainted' => q \in tainted \/ server[q].asking \/ NoTable(q)
        /\ <<a, q>> \in leftover' <=> <<a, q>> \in leftover
    BY <1>4, DieEffect
  <2>2. (Active(q)' <=> Active(q)) /\ (NoTable(q)' <=> NoTable(q))
    BY <2>1, KeptServer
  <2>3. server[q].asking => NoTable(q)
    BY ServerFacts DEF RolesOf
  <2> QED BY <2>1, <2>2, <2>3 DEF Live
<1>5. ASSUME NEW a \in Agent, NEW q \in Server PROVE StreamTo(a, q)'
  <2>1. CASE q = s
    <3>1. /\ <<a, q>> \notin leftover' => snap'[<<a, q>>] = <<>> /\ out'[<<a, q>>] = <<>>
          /\ ~ Live(a, q)'
      BY <2>1, DieEffect
    <3>2. IdleStream(a, q)'
      BY <3>1 DEF IdleStream
    <3> QED BY <3>1, <3>2 DEF StreamTo
  <2>2. CASE q # s
    <3>1. /\ q \notin tainted' => q \notin tainted
          /\ <<a, q>> \in leftover' <=> <<a, q>> \in leftover
          /\ <<a, q>> \in subs => <<a, q>> \in subs'
          /\ out'[<<a, q>>] = out[<<a, q>>] /\ snap'[<<a, q>>] = snap[<<a, q>>]
      BY <2>2, DieEffect
    <3>2. StreamTo(a, q) /\ Steady(a)
      BY <1>1, <1>2, <1>3, GoodStays DEF Agents
    <3>3. snap[<<a, q>>] \in Seq(Reply)
      BY AgentFacts, PairOfAgent
    <3>4. Live(a, q)' <=> Live(a, q)
      BY <1>4, <2>2
    <3>5. agent'[a] = agent[a] /\ (a \in synced' => a \in synced) /\ log' = log
      BY <1>1
    <3> QED BY <1>2, <3>1, <3>2, <3>3, <3>4, <3>5, StreamStays
  <2> QED BY <2>1, <2>2
<1>6. ASSUME NEW a \in Agent PROVE AgentOf(a)'
  <2>1. AgentOf(a) /\ Cur(a)' = Cur(a) /\ Cur(a) \in Server
    BY <1>1, AgentFacts DEF Agents, Cur
  <2>2. ASSUME NEW q \in Server, q = Cur(a), q # s, Live(a, q) PROVE Live(a, Cur(a))'
    <3>1. Live(a, q)'
      BY <1>4, <2>2
    <3> QED BY <2>1, <2>2, <3>1 DEF Live
  <2> QED BY <1>1, <2>1, <2>2 DEF AgentOf
<1> QED BY <1>5, <1>6 DEF Agents

\* A step that adds no update to a list.
LEMMA NothingPended ==
    ASSUME NEW s \in Server, \A q \in Server : q # s => server'[q] = server[q],
           server'[s].pending \in {<<>>, server[s].pending},
           log' = log, updates' = updates, tainted \subseteq tainted'
    PROVE  Fewer
<1>1. ASSUME NEW q \in Server, q \notin tainted'
      PROVE  \/ server'[q].pending = <<>>
             \/ q \notin tainted /\ server'[q].pending = server[q].pending
  BY <1>1
<1>2. ASSUME NEW q \in Server, NEW a \in Agent
      PROVE  updates'[<<a, q>>] \in {<<>>, updates[<<a, q>>]}
  OBVIOUS
<1> QED BY <1>1, <1>2, LessFewer

\* A server starts: the queues of the process before it are leftover, or empty.
LEMMA StartAgents ==
    ASSUME ServerInv, AgentTypeOK, Agents, NEW s \in Server, Start(s), ServerEffect
    PROVE  Agents'
<1>0. server \in [Server -> ServerRecord]
  BY ServerFacts, ServerRecords
<1>1. /\ ~ Up(s) /\ UNCHANGED <<subs, pubs, snap, out, log, updates, tainted>>
      /\ server'[s].state = StartState(s)
      /\ server'[s].pending = <<>>
      /\ \A q \in Server : q # s => server'[q] = server[q]
  BY <1>0 DEF Start, Down, netVars
<1>2. ~ Active(s) /\ ~ Active(s)'
  BY <1>1 DEF Up, Active, StartState
<1>3. Fewer
  BY <1>1, NothingPended
<1> QED BY <1>1, <1>2, <1>3, QuietAgents

\* Numbers change neither uuid nor key.
LEMMA RenumberedBears ==
    ASSUME NEW list \in Seq(Update), NEW from \in Nat, NEW u, NEW k,
           Bears(Renumbered(list, from), u, k)
    PROVE  Bears(list, u, k)
<1>1. /\ DOMAIN Renumbered(list, from) = 1 .. Len(list)
      /\ \A i \in 1 .. Len(list) : /\ Renumbered(list, from)[i] = Numbered(list[i], from + i)
                                   /\ list[i] \in Update
  BY RenumberedType
<1>2. PICK i \in 1 .. Len(list) : /\ Renumbered(list, from)[i].uuid = u
                                  /\ Renumbered(list, from)[i].key = k
  BY <1>1 DEF Bears
<1>3. list[i].uuid = u /\ list[i].key = k
  BY <1>1, <1>2 DEF Numbered, Update, Message
<1>4. i \in DOMAIN list
  OBVIOUS
<1> QED BY <1>3, <1>4 DEF Bears

\* A takeover moves updates from the list to the log.
LEMMA TakeOverFewer ==
    ASSUME ServerInv, NEW s \in Server, MayTakeOver(s),
           NoTable(s) => server[s].pending = <<>>,
           server' = [server EXCEPT ![s] = NewActive(s)], TakesOver(s),
           UNCHANGED <<subs, pubs, tainted, crashes, updates>>
    PROVE  Fewer
<1> PICK msgs : msgs = Renumbered(server[s].pending, server[s].sequence)
  OBVIOUS
<1> PICK r : r = NewActive(s)
  OBVIOUS
<1>1. msgs \in Seq(Published) /\ r \in ServerRecord /\ Writes_(s, msgs, r)
  BY TakeOverWrites
<1>2. Runs(s) /\ server[s].pending \in Seq(Update) /\ server[s].sequence \in Nat
  BY ServerFacts DEF MayTakeOver
<1>3. r.pending = <<>>
  BY ServerFacts, NewActiveIs
<1>4. ASSUME Holder(s), NEW u, NEW k, Bears(msgs, u, k) PROVE Seen(u, k)
  <2>1. Bears(server[s].pending, u, k)
    BY <1>2, <1>4, RenumberedBears
  <2>2. s \in Server \ tainted
    BY <1>4 DEF Holder
  <2> QED BY <2>1, <2>2 DEF Seen
<1>5. \A u, k : \A q \in Server, a \in Agent :
          Bears(updates'[<<a, q>>], u, k) => Seen(u, k)
  BY DEF Seen
<1>6. Holder(s) => \A u, k : Bears(msgs, u, k) => Seen(u, k)
  BY <1>4
<1> QED BY <1>1, <1>2, <1>3, <1>5, <1>6, WriteFewer

\* A server takes over: what it publishes is the log from here on.
LEMMA TakeOverAgents ==
    ASSUME ServerInv, AgentTypeOK, Agents, NEW s \in Server, MayTakeOver(s), ServerEffect,
           NoTable(s) => server[s].pending = <<>>,
           server' = [server EXCEPT ![s] = NewActive(s)], TakesOver(s),
           UNCHANGED <<subs, pubs, tainted, crashes, updates>>,
           \A a \in Agent, q \in Server :
              \/ snap'[<<a, q>>] = snap[<<a, q>>]
              \/ /\ q = s /\ ~ NoTable(s)
                 /\ snap'[<<a, s>>] = snap[<<a, s>>] \o Snapshot(NewActive(s))
    PROVE  Agents'
<1>1. PICK msgs : msgs = Renumbered(server[s].pending, server[s].sequence)
  OBVIOUS
<1>2. PICK r : r = NewActive(s)
  OBVIOUS
<1>3. msgs \in Seq(Published) /\ r \in ServerRecord /\ Writes_(s, msgs, r)
  BY <1>1, <1>2, TakeOverWrites
<1>4. Runs(s)
  BY DEF MayTakeOver
<1>5. Fewer
  BY TakeOverFewer
<1>6. \A a \in Agent, q \in Server :
         \/ snap'[<<a, q>>] = snap[<<a, q>>]
         \/ /\ q = s /\ ~ NoTable(s)
            /\ snap'[<<a, s>>] = snap[<<a, s>>] \o Snapshot(r)
  BY <1>2
<1> QED BY <1>3, <1>4, <1>5, <1>6, WriteAgents

\* Every outcome of a state from the peer keeps the agents' invariant.
LEMMA RecvStateAgents ==
    ASSUME ServerInv, AgentTypeOK, Agents, NEW s \in Server, RecvState(s), ServerEffect
    PROVE  Agents'
<1>0. server \in [Server -> ServerRecord] /\ ServerTypeOK
  BY ServerFacts, ServerRecords
<1>1. CASE TurnsPassive(s)
  <2>1. /\ UNCHANGED <<subs, pubs, snap, out, log, updates, tainted>>
        /\ server'[s].pending = server[s].pending
        /\ server'[s].state = "PASSIVE" /\ ~ Active(s)
        /\ \A q \in Server : q # s => server'[q] = server[q]
    BY <1>0, <1>1 DEF TurnsPassive, ServerRecord, netVars, Active
  <2>2. Up(s)' /\ ~ Active(s)'
    BY <2>1 DEF Up, Active
  <2>3. Fewer
    BY <2>1, NothingPended
  <2> QED BY <2>1, <2>2, <2>3, QuietAgents
<1>2. CASE Runs(s) /\ Dies(s)
  BY <1>2, DieAgents DEF Runs
<1>3. CASE /\ MayTakeOver(s) /\ (NoTable(s) => server[s].pending = <<>>)
           /\ server' = [server EXCEPT ![s] = NewActive(s)]
           /\ TakesOver(s)
           /\ UNCHANGED <<subs, pubs, ask, snap, updates, tainted, crashes>>
  BY <1>3, TakeOverAgents
<1> QED BY <1>0, <1>1, <1>2, <1>3, RecvCases

\* Every outcome of a request keeps it; an answer is a snapshot of the log.
LEMMA VoterAgents ==
    ASSUME ServerInv, AgentTypeOK, Agents, NEW s \in Server, NEW x \in Agent \cup {Peer(s)},
           Voter(s, x), ServerEffect
    PROVE  Agents'
<1>0. ServerTypeOK /\ Runs(s) /\ Up(s) /\ server[s] \in ServerRecord
  BY ServerFacts, ServerRecords DEF Voter, Runs
<1>1. CASE Refuses(s, x)
  <2>1. UNCHANGED <<subs, pubs, snap, out, updates, server, log, tainted>>
    BY <1>1 DEF Refuses
  <2>2. Up(s)' /\ Fewer
    BY <1>0, <2>1, NothingPended DEF Up
  <2> QED BY <2>1, <2>2, QuietAgents
<1>2. CASE Runs(s) /\ Dies(s)
  BY <1>0, <1>2, DieAgents
<1>a. ASSUME NEW r, snap' = [snap EXCEPT ![<<x, s>>] = @ \o Snapshot(r)], Replies(s, x)
      PROVE  \A a \in Agent, q \in Server :
                \/ snap'[<<a, q>>] = snap[<<a, q>>]
                \/ /\ q = s /\ ~ NoTable(s)
                   /\ snap'[<<a, s>>] = snap[<<a, s>>] \o Snapshot(r)
  <2>1. ASSUME NEW a \in Agent, NEW q \in Server
        PROVE  \/ snap'[<<a, q>>] = snap[<<a, q>>]
               \/ /\ q = s /\ ~ NoTable(s)
                  /\ snap'[<<a, s>>] = snap[<<a, s>>] \o Snapshot(r)
    <3>1. <<a, q>> \in Pair /\ snap \in [Pair -> Seq(Reply)]
      BY AgentFacts, PairOfAgent
    <3>2. CASE <<a, q>> # <<x, s>>
      BY <1>a, <3>1, <3>2
    <3>3. CASE <<a, q>> = <<x, s>>
      BY <1>a, <3>1, <3>3 DEF Replies
    <3> QED BY <3>2, <3>3
  <2> QED BY <2>1
<1>3. CASE /\ Replies(s, x) /\ Active(s)
           /\ snap' = [snap EXCEPT ![<<x, s>>] = @ \o Snapshot(server[s])]
           /\ UNCHANGED <<server, out, log>>
  <2>1. ~ NoTable(s) /\ UNCHANGED <<subs, pubs, tainted, crashes, updates>>
    BY <1>3 DEF Replies
  <2>2. Writes_(s, <<>>, server[s])
    BY <1>3, <2>1, NothingWritten
  <2>3. Fewer
    BY <1>3, <2>1, NothingPended
  <2>4. <<>> \in Seq(Published)
    OBVIOUS
  <2>5. \A a \in Agent, q \in Server :
                \/ snap'[<<a, q>>] = snap[<<a, q>>]
                \/ /\ q = s /\ ~ NoTable(s)
                   /\ snap'[<<a, s>>] = snap[<<a, s>>] \o Snapshot(server[s])
    BY <1>3, <1>a
  <2> QED BY <1>0, <1>3, <2>2, <2>3, <2>4, <2>5, WriteAgents
<1>4. CASE /\ Replies(s, x) /\ MayTakeOver(s)
           /\ snap' = [snap EXCEPT ![<<x, s>>] = @ \o Snapshot(NewActive(s))]
           /\ server' = [server EXCEPT ![s] = NewActive(s)]
           /\ TakesOver(s)
  <2>1. ~ NoTable(s) /\ UNCHANGED <<subs, pubs, tainted, crashes, updates>>
    BY <1>4 DEF Replies
  <2>2. \A a \in Agent, q \in Server :
                \/ snap'[<<a, q>>] = snap[<<a, q>>]
                \/ /\ q = s /\ ~ NoTable(s)
                   /\ snap'[<<a, s>>] = snap[<<a, s>>] \o Snapshot(NewActive(s))
    BY <1>4, <1>a
  <2> QED BY <1>4, <2>1, <2>2, TakeOverAgents
<1> QED BY <1>0, <1>1, <1>2, <1>3, <1>4, VoterCases

\* A value of a table that counts is in the log, with its uuid and its key.
LEMMA ValueBears ==
    ASSUME ServerInv, NEW s \in Server, Holder(s), NEW k \in Key, server[s].kvmap[k] # NoMsg
    PROVE  Bears(log, server[s].kvmap[k].uuid, k)
<1> PICK n \in Nat : n = server[s].sequence
  BY ServerFacts
<1>1. /\ server[s].kvmap \in Table /\ Names(server[s].kvmap) = Map!TableOf(log, n)
      /\ n <= Len(log) /\ log \in Seq(Published) /\ Len(log) \in Nat
  BY ServerFacts DEF Holder, CopyOf, TableIs
<1>2. Map!TableOf(log, n)[k] = server[s].kvmap[k].uuid
  BY <1>1, NamesIs
<1>3. server[s].kvmap[k].uuid # NoMsg
  <2>1. server[s].kvmap[k] \in Update
    BY <1>1 DEF Table
  <2>2. server[s].kvmap[k].uuid \in Nat
    BY <2>1, UpdateFields
  <2> QED BY <2>2, CloneAssumption
<1>4. ~ NoneWith(log, n, k)
  BY <1>2, <1>3, TableOfIs
<1>5. PICK i \in 1 .. n : LastWith(log, n, k, i)
  BY <1>4, LastOrNone
<1>6. Map!TableOf(log, n)[k] = log[i].uuid
  BY <1>2, <1>3, <1>5, TableOfIs
<1>7. i \in DOMAIN log /\ log[i].key = k
  BY <1>1, <1>5 DEF LastWith
<1> QED BY <1>2, <1>6, <1>7 DEF Bears

\* A flush keeps it: active, it publishes what it adds to the log.
LEMMA FlushAgents ==
    ASSUME ServerInv, AgentTypeOK, Agents, NEW s \in Server, Flush(s), ServerEffect
    PROVE  Agents'
<1>0. server \in [Server -> ServerRecord]
  BY ServerFacts, ServerRecords
<1>1. PICK msgs \in Seq(Published), r \in ServerRecord :
             /\ Runs(s) /\ ~ NoTable(s)
             /\ \A i \in 1 .. Len(msgs) : /\ msgs[i].seq = server[s].sequence + i
                                          /\ \E k \in Key : server[s].kvmap[k] # NoMsg
                                                 /\ msgs[i].uuid = server[s].kvmap[k].uuid
                                                 /\ msgs[i].key = k
             /\ r.state = server[s].state /\ r.asking = server[s].asking
             /\ r.pending = server[s].pending
             /\ r.sequence = server[s].sequence + Len(msgs)
             /\ r.kvmap = Stored(server[s].kvmap, msgs)
             /\ r.kvmap \in Table /\ Tidy(r.kvmap)
             /\ server' = [server EXCEPT ![s] = r]
             /\ out' = Publish(s, msgs, Wanted)
             /\ log' = IF Active(s) /\ s \notin tainted THEN log \o msgs ELSE log
             /\ tainted' = IF Active(s) THEN tainted ELSE tainted \cup {s}
             /\ UNCHANGED <<subs, pubs, ask, snap, updates, crashes>>
  BY FlushIs
<1>2. server'[s] = r /\ \A q \in Server : q # s => server'[q] = server[q]
  BY <1>0, <1>1
<1>3. CASE Active(s)
  <2>1. Writes_(s, msgs, r)
    BY <1>1, <1>3, FlushWrites
  <2>2. ASSUME Holder(s), NEW u, NEW k, Bears(msgs, u, k) PROVE Seen(u, k)
    <3>1. DOMAIN msgs = 1 .. Len(msgs)
      OBVIOUS
    <3>2. PICK i \in 1 .. Len(msgs) : msgs[i].uuid = u /\ msgs[i].key = k
      BY <2>2, <3>1 DEF Bears
    <3>3. k \in Key /\ server[s].kvmap[k] # NoMsg /\ u = server[s].kvmap[k].uuid
      BY <1>1, <3>2
    <3>4. Bears(log, u, k)
      BY <2>2, <3>3, ValueBears
    <3> QED BY <3>4 DEF Seen
  <2>3. Holder(s) => \A u, k : Bears(msgs, u, k) => Seen(u, k)
    BY <2>2
  <2>4. \A u, k : \A q \in Server, a \in Agent :
            Bears(updates'[<<a, q>>], u, k) => Seen(u, k)
    BY <1>1 DEF Seen
  <2>5. Fewer
    BY <1>1, <1>3, <2>1, <2>3, <2>4, WriteFewer
  <2>6. \A a \in Agent, q \in Server : snap'[<<a, q>>] = snap[<<a, q>>]
    BY <1>1
  <2> QED BY <1>1, <1>3, <2>1, <2>5, <2>6, WriteAgents
<1>4. CASE ~ Active(s)
  <2>1. /\ UNCHANGED <<subs, pubs, snap, log, updates>> /\ tainted' = tainted \cup {s}
        /\ server'[s].pending = server[s].pending /\ server'[s].state = server[s].state
        /\ out' = Publish(s, msgs, Wanted)
    BY <1>1, <1>2, <1>4
  <2>2. Fewer
    BY <1>2, <2>1, NothingPended
  <2>3. Up(s)' /\ ~ Active(s)'
    BY <1>1, <1>4, <2>1 DEF Up, Runs, Active
  <2>4. ASSUME NEW a \in Agent, NEW q \in Server, q \notin tainted'
        PROVE  out'[<<a, q>>] = out[<<a, q>>] /\ snap'[<<a, q>>] = snap[<<a, q>>]
    <3>1. q # s /\ <<a, q>> \in Pair /\ NetTypeOK /\ <<a, q>>[2] = q
      BY <2>1, <2>4, AgentFacts, PairOfAgent
    <3>2. Publish(s, msgs, Wanted)[<<a, q>>] =
             IF <<a, q>>[2] = s /\ <<a, q>> \in subs /\ <<a, q>> \in Wanted
             THEN out[<<a, q>>] \o Wired(msgs) ELSE out[<<a, q>>]
      BY <3>1, PublishIs
    <3> QED BY <2>1, <3>1, <3>2
  <2> QED BY <1>2, <1>4, <2>1, <2>2, <2>3, <2>4, QuietAgents
<1> QED BY <1>3, <1>4

\* Asking for a snapshot sends the agents nothing.
LEMMA AskPeerAgents ==
    ASSUME ServerInv, AgentTypeOK, Agents, NEW s \in Server, AskPeer(s), ServerEffect
    PROVE  Agents'
<1>0. server \in [Server -> ServerRecord]
  BY ServerFacts, ServerRecords
<1>1. /\ Passive(s) /\ UNCHANGED <<subs, pubs, snap, out, log, updates, tainted>>
      /\ server'[s].pending = server[s].pending
      /\ server'[s].state = server[s].state
      /\ \A q \in Server : q # s => server'[q] = server[q]
  BY <1>0 DEF AskPeer, ServerRecord
<1>2. Up(s)' /\ ~ Active(s) /\ ~ Active(s)'
  BY <1>1 DEF Up, Active, Passive
<1>3. Fewer
  BY <1>1, NothingPended
<1> QED BY <1>1, <1>2, <1>3, QuietAgents

\* So does loading one.
LEMMA SnapshotLoadedAgents ==
    ASSUME ServerInv, AgentTypeOK, Agents, NEW s \in Server, SnapshotLoaded(s), ServerEffect
    PROVE  Agents'
<1>0. /\ server \in [Server -> ServerRecord] /\ RolesOf(s) /\ server[s] \in ServerRecord
      /\ Peer(s) \in Server
  BY ServerFacts, ServerRecords
<1>1. /\ server[s].asking /\ UNCHANGED <<subs, pubs, out, log, updates>>
      /\ tainted \subseteq tainted' /\ tainted' \subseteq tainted \cup {s}
      /\ server'[s].pending = server[s].pending
      /\ server'[s].state = server[s].state
      /\ \A q \in Server : q # s => server'[q] = server[q]
      /\ snap' = [snap EXCEPT ![FromPeer(s)] = <<>>]
  BY <1>0 DEF SnapshotLoaded, ServerRecord, FromPeer
<1>2. Passive(s) /\ Up(s)' /\ ~ Active(s) /\ ~ Active(s)'
  BY <1>0, <1>1 DEF RolesOf, Up, Active, Passive
<1>3. Fewer
  BY <1>1, NothingPended
<1>4. ASSUME NEW a \in Agent, NEW q \in Server PROVE snap'[<<a, q>>] = snap[<<a, q>>]
  <2>1. FromPeer(s) # <<a, q>> /\ <<a, q>> \in Pair /\ snap \in [Pair -> Seq(Reply)]
    BY AgentFacts, PairOfAgent
  <2> QED BY <1>1, <2>1
<1> QED BY <1>1, <1>2, <1>3, <1>4, QuietAgents

\* So does an update of the peer.
LEMMA SubscriberAgents ==
    ASSUME ServerInv, AgentTypeOK, Agents, NEW s \in Server, Subscriber(s), ServerEffect
    PROVE  Agents'
<1>0. /\ server \in [Server -> ServerRecord] /\ ServerTypeOK /\ server[s] \in ServerRecord
      /\ out[FromPeer(s)] \in Seq(Published)
      /\ Len(log) \in Nat /\ log \in Seq(Published)
  BY ServerFacts, ServerRecords
<1>1. /\ Passive(s) /\ Runs(s) /\ ~ NoTable(s) /\ UNCHANGED <<subs, pubs, snap, log, updates, tainted>>
      /\ out[FromPeer(s)] # <<>>
      /\ out' = [out EXCEPT ![FromPeer(s)] = Tail(@)]
  BY DEF Subscriber, FromPeer
<1> PICK m \in Published : m = Head(out[FromPeer(s)])
  BY <1>0, <1>1
<1>2. m \in Update
  BY PublishedIsUpdate
<1>3. Dup(m) \in Update /\ Dup(m).uuid = m.uuid /\ Dup(m).key = m.key
  BY <1>2, DupType DEF Dup, Update, Message
<1>4. /\ server'[s].pending = Pended(s, Dup(m))
      /\ server'[s].state = server[s].state
      /\ \A q \in Server : q # s => server'[q] = server[q]
  BY <1>0 DEF Subscriber, FromPeer, ServerRecord
<1>5. Up(s)' /\ ~ Active(s) /\ ~ Active(s)'
  BY <1>1, <1>4 DEF Up, Passive, Active
<1>6. ASSUME s \notin tainted, NEW u, NEW k, Bears(Pended(s, Dup(m)), u, k) PROVE Seen(u, k)
  <2>1. CASE Bears(server[s].pending, u, k)
    BY <1>6, <2>1 DEF Seen
  <2>2. CASE m.uuid = u /\ m.key = k
    <3>1. PICK i \in 1 .. Len(log) : \E j \in 1 .. i :
               m.key = log[j].key /\ m.uuid = log[j].uuid
      BY <1>1, <1>6, ReadIs
    <3>2. PICK j \in 1 .. i : m.key = log[j].key /\ m.uuid = log[j].uuid
      BY <3>1
    <3>3. j \in DOMAIN log
      BY <1>0
    <3> QED BY <2>2, <3>2, <3>3 DEF Seen, Bears
  <2> QED BY <1>0, <1>3, <1>6, <2>1, <2>2, PendedBears
<1>7. Fewer
  <2>1. \A u, k : Bears(log', u, k) => Seen(u, k)
    BY <1>1 DEF Seen
  <2>2. \A u, k : \A q \in Server, a \in Agent : Bears(updates'[<<a, q>>], u, k) => Seen(u, k)
    BY <1>1 DEF Seen
  <2>3. ASSUME NEW u, NEW k, NEW q \in Server, q \notin tainted', Bears(server'[q].pending, u, k)
        PROVE  Seen(u, k)
    <3>1. CASE q = s
      <4>1. s \notin tainted /\ Bears(Pended(s, Dup(m)), u, k)
        BY <1>1, <1>4, <2>3, <3>1
      <4> QED BY <1>6, <4>1
    <3>2. CASE q # s
      <4>1. q \in Server \ tainted /\ Bears(server[q].pending, u, k)
        BY <1>1, <1>4, <2>3, <3>2
      <4> QED BY <4>1 DEF Seen
    <3> QED BY <3>1, <3>2
  <2> QED BY <2>1, <2>2, <2>3, SeenIs
<1>8. ASSUME NEW a \in Agent, NEW q \in Server PROVE out'[<<a, q>>] = out[<<a, q>>]
  <2>1. FromPeer(s) # <<a, q>> /\ <<a, q>> \in Pair /\ out \in [Pair -> Seq(Published)]
    BY AgentFacts, PairOfAgent
  <2> QED BY <1>1, <2>1
<1> QED BY <1>1, <1>4, <1>5, <1>7, <1>8, QuietAgents

\* An update of a client goes to the log and out, or is held back.
LEMMA CollectorAgents ==
    ASSUME ServerInv, AgentTypeOK, Agents, NEW s \in Server, NEW a \in Agent, Collector(s, a),
           ServerEffect
    PROVE  Agents'
<1>0. /\ NetTypeOK /\ ServerTypeOK /\ <<a, s>> \in Agent \X Server
      /\ server \in [Server -> ServerRecord] /\ server[s] \in ServerRecord
  BY ServerFacts, ServerRecords
<1>1. PICK queue \in Seq(Update) : queue = updates[<<a, s>>]
  BY <1>0 DEF NetTypeOK
<1>2. queue # <<>> /\ Runs(s) /\ UNCHANGED crashes
  BY <1>1 DEF Collector
<1>3. PICK m \in Update : m = Head(queue)
  BY <1>2
<1>4. Seen(m.uuid, m.key)
  <2>1. Bears(queue, m.uuid, m.key)
    BY <1>2, <1>3, BearsOf
  <2> QED BY <1>1, <2>1 DEF Seen
<1>5. ASSUME updates' = [updates EXCEPT ![<<a, s>>] = Tail(@)]
      PROVE  \A u, k : \A q \in Server, b \in Agent :
                Bears(updates'[<<b, q>>], u, k) => Seen(u, k)
  <2>1. ASSUME NEW u, NEW k, NEW q \in Server, NEW b \in Agent, Bears(updates'[<<b, q>>], u, k)
        PROVE  Seen(u, k)
    <3>1. updates \in [Agent \X Server -> Seq(Update)] /\ <<b, q>> \in Agent \X Server
      BY <1>0 DEF NetTypeOK
    <3>2. CASE <<b, q>> = <<a, s>>
      <4>1. updates'[<<b, q>>] = Tail(queue)
        BY <1>1, <1>5, <3>1, <3>2
      <4>2. Bears(queue, u, k)
        BY <1>2, <2>1, <4>1, BearsOf
      <4> QED BY <1>1, <4>2 DEF Seen
    <3>3. CASE <<b, q>> # <<a, s>>
      <4>1. updates'[<<b, q>>] = updates[<<b, q>>]
        BY <1>5, <3>1, <3>3
      <4> QED BY <2>1, <4>1 DEF Seen
    <3> QED BY <3>2, <3>3
  <2> QED BY <2>1
<1>6. CASE Active(s) /\ NoTable(s)
  BY <1>2, <1>6, CollectorDies, DieAgents DEF Runs
<1>7. CASE Active(s) /\ ~ NoTable(s)
  <2>1. /\ updates' = [updates EXCEPT ![<<a, s>>] = Tail(@)]
        /\ CollectActive(s, m)
        /\ UNCHANGED <<subs, pubs, ask, snap>>
    BY <1>1, <1>3, <1>7 DEF Collector
  <2>2. PICK n \in Nat \ {0}, r \in ServerRecord :
             /\ n = server[s].sequence + 1
             /\ r.pending = server[s].pending
             /\ Numbered(m, n) \in Published /\ <<Numbered(m, n)>> \in Seq(Published)
             /\ Writes_(s, <<Numbered(m, n)>>, r)
    BY <1>2, <1>7, <2>1, CollectWrites
  <2>3. PICK msgs : msgs = <<Numbered(m, n)>>
    OBVIOUS
  <2>4. msgs \in Seq(Published) /\ Writes_(s, msgs, r)
    BY <2>2, <2>3
  <2>5. ASSUME NEW u, NEW k, Bears(msgs, u, k) PROVE Seen(u, k)
    <3>1. Numbered(m, n).uuid = m.uuid /\ Numbered(m, n).key = m.key
      BY DEF Numbered, Update, Message
    <3>2. DOMAIN msgs = {1} /\ msgs[1] = Numbered(m, n)
      BY <2>3
    <3>3. u = m.uuid /\ k = m.key
      BY <2>5, <3>1, <3>2 DEF Bears
    <3> QED BY <1>4, <3>3
  <2>6. Fewer
    <3>1. \A u, k : \A q \in Server, b \in Agent :
              Bears(updates'[<<b, q>>], u, k) => Seen(u, k)
      BY <1>5, <2>1
    <3>2. Holder(s) => \A u, k : Bears(msgs, u, k) => Seen(u, k)
      BY <2>5
    <3> QED BY <1>2, <1>7, <2>2, <2>4, <3>1, <3>2, WriteFewer
  <2>7. \A b \in Agent, q \in Server : snap'[<<b, q>>] = snap[<<b, q>>]
    BY <2>1
  <2> QED BY <1>2, <1>7, <2>4, <2>6, <2>7, WriteAgents
<1>8. CASE ~ Active(s)
  <2>1. /\ updates' = [updates EXCEPT ![<<a, s>>] = Tail(@)]
        /\ server' = [server EXCEPT ![s].pending = Pended(s, m)]
        /\ UNCHANGED <<subs, pubs, ask, snap, out, log, tainted>>
    BY <1>1, <1>3, <1>8 DEF Collector
  <2>2. /\ server'[s].pending = Pended(s, m) /\ server'[s].state = server[s].state
        /\ \A q \in Server : q # s => server'[q] = server[q]
    BY <1>0, <2>1 DEF ServerRecord
  <2>3. Up(s)' /\ ~ Active(s)'
    BY <1>2, <1>8, <2>2 DEF Up, Runs, Active
  <2>4. Fewer
    <3>1. \A u, k : Bears(log', u, k) => Seen(u, k)
      BY <2>1 DEF Seen
    <3>2. \A u, k : \A q \in Server, b \in Agent :
              Bears(updates'[<<b, q>>], u, k) => Seen(u, k)
      BY <1>5, <2>1
    <3>3. ASSUME NEW u, NEW k, NEW q \in Server, q \notin tainted', Bears(server'[q].pending, u, k)
          PROVE  Seen(u, k)
      <4>1. CASE q = s
        <5>1. s \in Server \ tainted /\ Bears(Pended(s, m), u, k)
          BY <2>1, <2>2, <3>3, <4>1
        <5>2. Bears(server[s].pending, u, k) \/ (m.uuid = u /\ m.key = k)
          BY <1>0, <5>1, PendedBears
        <5> QED BY <1>4, <5>1, <5>2 DEF Seen
      <4>2. CASE q # s
        <5>1. q \in Server \ tainted /\ Bears(server[q].pending, u, k)
          BY <2>1, <2>2, <3>3, <4>2
        <5> QED BY <5>1 DEF Seen
      <4> QED BY <4>1, <4>2
    <3> QED BY <3>1, <3>2, <3>3, SeenIs
  <2> QED BY <1>8, <2>1, <2>2, <2>3, <2>4, QuietAgents
<1> QED BY <1>6, <1>7, <1>8

\* Every step of a server keeps the agents' invariant.
LEMMA ServerStepAgents ==
    ASSUME ServerInv, AgentTypeOK, Agents, NEW s \in Server, ServerStep(s), ServerEffect
    PROVE  Agents'
<1>1. ASSUME Crash(s) PROVE Agents'
  BY <1>1, CrashDies, DieAgents DEF Crash
<1> QED BY <1>1, StartAgents, RecvStateAgents, FlushAgents, AskPeerAgents, SnapshotLoadedAgents,
           SubscriberAgents, CollectorAgents, VoterAgents DEF ServerStep

\* What an agent reads from s, and its table where that matters, stays.
Calm(a, s) ==
    \/ /\ Cur(a)' = Cur(a) /\ agent'[a].state = agent[a].state
       /\ agent'[a].sequence = agent[a].sequence /\ Steady(a)
    \/ Cur(a) # s /\ ~ Reads(a, s)'

\* A step of agents leaves the servers alone, and subscriptions only come.
Around == UNCHANGED <<server, log, tainted>> /\ subs \subseteq subs' /\ leftover' \subseteq leftover

\* When only agents step, no stream goes dead.
LEMMA AroundLive ==
    ASSUME Around, NEW a \in Agent, NEW s \in Server
    PROVE  /\ Live(a, s) => Live(a, s)'
           /\ Live(a, s)' /\ ~ Live(a, s) => <<a, s>> \in leftover
<1>1. (Active(s)' <=> Active(s)) /\ (NoTable(s)' <=> NoTable(s)) /\ tainted' = tainted
  BY DEF Around, Active, NoTable
<1> QED BY <1>1 DEF Around, Live

\* Then the log is as it was.
LEMMA AroundLog ==
    ASSUME ServerInv, Around
    PROVE  LogGrows /\ log' = log /\ log \in Seq(Published) /\ Len(log) \in Nat
<1>1. log' = log
  BY DEF Around
<1>2. \A s \in Server : log \in Seq(Published) /\ Len(log) \in Nat
  BY ServerFacts
<1>3. log \in Seq(Published) /\ Len(log) \in Nat
  BY <1>2 DEF Server
<1> QED BY <1>1, <1>3 DEF LogGrows

\* A pair whose queues a step leaves alone.
LEMMA CalmStream ==
    ASSUME ServerInv, AgentTypeOK, Agents, Around, NEW a \in Agent, NEW s \in Server, Calm(a, s),
           Reads(a, s)' /\ a \in synced' => a \in synced,
           out'[<<a, s>>] = out[<<a, s>>], snap'[<<a, s>>] = snap[<<a, s>>],
           <<a, s>> \in leftover /\ <<a, s>> \notin leftover' =>
              out[<<a, s>>] = <<>> /\ snap[<<a, s>>] = <<>>
    PROVE  StreamTo(a, s)'
<1>1. StreamTo(a, s) /\ tainted' = tainted
  BY DEF Agents, Around
<1>2. LogGrows /\ log' = log /\ log \in Seq(Published) /\ log' \in Seq(Published)
  BY AroundLog
<1>3. CASE Live(a, s)
  <2>1. LiveStream(a, s) /\ Live(a, s)'
    BY <1>1, <1>3, AroundLive DEF StreamTo
  <2>2. \A j \in 0 .. Len(log) :
           out[<<a, s>>] = Piece(log, j, Len(log)) => out'[<<a, s>>] = Piece(log', j, Len(log'))
    BY <1>2
  <2>3. PICK queue \in Seq(Reply) : queue = snap[<<a, s>>]
    BY AgentFacts, PairOfAgent
  <2>4. queue = snap'[<<a, s>>] /\ \A e \in 1 .. Len(queue) : \A i \in 1 .. e : queue[i] = queue[i]
    BY <2>3
  <2>5. /\ Reads(a, s)' <=> Reads(a, s)
        /\ Cur(a) = s => Cur(a)' = s /\ Steady(a)
        /\ Reads(a, s) => agent'[a].sequence = agent[a].sequence
    BY DEF Calm, Reads, Cur
  <2>a. <<a, s>> \notin subs' => <<a, s>> \notin subs /\ Len(log') = Len(log)
    BY <1>2 DEF Around
  <2>6. LiveStream(a, s)'
    BY <1>2, <2>1, <2>2, <2>3, <2>4, <2>5, <2>a, StreamGoes
  <2> QED BY <2>1, <2>6 DEF StreamTo
<1>4. CASE ~ Live(a, s)
  <2>1. IdleStream(a, s)
    BY <1>1, <1>4 DEF StreamTo
  <2>2. CASE ~ Live(a, s)'
    <3>1. IdleStream(a, s)'
      BY <1>1, <2>1 DEF IdleStream
    <3> QED BY <2>2, <3>1 DEF StreamTo
  <2>3. CASE Live(a, s)'
    <3>1. <<a, s>> \notin leftover' /\ s \notin tainted
      BY <1>1, <2>3 DEF Live
    <3>2. out'[<<a, s>>] = <<>> /\ snap'[<<a, s>>] = <<>>
      BY <2>1, <3>1 DEF IdleStream
    <3>3. ASSUME Reads(a, s)', a \in synced' PROVE FALSE
      <4>1. Cur(a)' = s
        BY <3>3 DEF Reads, Cur
      <4>2. Cur(a) = s
        BY <3>3, <4>1 DEF Calm
      <4>3. Live(a, Cur(a))
        BY <3>3 DEF Agents, AgentOf
      <4> QED BY <1>4, <4>2, <4>3
    <3>4. LiveStream(a, s)'
      BY <1>2, <3>2, <3>3, EmptyStream
    <3> QED BY <2>3, <3>4 DEF StreamTo
  <2> QED BY <2>2, <2>3
<1> QED BY <1>3, <1>4

\* An agent that keeps its server and state is synced as it was.
LEMMA CalmAgent ==
    ASSUME ServerInv, AgentTypeOK, Agents, Around, NEW a \in Agent,
           Cur(a)' = Cur(a), agent'[a].state = agent[a].state, a \in synced' => a \in synced
    PROVE  AgentOf(a)'
<1>1. ASSUME a \in synced'
      PROVE  agent'[a].state = "ACTIVE" /\ Live(a, Cur(a))'
  <2>1. agent[a].state = "ACTIVE" /\ Live(a, Cur(a)) /\ Cur(a) \in Server
    BY <1>1, AgentFacts DEF Agents, AgentOf
  <2>2. PICK s \in Server : s = Cur(a)
    BY <2>1
  <2>3. Live(a, s)'
    BY <2>1, <2>2, AroundLive
  <2> QED BY <2>1, <2>2, <2>3 DEF Live
<1> QED BY <1>1 DEF AgentOf

\* A step in which nothing happens to the agents.
LEMMA SameAgents ==
    ASSUME ServerInv, AgentTypeOK, Agents, Around,
           UNCHANGED <<snap, out, updates, agent, sets, synced, leftover>>
    PROVE  Agents'
<1>1. LogGrows
  BY AroundLog
<1>2. Fewer
  BY DEF Around, Fewer, Seen
<1>3. ASSUME NEW a \in Agent PROVE Steady(a)
  BY <1>1, <1>2, GoodStays
<1>4. ASSUME NEW a \in Agent, NEW s \in Server PROVE StreamTo(a, s)'
  <2>1. Calm(a, s)
    BY <1>3 DEF Calm, Cur
  <2> QED BY <2>1, CalmStream
<1>5. ASSUME NEW a \in Agent PROVE AgentOf(a)'
  <2>1. Cur(a)' = Cur(a)
    BY DEF Cur
  <2> QED BY <2>1, CalmAgent
<1> QED BY <1>4, <1>5 DEF Agents

\* A subscription comes: nothing has been sent on it.
LEMMA SubscribeAgents ==
    ASSUME ServerInv, AgentTypeOK, Agents, NEW x \in Agent \cup Server, NEW s \in Server,
           Subscribe(x, s)
    PROVE  Agents'
<1>1. Around /\ UNCHANGED <<snap, out, updates, agent, sets, synced, leftover>>
  BY DEF Subscribe, Around, serverVars, agentVars
<1> QED BY <1>1, SameAgents

\* An update of an application is new: what was good of a table stays good.
LEMMA SetSteady ==
    ASSUME ServerInv, AgentTypeOK, Kept, NEW a \in Agent, Set(a), NEW b \in Agent
    PROVE  Steady(b)
<1>1. /\ sets \in Nat /\ sets' = sets + 1 /\ sets < Len(writes)
      /\ writes \in Seq([body : BOOLEAN, ttl : {"zero", "relative"}]) /\ Len(writes) \in Nat
      /\ UNCHANGED <<server, log, tainted>>
  BY CloneAssumption DEF AgentTypeOK, Set, serverVars
<1>2. PICK u \in Nat : u = sets + 1
  BY <1>1
<1>3. PICK v \in [body : BOOLEAN, ttl : {"zero", "relative"}] : v = writes[u]
  <2>1. u \in 1 .. Len(writes)
    BY <1>1, <1>2
  <2>2. writes[u] \in [body : BOOLEAN, ttl : {"zero", "relative"}]
    BY <1>1, <2>1, ElementOfSeq
  <2> QED BY <2>2
<1>4. PICK k \in Key :
         LET new == KVUpdate(sets + 1, k, writes[sets + 1].body, writes[sets + 1].ttl) IN
           /\ updates' = [p \in Agent \X Server |->
                IF p[1] = a /\ p \in pubs' THEN Append(updates[p], new) ELSE updates[p]]
           /\ agent' = [agent EXCEPT ![a].kvmap = Store(@, new)]
  BY DEF Set
<1>5. PICK m : m = KVUpdate(sets + 1, k, writes[sets + 1].body, writes[sets + 1].ttl)
  OBVIOUS
<1>6. m \in Update /\ m.uuid = u /\ m.key = k
  <2>1. m = KVUpdate(u, k, v.body, v.ttl)
    BY <1>2, <1>3, <1>5
  <2> QED BY <1>1, <1>2, <2>1 DEF KVUpdate, Update, Message, Uuid, Ttl
<1>7. /\ updates \in [Agent \X Server -> Seq(Update)]
      /\ updates' = [p \in Agent \X Server |->
                IF p[1] = a /\ p \in pubs' THEN Append(updates[p], m) ELSE updates[p]]
      /\ agent' = [agent EXCEPT ![a].kvmap = Store(@, m)]
      /\ agent \in [Agent -> AgentRecord]
  BY <1>2, <1>4, <1>5, AgentFacts
<1>8. ASSUME NEW w, NEW c, Seen(w, c)' PROVE Seen(w, c) \/ (w = u /\ c = k)
  <2>1. \/ Bears(log, w, c)
        \/ \E s \in Server, d \in Agent : Bears(updates'[<<d, s>>], w, c)
        \/ \E s \in Server \ tainted : Bears(server[s].pending, w, c)
    BY <1>1, <1>8 DEF Seen
  <2>2. ASSUME NEW s \in Server, NEW d \in Agent, Bears(updates'[<<d, s>>], w, c)
        PROVE  Seen(w, c) \/ (w = u /\ c = k)
    <3>1. <<d, s>> \in Agent \X Server /\ updates[<<d, s>>] \in Seq(Update)
      BY <1>7
    <3>2. updates'[<<d, s>>] \in {updates[<<d, s>>], Append(updates[<<d, s>>], m)}
      BY <1>7, <3>1
    <3>3. Bears(updates[<<d, s>>], w, c) \/ (w = u /\ c = k)
      <4>1. PICK list \in Seq(Update) : list = updates[<<d, s>>]
        BY <3>1
      <4>2. Bears(Append(list, m), w, c) => Bears(list, w, c) \/ (m.uuid = w /\ m.key = c)
        BY <1>6, BearsOf
      <4>3. CASE updates'[<<d, s>>] = list
        BY <2>2, <4>1, <4>3
      <4>4. CASE updates'[<<d, s>>] = Append(list, m)
        BY <1>6, <2>2, <4>1, <4>2, <4>4
      <4> QED BY <3>2, <4>1, <4>3, <4>4
    <3> QED BY <3>3 DEF Seen
  <2> QED BY <2>1, <2>2 DEF Seen
<1>9. ASSUME NEW w, NEW c, Seen(w, c) PROVE w \in 1 .. sets
  <2>1. ASSUME NEW list, Bears(list, w, c) PROVE w \in Uuids(list)
    BY <2>1 DEF Bears, Uuids
  <2>2. CASE Bears(log, w, c)
    BY <2>1, <2>2 DEF Kept
  <2>3. ASSUME NEW s \in Server, NEW d \in Agent, Bears(updates[<<d, s>>], w, c)
        PROVE  w \in 1 .. sets
    <3>1. w \in Queued(s)
      BY <2>1, <2>3, QueuedIs
    <3> QED BY <3>1 DEF Kept, KeptOf
  <2>4. ASSUME NEW s \in Server \ tainted, Bears(server[s].pending, w, c)
        PROVE  w \in 1 .. sets
    <3>1. w \in Held(s)
      BY <2>1, <2>4 DEF Held
    <3> QED BY <3>1 DEF Kept, KeptOf
  <2> QED BY <1>9, <2>2, <2>3, <2>4 DEF Seen
<1>10. u \notin 1 .. sets /\ 1 .. sets \subseteq 1 .. sets' /\ u \in 1 .. sets'
  BY <1>1, <1>2
<1>11. KeyOf(u, k)' /\ \A w \in 1 .. sets : \A c \in Key : KeyOf(w, c) => KeyOf(w, c)'
  BY <1>8, <1>9, <1>10 DEF KeyOf
<1> SUFFICES ASSUME NEW c \in Key, NEW n \in 0 .. Len(log), Good(b, c, n) PROVE Good(b, c, n)'
  BY DEF Steady
<1>12. Known(n)' = Known(n) /\ Value(n, c)' = Value(n, c)
  BY <1>1 DEF Known, Value
<1>13. CASE b = a /\ c = k
  <2>1. agent'[a].kvmap = Store(agent[a].kvmap, m)
    BY <1>7 DEF AgentRecord
  <2>2. Store(agent[a].kvmap, m)[k] = IF m.body THEN m ELSE NoMsg
    <3>1. agent[a].kvmap \in Table
      BY <1>7 DEF AgentRecord
    <3> QED BY <1>6, <3>1 DEF Store, Table
  <2>3. Mine(a, k)' = IF agent'[a].kvmap[k] = NoMsg THEN NoMsg ELSE agent'[a].kvmap[k].uuid
    BY NamesIs DEF Mine
  <2>4. Mine(a, k)' \in {u, NoMsg}
    BY <1>6, <2>1, <2>2, <2>3
  <2>5. u \notin Known(n)'
    <3>1. ASSUME NEW i \in 1 .. n PROVE log[i].uuid # u
      <4>1. i \in DOMAIN log
        <5>1. log \in Seq(Published) /\ Len(log) \in Nat
          BY ServerFacts DEF Server
        <5> QED BY <5>1
      <4>2. log[i].uuid \in 1 .. sets
        BY <4>1 DEF Kept, Uuids
      <4> QED BY <1>10, <4>2
    <3> QED BY <1>12, <3>1 DEF Known
  <2>6. Own(a, k, n)'
    BY <1>10, <1>11, <2>4, <2>5 DEF Own
  <2> QED BY <1>13, <2>6 DEF Good
<1>14. CASE ~ (b = a /\ c = k)
  <2>1. agent'[b].kvmap[c] = agent[b].kvmap[c]
    <3>1. agent[b].kvmap \in Table
      BY <1>7 DEF AgentRecord
    <3>2. CASE b # a
      BY <1>7, <3>2
    <3>3. CASE b = a
      <4>1. agent'[a].kvmap = Store(agent[a].kvmap, m)
        BY <1>7 DEF AgentRecord
      <4>2. Store(agent[a].kvmap, m)[c] = agent[a].kvmap[c]
        BY <1>6, <1>14, <3>1, <3>3 DEF Store, Table
      <4> QED BY <3>3, <4>1, <4>2
    <3> QED BY <3>2, <3>3
  <2>2. Mine(b, c)' = Mine(b, c)
    <3>1. Mine(b, c)' = IF agent'[b].kvmap[c] = NoMsg THEN NoMsg ELSE agent'[b].kvmap[c].uuid
      BY NamesIs DEF Mine
    <3>2. Mine(b, c) = IF agent[b].kvmap[c] = NoMsg THEN NoMsg ELSE agent[b].kvmap[c].uuid
      BY NamesIs DEF Mine
    <3> QED BY <2>1, <3>1, <3>2
  <2>3. CASE Own(b, c, n)
    <3>1. PICK w \in 1 .. sets : w \notin Known(n) /\ KeyOf(w, c) /\ Mine(b, c) \in {w, NoMsg}
      BY <2>3 DEF Own
    <3>2. w \in 1 .. sets' /\ w \notin Known(n)' /\ KeyOf(w, c)' /\ Mine(b, c)' \in {w, NoMsg}
      BY <1>10, <1>11, <1>12, <2>2, <3>1
    <3>3. Own(b, c, n)'
      BY <3>2 DEF Own
    <3> QED BY <3>3 DEF Good
  <2>4. CASE Mine(b, c) = Value(n, c)
    BY <1>12, <2>2, <2>4 DEF Good
  <2> QED BY <2>3, <2>4 DEF Good
<1> QED BY <1>13, <1>14

\* An application makes an update: its own agent may be ahead of the log.
LEMMA SetAgents ==
    ASSUME ServerInv, AgentTypeOK, Kept, Agents, NEW a \in Agent, Set(a)
    PROVE  Agents'
<1>1. Around /\ UNCHANGED <<subs, snap, out, synced, leftover>>
  BY DEF Set, Around, serverVars
<1>2. ASSUME NEW b \in Agent
      PROVE  /\ Cur(b)' = Cur(b) /\ agent'[b].state = agent[b].state
             /\ agent'[b].sequence = agent[b].sequence
  <2>1. agent \in [Agent -> AgentRecord]
    BY AgentFacts
  <2> QED BY <2>1 DEF Set, AgentRecord, Cur
<1>3. ASSUME NEW b \in Agent, NEW s \in Server PROVE StreamTo(b, s)'
  <2>1. Calm(b, s)
    BY <1>2, SetSteady DEF Calm
  <2> QED BY <1>1, <2>1, CalmStream
<1>4. ASSUME NEW b \in Agent PROVE AgentOf(b)'
  BY <1>1, <1>2, CalmAgent
<1> QED BY <1>3, <1>4 DEF Agents

\* An agent reads: nothing changes for the others, and for its other pair.
LEMMA ReaderAgents ==
    ASSUME ServerInv, AgentTypeOK, Agents, Around, UNCHANGED <<updates, sets>>,
           NEW a \in Agent, NEW s \in Server, s = Cur(a), Cur(a)' = s,
           \A b \in Agent : b # a => agent'[b] = agent[b] /\ (b \in synced' => b \in synced),
           \A b \in Agent, q \in Server : b # a \/ q # s =>
              out'[<<b, q>>] = out[<<b, q>>] /\ snap'[<<b, q>>] = snap[<<b, q>>],
           \A p \in leftover : p \notin leftover' => out'[p] = <<>> /\ snap'[p] = <<>>,
           StreamTo(a, s)', AgentOf(a)'
    PROVE  Agents'
<1>1. LogGrows
  BY AroundLog
<1>2. Fewer
  BY DEF Around, Fewer, Seen
<1>3. ASSUME NEW b \in Agent, b # a PROVE Steady(b) /\ Cur(b)' = Cur(b)
  <2>1. agent'[b] = agent[b]
    BY <1>3
  <2>2. Steady(b)
    BY <1>1, <1>2, <2>1, GoodStays
  <2> QED BY <2>1, <2>2 DEF Cur
<1>4. ASSUME NEW b \in Agent, NEW q \in Server, b # a \/ q # s PROVE StreamTo(b, q)'
  <2>1. Calm(b, q)
    <3>1. CASE b # a
      <4>1. agent'[b] = agent[b]
        BY <3>1
      <4> QED BY <1>3, <3>1, <4>1 DEF Calm
    <3>2. CASE b = a
      <4>1. Cur(a) # q /\ ~ Reads(a, q)'
        BY <1>4, <3>2 DEF Reads, Cur
      <4> QED BY <3>2, <4>1 DEF Calm
    <3> QED BY <3>1, <3>2
  <2>2. Reads(b, q)' /\ b \in synced' => b \in synced
    <3>1. CASE b # a
      BY <3>1
    <3>2. CASE b = a
      BY <1>4, <3>2 DEF Reads, Cur
    <3> QED BY <3>1, <3>2
  <2>3. out'[<<b, q>>] = out[<<b, q>>] /\ snap'[<<b, q>>] = snap[<<b, q>>]
    BY <1>4
  <2>4. <<b, q>> \in leftover /\ <<b, q>> \notin leftover' =>
           out[<<b, q>>] = <<>> /\ snap[<<b, q>>] = <<>>
    BY <2>3
  <2> QED BY <2>1, <2>2, <2>3, <2>4, CalmStream
<1>5. ASSUME NEW b \in Agent, b # a PROVE AgentOf(b)'
  <2>1. agent'[b] = agent[b] /\ Cur(b)' = Cur(b) /\ (b \in synced' => b \in synced)
    BY <1>3, <1>5
  <2> QED BY <2>1, CalmAgent
<1>6. ASSUME NEW b \in Agent, NEW q \in Server PROVE StreamTo(b, q)'
  <2>1. CASE b = a /\ q = s
    BY <2>1
  <2>2. CASE b # a \/ q # s
    BY <1>4, <2>2
  <2> QED BY <2>1, <2>2
<1>7. ASSUME NEW b \in Agent PROVE AgentOf(b)'
  <2>1. CASE b = a
    BY <2>1
  <2>2. CASE b # a
    BY <1>5, <2>2
  <2> QED BY <2>1, <2>2
<1> QED BY <1>6, <1>7 DEF Agents

\* The agent reads what says nothing about the log.
LEMMA ReadsOther ==
    ASSUME ServerInv, Around, subs' = subs, NEW a \in Agent, NEW s \in Server, ~ Live(a, s),
           <<a, s>> \in leftover \/ s \in tainted, a \notin synced',
           <<a, s>> \in leftover /\ <<a, s>> \notin leftover' =>
              out'[<<a, s>>] = <<>> /\ snap'[<<a, s>>] = <<>>
    PROVE  StreamTo(a, s)'
<1>1. tainted' = tainted /\ log' \in Seq(Published)
  BY AroundLog DEF Around
<1>2. CASE s \in tainted \/ <<a, s>> \in leftover'
  <2>1. IdleStream(a, s)' /\ ~ Live(a, s)'
    BY <1>1, <1>2 DEF IdleStream, Live
  <2> QED BY <2>1 DEF StreamTo
<1>3. CASE ~ (s \in tainted \/ <<a, s>> \in leftover')
  <2>1. out'[<<a, s>>] = <<>> /\ snap'[<<a, s>>] = <<>>
    BY <1>3
  <2>2. IdleStream(a, s)'
    BY <2>1 DEF IdleStream
  <2>3. LiveStream(a, s)'
    BY <1>1, <2>1, EmptyStream
  <2> QED BY <2>2, <2>3 DEF StreamTo
<1> QED BY <1>2, <1>3

\* HUGZ tells an agent that has what its server has published nothing new.
LEMMA HugzMessageAgents ==
    ASSUME ServerInv, AgentTypeOK, Agents, NEW a \in Agent, HugzMessage(a)
    PROVE  Agents'
<1>1. PICK s \in Server : s = Cur(a)
  BY AgentFacts
<1>2. /\ Around /\ UNCHANGED <<subs, pubs, snap, out, updates, sets, synced, leftover>>
      /\ agent[a].state = "ACTIVE" /\ out[<<a, s>>] = <<>> /\ <<a, s>> \in subs
      /\ server[s].sequence > agent[a].sequence
      /\ agent' = [agent EXCEPT ![a].sequence = server[s].sequence]
  BY <1>1 DEF HugzMessage, Hugz, Around, netVars, serverVars
<1>3. /\ agent \in [Agent -> AgentRecord] /\ server[s].sequence \in Nat
      /\ agent[a].sequence \in Nat /\ log \in Seq(Published) /\ Len(log) \in Nat
  BY AgentFacts, ServerFacts DEF AgentRecord
<1>4. /\ Cur(a)' = s /\ agent'[a].state = "ACTIVE"
      /\ \A b \in Agent : b # a => agent'[b] = agent[b]
  BY <1>1, <1>2, <1>3 DEF AgentRecord, Cur
<1>5. ASSUME Live(a, s)
      PROVE  \E j \in 0 .. Len(log) : /\ out[<<a, s>>] = Piece(log, j, Len(log))
                                      /\ j = Len(log) /\ a \notin synced
  <2>1. Reads(a, s) /\ LiveStream(a, s)
    BY <1>1, <1>2, <1>5 DEF Reads, Agents, StreamTo
  <2>2. PICK j \in 0 .. Len(log) : out[<<a, s>>] = Piece(log, j, Len(log)) /\ ReaderOK(a, j)
    BY <2>1 DEF LiveStream
  <2>3. j = Len(log)
    <3>1. Len(log) \in 0 .. Len(log)
      BY <1>3
    <3>2. Len(Piece(log, j, Len(log))) = Len(log) - j
      BY <1>3, <2>2, <3>1, PieceIs
    <3>3. Len(<<>>) = 0
      OBVIOUS
    <3> QED BY <1>2, <1>3, <2>2, <3>2, <3>3
  <2>4. server[s].sequence = Len(log)
    BY <1>5, ServerFacts DEF Live, CopyOf
  <2>5. a \notin synced
    BY <1>2, <1>3, <2>2, <2>3, <2>4 DEF ReaderOK
  <2> QED BY <2>2, <2>3, <2>5
<1>6. StreamTo(a, s)'
  <2>1. CASE Live(a, s)
    <3>1. PICK j \in 0 .. Len(log) : /\ out[<<a, s>>] = Piece(log, j, Len(log))
                                     /\ j = Len(log) /\ a \notin synced
      BY <1>5, <2>1
    <3>2. /\ log' = log /\ out'[<<a, s>>] = Piece(log', j, Len(log')) /\ j \in 0 .. Len(log')
          /\ Reads(a, s)' /\ a \notin synced'
      BY <1>2, <1>4, <3>1 DEF Around, Reads, Cur
    <3>3. LiveStream(a, s)'
      BY <1>2, <3>2 DEF LiveStream, ReaderOK
    <3>4. Live(a, s)'
      BY <1>2, <2>1, AroundLive
    <3> QED BY <3>3, <3>4 DEF StreamTo
  <2>2. CASE ~ Live(a, s)
    <3>1. IdleStream(a, s)
      BY <2>2 DEF Agents, StreamTo
    <3>2. IdleStream(a, s)'
      BY <1>2, <3>1 DEF IdleStream, Around
    <3>3. ~ Live(a, s)'
      <4>1. tainted' = tainted /\ server' = server
        BY <1>2 DEF Around
      <4> QED BY <1>2, <2>2, <4>1 DEF Live, Active, NoTable
    <3> QED BY <3>2, <3>3 DEF StreamTo
  <2> QED BY <2>1, <2>2
<1>7. AgentOf(a)'
  <2>1. a \notin synced
    <3>1. ASSUME a \in synced PROVE FALSE
      <4>1. Live(a, s)
        BY <1>1, <3>1 DEF Agents, AgentOf
      <4> QED BY <1>5, <3>1, <4>1
    <3> QED BY <3>1
  <2> QED BY <1>2, <2>1 DEF AgentOf
<1>8. /\ \A b \in Agent : b # a => agent'[b] = agent[b] /\ (b \in synced' => b \in synced)
      /\ \A b \in Agent, q \in Server : b # a \/ q # s =>
            out'[<<b, q>>] = out[<<b, q>>] /\ snap'[<<b, q>>] = snap[<<b, q>>]
      /\ \A p \in leftover : p \notin leftover' => out'[p] = <<>> /\ snap'[p] = <<>>
  BY <1>2, <1>4
<1> QED BY <1>1, <1>2, <1>4, <1>6, <1>7, <1>8, ReaderAgents

\* An agent gives its server up: it can have nothing under way from it.
LEMMA FailoverAgents ==
    ASSUME ServerInv, AgentTypeOK, Agents, NEW a \in Agent, Failover(a)
    PROVE  Agents'
<1>1. PICK s \in Server : s = Cur(a)
  BY AgentFacts
<1>2. /\ Around /\ UNCHANGED <<subs, pubs, snap, out, updates, sets, leftover>>
      /\ synced' = synced \ {a} /\ Silent(a) /\ Peer(s) # s
  BY <1>1, ServerFacts DEF Failover, Around, serverVars
<1>3. /\ agent'[a].state = "SYNCING" /\ Cur(a)' = Peer(s)
      /\ \A b \in Agent : b # a => agent'[b] = agent[b]
  <2>1. agent \in [Agent -> AgentRecord]
    BY AgentFacts
  <2> QED BY <1>1, <2>1 DEF Failover, AgentRecord, Cur
<1>4. LogGrows /\ log' = log
  BY <1>2, AroundLog
<1>5. Fewer
  BY <1>2 DEF Around, Fewer, Seen
<1>6. ASSUME NEW b \in Agent, NEW q \in Server, b # a \/ q # s PROVE StreamTo(b, q)'
  <2>1. Calm(b, q)
    <3>1. CASE b # a
      <4>1. agent'[b] = agent[b] /\ Steady(b)
        BY <1>2, <1>3, <1>4, <1>5, <3>1, GoodStays
      <4> QED BY <4>1 DEF Calm, Cur
    <3>2. CASE b = a
      <4>1. Cur(a) # q /\ ~ Reads(a, q)'
        BY <1>1, <1>3, <1>6, <3>2 DEF Reads
      <4> QED BY <3>2, <4>1 DEF Calm
    <3> QED BY <3>1, <3>2
  <2> QED BY <1>2, <2>1, CalmStream
<1>7. StreamTo(a, s)'
  <2>1. StreamTo(a, s)
    BY DEF Agents
  <2>2. CASE Live(a, s)
    <3>1. LiveStream(a, s) /\ Live(a, s)'
      BY <1>2, <2>1, <2>2, AroundLive DEF StreamTo
    <3>2. Runs(s)
      <4>1. Active(s) /\ ~ NoTable(s)
        BY <2>2 DEF Live
      <4>2. server[s].asking => NoTable(s)
        BY ServerFacts DEF RolesOf
      <4> QED BY <4>1, <4>2 DEF Runs, Up, Active
    <3>3. \/ agent[a].state = "SYNCING" /\ snap[<<a, s>>] = <<>>
          \/ agent[a].state = "ACTIVE" /\ <<a, s>> \notin subs
      <4>1. agent[a].state \in {"SYNCING", "ACTIVE"}
        BY AgentFacts DEF AgentRecord
      <4> QED BY <1>1, <1>2, <3>2, <4>1 DEF Silent, FromCur
    <3>4. PICK j \in 0 .. Len(log) :
             /\ out[<<a, s>>] = Piece(log, j, Len(log))
             /\ <<a, s>> \notin subs => j = Len(log) /\ SnapsOK(a, s, snap[<<a, s>>], j)
      BY <3>1 DEF LiveStream
    <3> PICK queue \in Seq(Reply) : queue = snap[<<a, s>>]
      BY AgentFacts, PairOfAgent
    <3>a. queue = snap'[<<a, s>>]
      BY <1>2
    <3>b. ASSUME queue = <<>> PROVE SnapsOK(a, s, queue, j)'
      BY <3>b DEF SnapsOK
    <3>c. ASSUME agent[a].state = "ACTIVE", <<a, s>> \notin subs
          PROVE  SnapsOK(a, s, queue, j)'
      <4>1. ASSUME NEW e \in 1 .. Len(queue), IsEnd(queue[e])
            PROVE  queue[e].kthxbai \in j .. Len(log') /\ SnapGood(a, s, queue, e)'
        <5>1. queue[e].kthxbai \in j .. Len(log) /\ SnapGood(a, s, queue, e)
          BY <3>4, <3>c, <4>1 DEF SnapsOK
        <5>2. /\ ~ Joins(a, s) /\ e \in Nat \ {0} /\ queue[e].kthxbai \in 0 .. Len(log)
              /\ \A i \in 1 .. e : queue[i] = queue[i]
          BY <3>4, <3>c, <5>1 DEF Joins
        <5> QED BY <1>4, <5>1, <5>2, SnapGoodStays
      <4> QED BY <4>1 DEF SnapsOK
    <3>5. SnapsOK(a, s, queue, j)'
      BY <3>3, <3>b, <3>c
    <3>6. ~ Reads(a, s)'
      BY <1>2, <1>3 DEF Reads
    <3>7. /\ out'[<<a, s>>] = Piece(log', j, Len(log')) /\ j \in 0 .. Len(log')
          /\ <<a, s>> \notin subs' => j = Len(log')
      BY <1>2, <1>4, <3>4
    <3>8. SnapsOK(a, s, snap[<<a, s>>], j)'
      BY <3>5, <3>a DEF SnapsOK
    <3>9. LiveStream(a, s)'
      BY <3>6, <3>7, <3>8 DEF LiveStream
    <3> QED BY <3>1, <3>9 DEF StreamTo
  <2>3. CASE ~ Live(a, s)
    <3>1. IdleStream(a, s)
      BY <2>1, <2>3 DEF StreamTo
    <3>2. IdleStream(a, s)'
      BY <1>2, <3>1 DEF IdleStream, Around
    <3>3. ~ Live(a, s)'
      <4>1. tainted' = tainted /\ server' = server
        BY <1>2 DEF Around
      <4> QED BY <1>2, <2>3, <4>1 DEF Live, Active, NoTable
    <3> QED BY <3>2, <3>3 DEF StreamTo
  <2> QED BY <2>2, <2>3
<1>8. ASSUME NEW b \in Agent PROVE AgentOf(b)'
  <2>1. CASE b = a
    BY <1>2, <2>1 DEF AgentOf
  <2>2. CASE b # a
    <3>1. agent'[b] = agent[b] /\ Cur(b)' = Cur(b) /\ (b \in synced' => b \in synced)
      BY <1>2, <1>3, <2>2 DEF Cur
    <3> QED BY <1>2, <3>1, CalmAgent
  <2> QED BY <2>1, <2>2
<1>9. ASSUME NEW b \in Agent, NEW q \in Server PROVE StreamTo(b, q)'
  <2>1. CASE b = a /\ q = s
    BY <1>7, <2>1
  <2>2. CASE b # a \/ q # s
    BY <1>6, <2>2
  <2> QED BY <2>1, <2>2
<1> QED BY <1>8, <1>9 DEF Agents

\* What one more update of the log does to the value of a key.
LEMMA ValueNext ==
    ASSUME NEW n \in Nat, NEW k \in Key
    PROVE  /\ log[n + 1].key # k => Value(n + 1, k) = Value(n, k)
           /\ log[n + 1].key = k =>
                 Value(n + 1, k) = IF log[n + 1].body THEN log[n + 1].uuid ELSE NoMsg
<1>1. n + 1 \in Nat /\ \A i \in 1 .. n + 1 : i \in 1 .. n \/ i = n + 1
  OBVIOUS
<1>2. n + 1 \in 1 .. n + 1 /\ \A i \in 1 .. n : i \in 1 .. n + 1 /\ i <= n + 1
  OBVIOUS
<1>3. CASE log[n + 1].key = k
  <2>1. LastWith(log, n + 1, k, n + 1)
    BY <1>1, <1>2, <1>3 DEF LastWith
  <2> QED BY <1>1, <1>3, <2>1, TableOfIs DEF Value
<1>4. CASE log[n + 1].key # k
  <2>1. CASE NoneWith(log, n, k)
    <3>1. NoneWith(log, n + 1, k)
      BY <1>1, <1>4, <2>1 DEF NoneWith
    <3> QED BY <1>1, <1>4, <2>1, <3>1, TableOfIs DEF Value
  <2>2. ASSUME NEW i \in 1 .. n, LastWith(log, n, k, i)
        PROVE  Value(n + 1, k) = Value(n, k)
    <3>1. LastWith(log, n + 1, k, i)
      BY <1>1, <1>2, <1>4, <2>2 DEF LastWith
    <3> QED BY <1>1, <2>2, <3>1, TableOfIs DEF Value
  <2> QED BY <1>4, <2>1, <2>2, LastOrNone
<1> QED BY <1>3, <1>4

\* An update of another key leaves what was good of a key good.
LEMMA GoodNext ==
    ASSUME log \in Seq(Published), NEW n \in Nat, n + 1 \in 1 .. Len(log), NEW a \in Agent,
           NEW k \in Key, log[n + 1].key # k, Good(a, k, n)
    PROVE  Good(a, k, n + 1)
<1>1. Value(n + 1, k) = Value(n, k)
  BY ValueNext
<1>2. CASE Mine(a, k) = Value(n, k)
  BY <1>1, <1>2 DEF Good
<1>3. CASE Own(a, k, n)
  <2>1. PICK u \in 1 .. sets : u \notin Known(n) /\ KeyOf(u, k) /\ Mine(a, k) \in {u, NoMsg}
    BY <1>3 DEF Own
  <2>2. log[n + 1].uuid # u
    <3>1. ASSUME log[n + 1].uuid = u PROVE FALSE
      <4>1. n + 1 \in DOMAIN log
        OBVIOUS
      <4>2. Bears(log, u, log[n + 1].key)
        BY <3>1, <4>1 DEF Bears
      <4>3. log[n + 1] \in Published
        BY ElementOfSeq
      <4>4. log[n + 1].key \in Key
        BY <4>3, PublishedIsUpdate, UpdateFields
      <4> QED BY <2>1, <4>2, <4>4 DEF KeyOf, Seen
    <3> QED BY <3>1
  <2>3. \A i \in 1 .. n + 1 : i \in 1 .. n \/ i = n + 1
    OBVIOUS
  <2>4. u \notin Known(n + 1)
    BY <2>1, <2>2, <2>3 DEF Known
  <2>5. Own(a, k, n + 1)
    BY <2>1, <2>4 DEF Own
  <2> QED BY <2>5 DEF Good
<1> QED BY <1>2, <1>3 DEF Good

\* An agent that stores a message has its value, and of another key what it had.
LEMMA MineStored ==
    ASSUME ServerInv, AgentTypeOK, Around, UNCHANGED <<updates, sets>>,
           NEW a \in Agent, NEW m \in Update, agent'[a].kvmap = Store(agent[a].kvmap, m)
    PROVE  /\ Mine(a, m.key)' = IF m.body THEN m.uuid ELSE NoMsg
           /\ \A k \in Key : \A n : k # m.key /\ Good(a, k, n) => Good(a, k, n)'
<1>1. agent[a].kvmap \in Table /\ m.key \in Key /\ m # NoMsg
  BY AgentFacts, UpdateFields DEF AgentRecord
<1>2. \A k \in Key : Store(agent[a].kvmap, m)[k] =
         IF k = m.key THEN IF m.body THEN m ELSE NoMsg ELSE agent[a].kvmap[k]
  BY <1>1 DEF Store, Table
<1>3. \A k \in Key :
         Mine(a, k)' = IF agent'[a].kvmap[k] = NoMsg THEN NoMsg ELSE agent'[a].kvmap[k].uuid
  BY NamesIs DEF Mine
<1>4. \A k \in Key :
         Mine(a, k) = IF agent[a].kvmap[k] = NoMsg THEN NoMsg ELSE agent[a].kvmap[k].uuid
  BY NamesIs DEF Mine
<1>5. Mine(a, m.key)' = IF m.body THEN m.uuid ELSE NoMsg
  BY <1>1, <1>2, <1>3
<1>6. ASSUME NEW k \in Key, NEW n, k # m.key, Good(a, k, n) PROVE Good(a, k, n)'
  <2>1. Mine(a, k)' = Mine(a, k)
    BY <1>2, <1>3, <1>4, <1>6
  <2>2. Value(n, k)' = Value(n, k) /\ Known(n)' = Known(n)
    BY DEF Around, Value, Known
  <2>3. \A u : KeyOf(u, k) => KeyOf(u, k)'
    BY DEF Around, KeyOf, Seen
  <2>4. Own(a, k, n) => Own(a, k, n)'
    BY <2>1, <2>2, <2>3 DEF Own
  <2> QED BY <1>6, <2>1, <2>2, <2>4 DEF Good
<1> QED BY <1>5, <1>6

\* What the agents' sockets hold of an earlier process is known to be there.
LEMMA ReadsLess ==
    ASSUME Read
    PROVE  /\ leftover' \subseteq leftover
           /\ \A p \in leftover : p \notin leftover' => out'[p] = <<>> /\ snap'[p] = <<>>
BY DEF Read

\* An active agent reads the update that is next in the log.
LEMMA UpdateReader ==
    ASSUME ServerInv, AgentTypeOK, Around, UNCHANGED <<updates, sets, synced>>,
           NEW a \in Agent, NEW j \in Nat, j + 1 \in 1 .. Len(log), ReaderOK(a, j),
           NEW m \in Update, m = OnWire(log[j + 1]),
           agent'[a].sequence = IF m.seq > agent[a].sequence THEN m.seq ELSE agent[a].sequence,
           m.seq > agent[a].sequence => agent'[a].kvmap = Store(agent[a].kvmap, m),
           ~ (m.seq > agent[a].sequence) => agent'[a].kvmap = agent[a].kvmap
    PROVE  ReaderOK(a, j + 1)'
<1>1. LogGrows /\ log' = log /\ log \in Seq(Published) /\ Len(log) \in Nat
  BY AroundLog
<1>2. log[j + 1] \in Published /\ log[j + 1] \in Update
  BY <1>1, ElementOfSeq, PublishedIsUpdate
<1>3. m.key = log[j + 1].key /\ m.uuid = log[j + 1].uuid /\ m.body = log[j + 1].body
      /\ m.seq = log[j + 1].seq /\ m.key \in Key
  BY <1>2, OnWireType, UpdateFields
<1>4. m.seq = j + 1
  BY <1>3 DEF ServerInv, Numbers
<1>5. agent[a].sequence \in Nat
  BY AgentFacts DEF AgentRecord
<1> SUFFICES ASSUME a \in synced
             PROVE  agent'[a].sequence \in j + 1 .. Len(log) /\ GoodTo(a, agent[a].sequence)'
  BY <1>1 DEF ReaderOK
<1>6. agent[a].sequence \in j .. Len(log) /\ GoodTo(a, agent[a].sequence)
  BY DEF ReaderOK
<1>7. CASE ~ (m.seq > agent[a].sequence)
  <2>1. agent'[a].sequence = agent[a].sequence /\ agent[a].sequence \in j + 1 .. Len(log)
    BY <1>4, <1>5, <1>6, <1>7
  <2>2. PICK n \in 0 .. Len(log) : n = agent[a].sequence
    BY <1>5, <1>6
  <2>3. Steady(a)
    <3>1. Fewer
      BY DEF Around, Fewer, Seen
    <3> QED BY <1>1, <1>7, <3>1, GoodStays
  <2>4. \A k \in Key : Value(n, k)' = Value(n, k)
    BY <1>1, ValueStays
  <2>5. \A k \in Key : Value(n, k) # NoMsg => Good(a, k, n)
    BY <1>6, <2>2 DEF GoodTo
  <2>6. \A k \in Key : Value(n, k)' # NoMsg => Good(a, k, n)'
    BY <2>3, <2>4, <2>5 DEF Steady
  <2>7. GoodTo(a, n)'
    BY <2>6 DEF GoodTo
  <2>8. GoodTo(a, agent[a].sequence)'
    BY <2>1, <2>2, <2>7 DEF GoodTo
  <2> QED BY <2>1, <2>8
<1>8. CASE m.seq > agent[a].sequence
  <2>1. agent[a].sequence = j /\ agent'[a].sequence = j + 1
    BY <1>4, <1>5, <1>6, <1>8
  <2>2. /\ Mine(a, m.key)' = IF m.body THEN m.uuid ELSE NoMsg
        /\ \A k \in Key : \A n : k # m.key /\ Good(a, k, n) => Good(a, k, n)'
    BY <1>8, MineStored
  <2>3. \A k \in Key : Value(j + 1, k)' = Value(j + 1, k)
    BY <1>1 DEF Value
  <2>4. ASSUME NEW k \in Key, Value(j + 1, k) # NoMsg PROVE Good(a, k, j + 1)'
    <3>1. CASE k = m.key
      <4>1. Value(j + 1, k) = IF m.body THEN m.uuid ELSE NoMsg
        BY <1>3, <3>1, ValueNext
      <4>2. Mine(a, k)' = Value(j + 1, k)'
        BY <2>2, <2>3, <3>1, <4>1
      <4> QED BY <4>2 DEF Good
    <3>2. CASE k # m.key
      <4>1. Value(j, k) = Value(j + 1, k)
        BY <1>3, <3>2, ValueNext
      <4>2. Good(a, k, j)
        BY <1>6, <2>1, <2>4, <4>1 DEF GoodTo
      <4>3. Good(a, k, j + 1)
        BY <1>1, <1>3, <3>2, <4>2, GoodNext
      <4> QED BY <2>2, <3>2, <4>3
    <3> QED BY <3>1, <3>2
  <2>5. PICK n : n = j + 1
    OBVIOUS
  <2>6. \A k \in Key : Value(n, k)' # NoMsg => Good(a, k, n)'
    BY <2>3, <2>4, <2>5
  <2>7. GoodTo(a, n)'
    BY <2>6 DEF GoodTo
  <2>8. GoodTo(a, agent[a].sequence)'
    BY <2>1, <2>5, <2>7 DEF GoodTo
  <2>9. agent'[a].sequence \in j + 1 .. Len(log)
    BY <1>1, <2>1
  <2> QED BY <2>8, <2>9
<1> QED BY <1>7, <1>8

\* An agent reads an update: the next one of the log, or what it does not trust.
LEMMA UpdateMessageAgents ==
    ASSUME ServerInv, AgentTypeOK, Agents, NEW a \in Agent, UpdateMessage(a)
    PROVE  Agents'
<1>1. PICK s \in Server : s = Cur(a)
  BY AgentFacts
<1>2. PICK p : p = <<a, s>>
  OBVIOUS
<1>3. /\ UNCHANGED <<subs, pubs, snap, updates, server, log, tainted, sets, synced>> /\ Read
      /\ agent[a].state = "ACTIVE" /\ out[p] # <<>>
      /\ out' = [out EXCEPT ![p] = Tail(@)]
      /\ agent' = IF Head(out[p]).seq > agent[a].sequence
                  THEN [agent EXCEPT ![a].kvmap = Store(@, Head(out[p])),
                                     ![a].sequence = Head(out[p]).seq]
                  ELSE agent
  BY <1>1, <1>2 DEF UpdateMessage, FromCur, serverVars
<1>4. /\ agent \in [Agent -> AgentRecord] /\ agent[a].sequence \in Nat
      /\ out \in [Pair -> Seq(Published)] /\ p \in Pair
  BY <1>2, AgentFacts, PairOfAgent DEF AgentRecord
<1>5. /\ leftover' \subseteq leftover
      /\ \A r \in leftover : r \notin leftover' => out'[r] = <<>> /\ snap'[r] = <<>>
  BY <1>3, ReadsLess
<1>6. Around
  BY <1>3, <1>5 DEF Around
<1>7. PICK m : m = Head(out[p])
  OBVIOUS
<1>8. /\ agent'[a].cur_server = s /\ agent'[a].state = "ACTIVE"
      /\ agent'[a].sequence = IF m.seq > agent[a].sequence THEN m.seq ELSE agent[a].sequence
      /\ m.seq > agent[a].sequence => agent'[a].kvmap = Store(agent[a].kvmap, m)
      /\ ~ (m.seq > agent[a].sequence) => agent'[a].kvmap = agent[a].kvmap
      /\ \A b \in Agent : b # a => agent'[b] = agent[b]
  <2>1. agent[a].cur_server = s
    BY <1>1 DEF Cur
  <2>2. CASE m.seq > agent[a].sequence
    <3>1. agent' = [agent EXCEPT ![a].kvmap = Store(@, m), ![a].sequence = m.seq]
      BY <1>3, <1>7, <2>2
    <3> QED BY <1>3, <1>4, <2>1, <2>2, <3>1 DEF AgentRecord
  <2>3. CASE ~ (m.seq > agent[a].sequence)
    <3>1. agent' = agent
      BY <1>3, <1>7, <2>3
    <3> QED BY <1>3, <2>1, <2>3, <3>1
  <2> QED BY <2>2, <2>3
<1>9. Cur(a)' = s /\ Reads(a, s) /\ Reads(a, s)'
  BY <1>1, <1>3, <1>8 DEF Cur, Reads
<1>10. AgentOf(a)'
  BY <1>1, <1>3, <1>6, <1>8, <1>9, CalmAgent
<1>11. /\ log' = log /\ log \in Seq(Published) /\ Len(log) \in Nat
  BY <1>6, AroundLog
<1>12. StreamTo(a, s)'
  <2>1. StreamTo(a, s)
    BY DEF Agents
  <2>2. CASE Live(a, s)
    <3>1. LiveStream(a, s) /\ Live(a, s)'
      BY <1>6, <2>1, <2>2, AroundLive DEF StreamTo
    <3>2. PICK j \in 0 .. Len(log) : /\ out[p] = Piece(log, j, Len(log)) /\ ReaderOK(a, j)
                                     /\ p \notin subs => j = Len(log)
      BY <1>2, <1>9, <3>1 DEF LiveStream
    <3>3. /\ j < Len(log) /\ m = OnWire(log[j + 1]) /\ log[j + 1] \in Published
          /\ Tail(out[p]) = Piece(log, j + 1, Len(log))
      <4>1. Len(log) \in 0 .. Len(log)
        BY <1>11
      <4>2. Piece(log, j, Len(log)) # <<>>
        BY <1>3, <3>2
      <4> QED BY <1>7, <1>11, <3>2, <4>1, <4>2, PieceRead
    <3>4. m \in Update
      BY <3>3, OnWireType, PublishedIsUpdate
    <3>5. j \in Nat /\ j + 1 \in 1 .. Len(log) /\ j + 1 \in 0 .. Len(log)
      BY <1>11, <3>3
    <3>6. ReaderOK(a, j + 1)'
      BY <1>3, <1>6, <1>8, <3>2, <3>3, <3>4, <3>5, UpdateReader
    <3>7. out'[<<a, s>>] = Piece(log, j + 1, Len(log))
      BY <1>2, <1>3, <1>4, <3>3
    <3>8. PICK i : i = j + 1
      OBVIOUS
    <3>9. /\ i \in 0 .. Len(log') /\ out'[<<a, s>>] = Piece(log', i, Len(log'))
          /\ ReaderOK(a, i)' /\ <<a, s>> \in subs'
      BY <1>2, <1>3, <1>11, <3>2, <3>3, <3>5, <3>6, <3>7, <3>8
    <3>10. LiveStream(a, s)'
      BY <1>9, <3>9 DEF LiveStream
    <3> QED BY <3>1, <3>10 DEF StreamTo
  <2>3. CASE ~ Live(a, s)
    <3>1. IdleStream(a, s)
      BY <2>1, <2>3 DEF StreamTo
    <3>2. <<a, s>> \in leftover \/ s \in tainted
      BY <1>2, <1>3, <3>1 DEF IdleStream
    <3>3. a \notin synced'
      BY <1>1, <1>3, <2>3 DEF Agents, AgentOf
    <3> QED BY <1>3, <1>5, <1>6, <2>3, <3>2, <3>3, ReadsOther
  <2> QED BY <2>2, <2>3
<1>13. \A b \in Agent : b # a => agent'[b] = agent[b] /\ (b \in synced' => b \in synced)
  BY <1>3, <1>8
<1>14. \A b \in Agent, q \in Server : b # a \/ q # s =>
          out'[<<b, q>>] = out[<<b, q>>] /\ snap'[<<b, q>>] = snap[<<b, q>>]
  <2>1. ASSUME NEW b \in Agent, NEW q \in Server, b # a \/ q # s
        PROVE  out'[<<b, q>>] = out[<<b, q>>]
    <3>1. <<b, q>> \in Pair /\ <<b, q>> # p
      BY <1>2, <2>1, PairOfAgent
    <3> QED BY <1>3, <1>4, <3>1
  <2> QED BY <1>3, <2>1
<1> QED BY <1>1, <1>3, <1>5, <1>6, <1>9, <1>10, <1>12, <1>13, <1>14, ReaderAgents

\* Without its first message a queue is one position shorter.
LEMMA TailReplies ==
    ASSUME NEW queue \in Seq(Reply), queue # <<>>, NEW rest, rest = Tail(queue)
    PROVE  /\ rest \in Seq(Reply) /\ Head(queue) = queue[1] /\ Head(queue) \in Reply
           /\ \A e \in 1 .. Len(rest) : e + 1 \in 1 .. Len(queue) /\ rest[e] = queue[e + 1]
           /\ \A e \in 1 .. Len(rest) : \A k :
                 /\ HasKey(rest, e, k) <=> HasKey(queue, e + 1, k)
                 /\ Other(rest, e, k) <=> Other(queue, e + 1, k)
<1>1. Len(queue) \in Nat /\ Len(queue) > 0 /\ rest \in Seq(Reply) /\ Len(rest) = Len(queue) - 1
  OBVIOUS
<1>2. Head(queue) = queue[1] /\ 1 \in 1 .. Len(queue)
  BY <1>1
<1>3. Head(queue) \in Reply
  BY <1>2, ElementOfSeq
<1>4. ASSUME NEW e \in 1 .. Len(rest)
      PROVE  e + 1 \in 1 .. Len(queue) /\ rest[e] = queue[e + 1]
  BY <1>1
<1> QED BY <1>1, <1>2, <1>3, <1>4 DEF HasKey, Other

\* The first message of a snapshot is stored: what the rest brings or leaves.
LEMMA SnapGoodTail ==
    ASSUME ServerInv, AgentTypeOK, Around, UNCHANGED <<updates, sets>>,
           NEW a \in Agent, NEW s \in Server, Joins(a, s), Joins(a, s)',
           NEW queue \in Seq(Reply), queue # <<>>, NEW rest, rest = Tail(queue),
           NEW m \in Update, m = Head(queue), agent'[a].kvmap = Store(agent[a].kvmap, m),
           NEW e \in 1 .. Len(rest), SnapGood(a, s, queue, e + 1)
    PROVE  SnapGood(a, s, rest, e)'
<1>1. /\ rest \in Seq(Reply) /\ m = queue[1] /\ ~ IsEnd(queue[1])
      /\ rest[e] = queue[e + 1]
      /\ \A i \in 1 .. Len(rest) : \A k :
            /\ HasKey(rest, i, k) <=> HasKey(queue, i + 1, k)
            /\ Other(rest, i, k) <=> Other(queue, i + 1, k)
      /\ \A i \in 1 .. Len(rest) : rest[i] = queue[i + 1]
  <2>1. /\ rest \in Seq(Reply) /\ Head(queue) = queue[1]
        /\ \A i \in 1 .. Len(rest) : rest[i] = queue[i + 1]
        /\ \A i \in 1 .. Len(rest) : \A k :
              /\ HasKey(rest, i, k) <=> HasKey(queue, i + 1, k)
              /\ Other(rest, i, k) <=> Other(queue, i + 1, k)
    BY TailReplies
  <2>2. m = queue[1]
    BY <2>1
  <2>3. ~ IsEnd(m)
    BY EndIs
  <2>4. ~ IsEnd(queue[1])
    BY <2>2, <2>3
  <2> QED BY <2>1, <2>2, <2>4
<1>2. /\ Mine(a, m.key)' = IF m.body THEN m.uuid ELSE NoMsg
      /\ \A k \in Key : \A n : k # m.key /\ Good(a, k, n) => Good(a, k, n)'
  BY MineStored
<1>3. PICK n : n = queue[e + 1].kthxbai
  OBVIOUS
<1>4. e \in Nat /\ Len(rest) \in Nat /\ e <= Len(rest) /\ e >= 1
  BY <1>1
<1>5. ASSUME NEW k \in Key, Value(n, k)' # NoMsg
      PROVE  Brings(rest, e, k, Value(n, k)') \/ (Leaves(rest, e, k) /\ Good(a, k, n)')
  <2>1. PICK u : u = Value(n, k)
    OBVIOUS
  <2>2. Value(n, k)' = u /\ u # NoMsg
    BY <1>5, <2>1 DEF Around, Value
  <2>3. Brings(queue, e + 1, k, u) \/ (Leaves(queue, e + 1, k) /\ Good(a, k, n))
    BY <1>3, <2>1, <2>2 DEF SnapGood
  <2>4. (e + 1) - 1 = e /\ \A h \in 1 .. e - 1 : h \in 1 .. Len(rest) /\ h + 1 \in 1 .. e
    BY <1>4
  <2>5. CASE Brings(queue, e + 1, k, u)
    <3>1. PICK i \in 1 .. e : /\ HasKey(queue, i, k) /\ queue[i].uuid = u /\ queue[i].body
                              /\ \A h \in 1 .. e : h > i => Other(queue, h, k)
      BY <2>4, <2>5 DEF Brings
    <3>2. CASE i = 1
      <4>1. \A h \in 1 .. e - 1 : Other(queue, h + 1, k)
        BY <1>4, <2>4, <3>1, <3>2
      <4>2. Leaves(rest, e, k)
        BY <1>1, <2>4, <4>1 DEF Leaves
      <4>3. m.key = k /\ m.body /\ m.uuid = u
        BY <1>1, <3>1, <3>2 DEF HasKey
      <4>4. Mine(a, k)' = Value(n, k)'
        BY <1>2, <2>2, <4>3
      <4> QED BY <4>2, <4>4 DEF Good
    <3>3. CASE i # 1
      <4>1. PICK g \in 1 .. e - 1 : i = g + 1
        <5>1. i - 1 \in 1 .. e - 1 /\ i = (i - 1) + 1
          BY <1>4, <3>1, <3>3
        <5> QED BY <5>1
      <4>2. HasKey(rest, g, k) /\ rest[g].uuid = u /\ rest[g].body
        BY <1>1, <2>4, <3>1, <4>1
      <4>3. ASSUME NEW h \in 1 .. e - 1, h > g PROVE Other(rest, h, k)
        <5>1. h + 1 \in 1 .. e /\ h + 1 > i
          BY <1>4, <2>4, <4>1, <4>3
        <5> QED BY <1>1, <2>4, <3>1, <5>1
      <4>4. Brings(rest, e, k, u)
        BY <4>2, <4>3 DEF Brings
      <4> QED BY <2>2, <4>4
    <3> QED BY <3>2, <3>3
  <2>6. CASE Leaves(queue, e + 1, k) /\ Good(a, k, n)
    <3>1. \A h \in 1 .. e : Other(queue, h, k)
      BY <2>4, <2>6 DEF Leaves
    <3>2. Leaves(rest, e, k)
      BY <1>1, <2>4, <3>1 DEF Leaves
    <3>3. k # m.key
      <4>1. 1 \in 1 .. e
        BY <1>4
      <4>2. Other(queue, 1, k)
        BY <3>1, <4>1
      <4> QED BY <1>1, <4>2 DEF Other
    <3> QED BY <1>2, <2>6, <3>2, <3>3
  <2> QED BY <2>3, <2>5, <2>6
<1>6. rest[e].kthxbai = n
  BY <1>1, <1>3
<1> QED BY <1>5, <1>6 DEF SnapGood

\* The end of a snapshot is read: the next one brings what it did.
LEMMA SnapGoodNext ==
    ASSUME ServerInv, Around, NEW a \in Agent, NEW s \in Server,
           NEW queue \in Seq(Reply), queue # <<>>, IsEnd(queue[1]),
           NEW rest, rest = Tail(queue),
           NEW e \in 1 .. Len(rest), SnapGood(a, s, queue, e + 1)
    PROVE  SnapGood(a, s, rest, e)'
<1>1. /\ rest \in Seq(Reply) /\ rest[e] = queue[e + 1]
      /\ \A i \in 1 .. Len(rest) : rest[i] = queue[i + 1]
      /\ \A i \in 1 .. Len(rest) : \A k :
            /\ HasKey(rest, i, k) <=> HasKey(queue, i + 1, k)
            /\ Other(rest, i, k) <=> Other(queue, i + 1, k)
  BY TailReplies
<1>2. PICK n : n = queue[e + 1].kthxbai
  OBVIOUS
<1>3. e \in Nat /\ Len(rest) \in Nat /\ e <= Len(rest) /\ e >= 1
  BY <1>1
<1>4. (e + 1) - 1 = e /\ \A h \in 1 .. e - 1 : h \in 1 .. Len(rest) /\ h + 1 \in 1 .. e
  BY <1>3
<1>5. ASSUME NEW k \in Key, Value(n, k)' # NoMsg
      PROVE  Brings(rest, e, k, Value(n, k)')
  <2>1. PICK u : u = Value(n, k)
    OBVIOUS
  <2>2. Value(n, k)' = u /\ u # NoMsg
    BY <1>5, <2>1 DEF Around, Value
  <2>3. ~ Leaves(queue, e + 1, k)
    <3>1. 1 \in 1 .. e /\ ~ Other(queue, 1, k)
      BY <1>3 DEF Other
    <3> QED BY <1>4, <3>1 DEF Leaves
  <2>4. Brings(queue, e + 1, k, u)
    BY <1>2, <2>1, <2>2, <2>3 DEF SnapGood
  <2>5. PICK i \in 1 .. e : /\ HasKey(queue, i, k) /\ queue[i].uuid = u /\ queue[i].body
                            /\ \A h \in 1 .. e : h > i => Other(queue, h, k)
    BY <1>4, <2>4 DEF Brings
  <2>6. i # 1
    BY <2>5 DEF HasKey
  <2>7. PICK g \in 1 .. e - 1 : i = g + 1
    <3>1. i - 1 \in 1 .. e - 1 /\ i = (i - 1) + 1
      BY <1>3, <2>5, <2>6
    <3> QED BY <3>1
  <2>8. HasKey(rest, g, k) /\ rest[g].uuid = u /\ rest[g].body
    BY <1>1, <1>4, <2>5, <2>7
  <2>9. ASSUME NEW h \in 1 .. e - 1, h > g PROVE Other(rest, h, k)
    <3>1. h + 1 \in 1 .. e /\ h + 1 > i
      BY <1>3, <1>4, <2>7, <2>9
    <3> QED BY <1>1, <1>4, <2>5, <3>1
  <2>10. Brings(rest, e, k, u)
    BY <2>8, <2>9 DEF Brings
  <2> QED BY <2>2, <2>10
<1>6. rest[e].kthxbai = n
  BY <1>1, <1>2
<1> QED BY <1>5, <1>6 DEF SnapGood

\* The end of a snapshot: the table is good as far as the end says.
LEMMA SnapGoodEnd ==
    ASSUME ServerInv, AgentTypeOK, Around, UNCHANGED <<updates, sets>>,
           NEW a \in Agent, NEW s \in Server, NEW queue,
           NEW n \in 0 .. Len(log), n = queue[1].kthxbai, SnapGood(a, s, queue, 1),
           agent'[a].kvmap = agent[a].kvmap, agent'[a].sequence = n
    PROVE  GoodTo(a, agent[a].sequence)'
<1>1. LogGrows
  BY AroundLog
<1>2. Steady(a)
  <2>1. Fewer
    BY DEF Around, Fewer, Seen
  <2> QED BY <1>1, <2>1, GoodStays
<1>3. \A k \in Key : Value(n, k) # NoMsg => Good(a, k, n)
  <2>1. 1 .. 1 - 1 = {}
    OBVIOUS
  <2>2. \A k, u : ~ Brings(queue, 1, k, u)
    BY <2>1 DEF Brings
  <2> QED BY <2>2 DEF SnapGood
<1>4. \A k \in Key : Value(n, k)' = Value(n, k)
  BY <1>1, ValueStays
<1>5. \A k \in Key : Value(n, k)' # NoMsg => Good(a, k, n)'
  BY <1>2, <1>3, <1>4 DEF Steady
<1>6. GoodTo(a, n)'
  BY <1>5 DEF GoodTo
<1> QED BY <1>6 DEF GoodTo

\* An agent reads a message of a snapshot, and is synced after the end.
LEMMA SnapshotMessageAgents ==
    ASSUME ServerInv, AgentTypeOK, Agents, NEW a \in Agent, SnapshotMessage(a)
    PROVE  Agents'
<1>1. PICK s \in Server : s = Cur(a)
  BY AgentFacts
<1>2. PICK p : p = <<a, s>>
  OBVIOUS
<1>3. PICK queue : queue = snap[p]
  OBVIOUS
<1>4. PICK m : m = Head(queue)
  OBVIOUS
<1>5. /\ UNCHANGED <<subs, pubs, out, updates, server, log, tainted, sets>> /\ Read
      /\ agent[a].state = "SYNCING" /\ queue # <<>>
      /\ snap' = [snap EXCEPT ![p] = Tail(queue)]
      /\ IsEnd(m) => agent' = [agent EXCEPT ![a].sequence = m.kthxbai, ![a].state = "ACTIVE",
                                            ![a].requests[s] = 0]
      /\ ~ IsEnd(m) => agent' = [agent EXCEPT ![a].kvmap = Store(@, m), ![a].requests[s] = 0]
      /\ synced' = IF IsEnd(m) /\ p \notin leftover /\ s \notin tainted
                   THEN synced \cup {a} ELSE synced
  BY <1>1, <1>2, <1>3, <1>4 DEF SnapshotMessage, FromCur, serverVars
<1>6. /\ agent \in [Agent -> AgentRecord] /\ snap \in [Pair -> Seq(Reply)] /\ p \in Pair
      /\ queue \in Seq(Reply)
  BY <1>2, <1>3, AgentFacts, PairOfAgent
<1>7. /\ leftover' \subseteq leftover
      /\ \A r \in leftover : r \notin leftover' => out'[r] = <<>> /\ snap'[r] = <<>>
  BY <1>5, ReadsLess
<1>8. Around
  BY <1>5, <1>7 DEF Around
<1>9. Cur(a)' = s /\ ~ Reads(a, s) /\ \A b \in Agent : b # a => agent'[b] = agent[b]
  <2>1. agent[a].cur_server = s
    BY <1>1 DEF Cur
  <2>2. CASE IsEnd(m)
    <3>1. agent' = [agent EXCEPT ![a].sequence = m.kthxbai, ![a].state = "ACTIVE",
                                 ![a].requests[s] = 0]
      BY <1>5, <2>2
    <3> QED BY <1>5, <1>6, <2>1, <3>1 DEF AgentRecord, Cur, Reads
  <2>3. CASE ~ IsEnd(m)
    <3>1. agent' = [agent EXCEPT ![a].kvmap = Store(@, m), ![a].requests[s] = 0]
      BY <1>5, <2>3
    <3> QED BY <1>5, <1>6, <2>1, <3>1 DEF AgentRecord, Cur, Reads
  <2> QED BY <2>2, <2>3
<1>10. a \notin synced
  BY <1>5 DEF Agents, AgentOf
<1>11. PICK rest : rest = Tail(queue)
  OBVIOUS
<1>12. /\ snap'[p] = rest /\ m \in Reply /\ m = queue[1]
       /\ rest \in Seq(Reply) /\ 1 \in 1 .. Len(queue)
  <2>1. snap'[p] = rest
    BY <1>5, <1>6, <1>11
  <2>2. 1 \in 1 .. Len(queue)
    BY <1>5, <1>6
  <2> QED BY <1>4, <1>5, <1>6, <1>11, <2>1, <2>2, TailReplies
<1>13. log' = log /\ log \in Seq(Published) /\ Len(log) \in Nat
  BY <1>8, AroundLog
<1>14. ASSUME Live(a, s)
       PROVE  LiveStream(a, s)' /\ Live(a, s)'
  <2>1. LiveStream(a, s) /\ Live(a, s)'
    BY <1>8, <1>14, AroundLive DEF StreamTo, Agents
  <2>2. PICK j \in 0 .. Len(log) : /\ out[<<a, s>>] = Piece(log, j, Len(log))
                                   /\ <<a, s>> \notin subs => j = Len(log)
                                   /\ SnapsOK(a, s, queue, j)
    BY <1>2, <1>3, <1>9, <2>1 DEF LiveStream
  <2>3. /\ j \in 0 .. Len(log') /\ out'[<<a, s>>] = Piece(log', j, Len(log')) /\ j \in Nat
        /\ <<a, s>> \notin subs' => j = Len(log')
    BY <1>5, <1>13, <2>2
  <2>a. \A e \in 1 .. Len(rest) :
           /\ e + 1 \in 1 .. Len(queue) /\ rest[e] = queue[e + 1]
           /\ IsEnd(rest[e]) =>
                queue[e + 1].kthxbai \in j .. Len(log) /\ SnapGood(a, s, queue, e + 1)
    BY <1>5, <1>6, <1>11, <2>2, TailReplies DEF SnapsOK
  <2>4. CASE IsEnd(m)
    <3>1. agent' = [agent EXCEPT ![a].sequence = m.kthxbai, ![a].state = "ACTIVE",
                                 ![a].requests[s] = 0]
      BY <1>5, <2>4
    <3>2. /\ agent'[a].sequence = m.kthxbai /\ agent'[a].kvmap = agent[a].kvmap
          /\ agent'[a].state = "ACTIVE"
      BY <1>6, <3>1 DEF AgentRecord
    <3>3. m.kthxbai \in j .. Len(log) /\ SnapGood(a, s, queue, 1) /\ m.kthxbai = queue[1].kthxbai
      BY <1>12, <2>2, <2>4 DEF SnapsOK
    <3>4. m.kthxbai \in 0 .. Len(log)
      BY <1>13, <2>3, <3>3
    <3>5. GoodTo(a, agent[a].sequence)'
      BY <1>5, <1>8, <3>2, <3>3, <3>4, SnapGoodEnd
    <3>6. ReaderOK(a, j)'
      BY <1>13, <3>2, <3>3, <3>5 DEF ReaderOK
    <3>7. Reads(a, s)'
      BY <1>9, <3>2 DEF Reads
    <3>8. ASSUME NEW e \in 1 .. Len(rest), IsEnd(rest[e])
          PROVE  rest[e].kthxbai \in j .. Len(log) /\ SnapGood(a, s, rest, e)'
      <4>1. IsEnd(queue[1])
        BY <1>12, <2>4
      <4>2. SnapGood(a, s, rest, e)'
        BY <1>5, <1>6, <1>8, <1>11, <2>a, <3>8, <4>1, SnapGoodNext
      <4> QED BY <2>a, <3>8, <4>2
    <3>9. SnapsOK(a, s, rest, j)'
      BY <1>13, <3>8 DEF SnapsOK
    <3>10. SnapsOK(a, s, snap[<<a, s>>], j)'
      BY <1>2, <1>12, <3>9 DEF SnapsOK
    <3>11. LiveStream(a, s)'
      BY <2>3, <3>6, <3>7, <3>10 DEF LiveStream
    <3> QED BY <2>1, <3>11
  <2>5. CASE ~ IsEnd(m)
    <3>1. agent' = [agent EXCEPT ![a].kvmap = Store(@, m), ![a].requests[s] = 0]
      BY <1>5, <2>5
    <3>2. /\ agent'[a].kvmap = Store(agent[a].kvmap, m) /\ agent'[a].state = "SYNCING"
      BY <1>5, <1>6, <3>1 DEF AgentRecord
    <3>3. m \in Update
      BY <1>12, <2>5, EndIs DEF Reply
    <3>4. ASSUME NEW e \in 1 .. Len(rest), IsEnd(rest[e])
          PROVE  rest[e].kthxbai \in j .. Len(log) /\ SnapGood(a, s, rest, e)'
      <4>1. Joins(a, s) /\ Joins(a, s)'
        BY <1>1, <1>5, <1>9, <3>2 DEF Joins
      <4>2. SnapGood(a, s, rest, e)'
        BY <1>4, <1>5, <1>6, <1>8, <1>11, <2>a, <3>2, <3>3, <3>4, <4>1, SnapGoodTail
      <4> QED BY <2>a, <3>4, <4>2
    <3>5. SnapsOK(a, s, rest, j)'
      BY <1>13, <3>4 DEF SnapsOK
    <3>6. ~ Reads(a, s)'
      BY <3>2 DEF Reads
    <3>7. SnapsOK(a, s, snap[<<a, s>>], j)'
      BY <1>2, <1>12, <3>5 DEF SnapsOK
    <3>8. LiveStream(a, s)'
      BY <2>3, <3>6, <3>7 DEF LiveStream
    <3> QED BY <2>1, <3>8
  <2> QED BY <2>4, <2>5
<1>15. StreamTo(a, s)'
  <2>1. CASE Live(a, s)
    BY <1>14, <2>1 DEF StreamTo
  <2>2. CASE ~ Live(a, s)
    <3>1. IdleStream(a, s)
      BY <2>2 DEF StreamTo, Agents
    <3>2. <<a, s>> \in leftover \/ s \in tainted
      BY <1>2, <1>3, <1>5, <3>1 DEF IdleStream
    <3>3. a \notin synced'
      BY <1>2, <1>5, <1>10, <3>2
    <3> QED BY <1>5, <1>7, <1>8, <2>2, <3>2, <3>3, ReadsOther
  <2> QED BY <2>1, <2>2
<1>16. AgentOf(a)'
  <2>1. ASSUME a \in synced'
        PROVE  agent'[a].state = "ACTIVE" /\ Live(a, s)'
    <3>1. IsEnd(m) /\ p \notin leftover /\ s \notin tainted
      BY <1>5, <1>10, <2>1
    <3>2. agent'[a].state = "ACTIVE"
      <4>1. agent' = [agent EXCEPT ![a].sequence = m.kthxbai, ![a].state = "ACTIVE",
                                   ![a].requests[s] = 0]
        BY <1>5, <3>1
      <4> QED BY <1>6, <4>1 DEF AgentRecord
    <3>3. Live(a, s)
      <4>1. ASSUME ~ Live(a, s) PROVE FALSE
        <5>1. IdleStream(a, s)
          BY <4>1 DEF StreamTo, Agents
        <5> QED BY <1>2, <1>3, <1>5, <3>1, <5>1 DEF IdleStream
      <4> QED BY <4>1
    <3> QED BY <1>14, <3>2, <3>3
  <2> QED BY <1>9, <2>1 DEF AgentOf, Live
<1>17. \A b \in Agent : b # a => agent'[b] = agent[b] /\ (b \in synced' => b \in synced)
  BY <1>5, <1>9
<1>18. \A b \in Agent, q \in Server : b # a \/ q # s =>
          out'[<<b, q>>] = out[<<b, q>>] /\ snap'[<<b, q>>] = snap[<<b, q>>]
  <2>1. ASSUME NEW b \in Agent, NEW q \in Server, b # a \/ q # s
        PROVE  snap'[<<b, q>>] = snap[<<b, q>>]
    <3>1. <<b, q>> \in Pair /\ <<b, q>> # p
      BY <1>2, <2>1, PairOfAgent
    <3> QED BY <1>5, <1>6, <3>1
  <2> QED BY <1>5, <2>1
<1> QED BY <1>1, <1>5, <1>7, <1>8, <1>9, <1>15, <1>16, <1>17, <1>18, ReaderAgents

\* Every step of an agent keeps the agents' invariant.
LEMMA AgentStepAgents ==
    ASSUME ServerInv, AgentTypeOK, Kept, Agents, NEW a \in Agent, AgentStep(a)
    PROVE  Agents'
BY SetAgents, SnapshotMessageAgents, UpdateMessageAgents, HugzMessageAgents, FailoverAgents
   DEF AgentStep

\* Every step of the system does.
LEMMA AgentsNext == ServerInv /\ AgentTypeOK /\ Kept /\ Agents /\ [Next]_vars => Agents'
<1> SUFFICES ASSUME ServerInv, AgentTypeOK, Kept, Agents, [Next]_vars
             PROVE  Agents'
  OBVIOUS
<1>1. CASE UNCHANGED vars
  <2>1. Around /\ UNCHANGED <<snap, out, updates, agent, sets, synced, leftover>>
    BY <1>1 DEF vars, netVars, serverVars, agentVars, Around
  <2> QED BY <2>1, SameAgents
<1>2. ASSUME NEW s \in Server, ServerStep(s) /\ ServerEffect PROVE Agents'
  BY <1>2, ServerStepAgents
<1>3. ASSUME NEW x \in Agent \cup Server, NEW s \in Server, Subscribe(x, s) PROVE Agents'
  BY <1>3, SubscribeAgents
<1>4. ASSUME NEW a \in Agent, AgentStep(a) PROVE Agents'
  BY <1>4, AgentStepAgents
<1> QED BY <1>1, <1>2, <1>3, <1>4 DEF Next

\* In the initial states nothing has been sent.
LEMMA AgentsInit == Init => Agents
<1> SUFFICES ASSUME Init PROVE Agents
  OBVIOUS
<1>1. log = <<>> /\ synced = {} /\ \A q \in Pair : out[q] = <<>> /\ snap[q] = <<>>
  BY DEF Init, NetInit, ServerInit, AgentInit
<1>2. ASSUME NEW a \in Agent, NEW s \in Server PROVE StreamTo(a, s)
  <2>1. out[<<a, s>>] = <<>> /\ snap[<<a, s>>] = <<>>
    BY <1>1, PairOfAgent
  <2>2. Len(log) = 0 /\ 0 \in 0 .. Len(log) /\ log \in Seq(Published)
    BY <1>1
  <2>3. Piece(log, 0, Len(log)) = <<>>
    BY <2>2, PieceEmpty
  <2>4. ReaderOK(a, 0) /\ SnapsOK(a, s, snap[<<a, s>>], 0)
    BY <1>1, <2>1 DEF ReaderOK, SnapsOK
  <2>5. LiveStream(a, s)
    BY <2>1, <2>2, <2>3, <2>4 DEF LiveStream
  <2>6. IdleStream(a, s)
    BY <2>1 DEF IdleStream
  <2> QED BY <2>5, <2>6 DEF StreamTo
<1>3. \A a \in Agent : AgentOf(a)
  BY <1>1 DEF AgentOf
<1> QED BY <1>2, <1>3 DEF Agents

\* The agents' invariant holds in every state.
LEMMA AgentsAlways == Spec => []Agents
<1>1. Init => Agents
  BY AgentsInit
<1>2. ServerInv /\ AgentTypeOK /\ Kept /\ Agents /\ [Next]_vars => Agents'
  BY AgentsNext
<1> QED BY <1>1, <1>2, CloneInvariant, KeptAlways, PTL DEF Spec

\* The uuids that the first updates of the log have are Known.
LEMMA KnownIs ==
    ASSUME log \in Seq(Published), NEW n \in 0 .. Len(log)
    PROVE  Uuids(SubSeq(log, 1, n)) = Known(n) /\ NoMsg \notin Known(n)
<1>1. Len(log) \in Nat /\ n \in Nat /\ n <= Len(log) /\ \A i \in 1 .. n : i \in 1 .. Len(log)
  OBVIOUS
<1>2. PICK part : part = SubSeq(log, 1, n)
  OBVIOUS
<1>3. DOMAIN part = 1 .. n /\ \A i \in 1 .. n : part[i] = log[i]
  BY <1>1, <1>2
<1>4. Uuids(part) = Known(n)
  BY <1>3 DEF Uuids, Known
<1>5. ASSUME NEW i \in 1 .. n PROVE log[i].uuid # NoMsg
  <2>1. log[i] \in Published
    BY <1>1, ElementOfSeq
  <2>2. log[i].uuid \in Nat
    BY <2>1, PublishedIsUpdate, UpdateFields
  <2> QED BY <2>2, CloneAssumption
<1> QED BY <1>2, <1>4, <1>5 DEF Known

\* It says of each synced agent what AgentAgrees claims.
LEMMA AgentsAgree == ServerInv /\ AgentTypeOK /\ Agents => AgentAgrees
<1> SUFFICES ASSUME ServerInv, AgentTypeOK, Agents PROVE AgentAgrees
  OBVIOUS
<1> SUFFICES ASSUME NEW a \in synced, NEW k \in Key,
                    Value(agent[a].sequence, k) # NoMsg
             PROVE  \/ Mine(a, k) = Value(agent[a].sequence, k)
                    \/ /\ Mine(a, k) \notin Uuids(SubSeq(log, 1, agent[a].sequence))
                       /\ ~ (1 .. sets \subseteq Uuids(SubSeq(log, 1, agent[a].sequence)))
  BY DEF AgentAgrees, Value, Mine
<1>1. a \in Agent
  BY DEF AgentTypeOK
<1>2. PICK s \in Server : s = Cur(a)
  BY <1>1, AgentFacts
<1>3. Live(a, s) /\ agent[a].state = "ACTIVE"
  BY <1>1, <1>2 DEF Agents, AgentOf
<1>4. LiveStream(a, s) /\ Reads(a, s)
  BY <1>1, <1>2, <1>3 DEF Agents, StreamTo, Reads
<1>5. PICK j \in 0 .. Len(log) : ReaderOK(a, j)
  BY <1>4 DEF LiveStream
<1>6. log \in Seq(Published) /\ Len(log) \in Nat
  BY <1>2, ServerFacts
<1>7. PICK n : n = agent[a].sequence
  OBVIOUS
<1>8. n \in 0 .. Len(log) /\ GoodTo(a, n)
  BY <1>5, <1>6, <1>7 DEF ReaderOK
<1>9. Uuids(SubSeq(log, 1, n)) = Known(n) /\ NoMsg \notin Known(n)
  BY <1>6, <1>8, KnownIs
<1>10. Mine(a, k) = Value(n, k) \/ Own(a, k, n)
  BY <1>7, <1>8 DEF GoodTo, Good
<1>11. Own(a, k, n) => Mine(a, k) \notin Known(n) /\ ~ (1 .. sets \subseteq Known(n))
  BY <1>9 DEF Own
<1> QED BY <1>7, <1>9, <1>10, <1>11

\* A client that took its snapshot from the process that runs, and missed nothing
\* between the snapshot and its subscription, has the values of the log as far as
\* it has come, but for its own updates under way.
THEOREM CloneAgentAgrees == Spec => []AgentAgrees
<1>1. ServerInv /\ AgentTypeOK /\ Agents => AgentAgrees
  BY AgentsAgree
<1> QED BY <1>1, CloneInvariant, AgentsAlways, PTL

=============================================================================
