--------------------------- MODULE ProgramsProofs ---------------------------
(***************************************************************************)
(* Proofs about four of the single programs: the brokers of Parted, for    *)
(* any number of clients and workers; the nodes of udpDiscovery, for any   *)
(* number of nodes and any times at which beacons come often enough; the   *)
(* application of the clone agent, for any number of calls, servers and    *)
(* keys; and the C++ broker with its workers and its client, for any       *)
(* number of workers, connections and requests and any expiry.             *)
(***************************************************************************)
EXTENDS Parted, Discovery, CloneApp, MajordomoCpp, FiniteSetTheorems, SequenceTheorems,
        NaturalsInduction, WellFoundedInduction, TLAPS

----------------------------------------------------------------------------
(* That PartedListed holds for every number of clients and workers. *)

PartedSpec == PartedInit /\ [][PartedNext]_partedVars

PartedTypeOK ==
    /\ requester \in [Requester -> {"sleeps", "waits", "exits"}]
    /\ localfe \in Seq(Requester)
    /\ server \in [Server -> {"starts", "waits", "works"}]
    /\ handed \in [Server -> Seq(Requester)]
    /\ localbe \in Seq(Server)
    /\ workers \in Seq(Server)
    /\ local_capacity \in Nat
    /\ brokerPc \in {"primary", "secondary", "aborted"}
    /\ monitor \in Nat

\* Worker w is in the list, and nobody is in it twice.
In(list, w) == \E i \in DOMAIN list : list[i] = w
Once(list)  == \A i, j \in DOMAIN list : list[i] = list[j] => i = j

\* A worker is where its last message or its last request is, and nowhere else.
OnePlace ==
    /\ Once(workers) /\ Once(localbe)
    /\ \A w \in Server :
          /\ Len(handed[w]) \in {0, 1}
          /\ server[w] = "waits" <=> In(workers, w) \/ In(localbe, w) \/ Len(handed[w]) = 1
          /\ ~(In(workers, w) /\ In(localbe, w))
          /\ Len(handed[w]) = 1 => ~In(workers, w) /\ ~In(localbe, w)

\* The second poll is for requests, and there is a worker for the next.
CapacityOK ==
    /\ local_capacity = Len(workers)
    /\ brokerPc = "secondary" => Len(workers) > 0

PartedInv == PartedTypeOK /\ OnePlace /\ CapacityOK

\* A worker that is appended is in the list, once if it was not there before.
LEMMA AppendIn ==
    ASSUME NEW S, NEW list \in Seq(S), NEW x \in S
    PROVE  /\ \A w : In(Append(list, x), w) <=> In(list, w) \/ w = x
           /\ Once(list) /\ ~In(list, x) => Once(Append(list, x))
           /\ Append(list, x) \in Seq(S)
           /\ Len(Append(list, x)) = Len(list) + 1
<1>1. /\ Len(list) \in Nat /\ DOMAIN list = 1 .. Len(list)
      /\ DOMAIN Append(list, x) = 1 .. (Len(list) + 1)
      /\ \A i \in 1 .. Len(list) : Append(list, x)[i] = list[i]
      /\ Append(list, x)[Len(list) + 1] = x
  OBVIOUS
<1>2. \A w : In(Append(list, x), w) <=> In(list, w) \/ w = x
  BY <1>1 DEF In
<1>3. Once(list) /\ ~In(list, x) => Once(Append(list, x))
  BY <1>1 DEF In, Once
<1> QED BY <1>1, <1>2, <1>3

\* The first of a list leaves it.
LEMMA TailIn ==
    ASSUME NEW S, NEW list \in Seq(S), list # <<>>, Once(list)
    PROVE  /\ \A w : In(Tail(list), w) <=> In(list, w) /\ w # Head(list)
           /\ In(list, Head(list)) /\ Head(list) \in S
           /\ Once(Tail(list))
           /\ Tail(list) \in Seq(S) /\ Len(Tail(list)) = Len(list) - 1 /\ Len(list) \in Nat \ {0}
<1>1. /\ Len(list) \in Nat \ {0} /\ DOMAIN list = 1 .. Len(list)
      /\ DOMAIN Tail(list) = 1 .. (Len(list) - 1)
      /\ \A i \in 1 .. (Len(list) - 1) : Tail(list)[i] = list[i + 1]
      /\ Head(list) = list[1]
      /\ Len(Tail(list)) = Len(list) - 1
  OBVIOUS
<1>2. \A w : In(Tail(list), w) => In(list, w) /\ w # Head(list)
  BY <1>1 DEF In, Once
<1>3. \A w : In(list, w) /\ w # Head(list) => In(Tail(list), w)
  <2> SUFFICES ASSUME NEW i \in DOMAIN list, list[i] # list[1]
               PROVE  \E j \in DOMAIN Tail(list) : Tail(list)[j] = list[i]
    BY <1>1 DEF In
  <2>1. i - 1 \in DOMAIN Tail(list) /\ Tail(list)[i - 1] = list[i]
    BY <1>1
  <2> QED BY <2>1
<1>4. Once(Tail(list))
  BY <1>1 DEF Once
<1>5. In(list, Head(list)) /\ Head(list) \in S /\ Tail(list) \in Seq(S)
  BY <1>1 DEF In
<1>6. \A w : In(Tail(list), w) <=> In(list, w) /\ w # Head(list)
  BY <1>2, <1>3
<1> QED BY <1>1, <1>4, <1>5, <1>6

\* Who is at most once in a list takes one place in it, or none.
LEMMA OneCardinality ==
    ASSUME NEW list, Once(list), NEW w
    PROVE  Cardinality({i \in DOMAIN list : list[i] = w}) = IF In(list, w) THEN 1 ELSE 0
<1>1. CASE In(list, w)
  <2>1. PICK i \in DOMAIN list : list[i] = w
    BY <1>1 DEF In
  <2>2. {j \in DOMAIN list : list[j] = w} = {i}
    BY <2>1 DEF Once
  <2> QED BY <1>1, <2>2, FS_Singleton
<1>2. CASE ~In(list, w)
  <2>1. {j \in DOMAIN list : list[j] = w} = {}
    BY <1>2 DEF In
  <2> QED BY <1>2, <2>1, FS_EmptySet
<1> QED BY <1>1, <1>2

\* The invariant says what PartedListed claims.
LEMMA InvListed == PartedInv => PartedListed
<1> SUFFICES ASSUME PartedInv, NEW w \in Server PROVE PlacesOf(w) = 1
  BY DEF PartedInv, PartedListed, CapacityOK
<1>1. Once(workers) /\ Once(localbe) /\ Len(handed[w]) \in {0, 1}
  BY DEF PartedInv, OnePlace
<1>2. /\ Cardinality({i \in DOMAIN workers : workers[i] = w}) = IF In(workers, w) THEN 1 ELSE 0
      /\ Cardinality({i \in DOMAIN localbe : localbe[i] = w}) = IF In(localbe, w) THEN 1 ELSE 0
  BY <1>1, OneCardinality
<1>3. PlacesOf(w) = (IF In(workers, w) THEN 1 ELSE 0) + (IF In(localbe, w) THEN 1 ELSE 0)
                    + Len(handed[w]) + (IF server[w] = "waits" THEN 0 ELSE 1)
  BY <1>2 DEF PlacesOf
<1>4. CASE In(workers, w)
  <2>1. ~In(localbe, w) /\ Len(handed[w]) = 0 /\ server[w] = "waits"
    BY <1>1, <1>4 DEF PartedInv, OnePlace
  <2> QED BY <1>3, <1>4, <2>1
<1>5. CASE In(localbe, w)
  <2>1. ~In(workers, w) /\ Len(handed[w]) = 0 /\ server[w] = "waits"
    BY <1>1, <1>5 DEF PartedInv, OnePlace
  <2> QED BY <1>3, <1>5, <2>1
<1>6. CASE ~In(workers, w) /\ ~In(localbe, w)
  <2>1. server[w] = "waits" <=> Len(handed[w]) = 1
    BY <1>6 DEF PartedInv, OnePlace
  <2>2. CASE Len(handed[w]) = 0
    BY <1>3, <1>6, <2>1, <2>2
  <2>3. CASE Len(handed[w]) = 1
    BY <1>3, <1>6, <2>1, <2>3
  <2> QED BY <1>1, <2>2, <2>3
<1> QED BY <1>4, <1>5, <1>6

\* At the start nobody is listed.
LEMMA InitListed == PartedInit => PartedInv
<1> SUFFICES ASSUME PartedInit PROVE PartedInv
  OBVIOUS
<1>1. PartedTypeOK
  BY DEF PartedInit, PartedStart, PartedTypeOK
<1>2. OnePlace
  BY DEF PartedInit, PartedStart, OnePlace, Once, In
<1> QED BY <1>1, <1>2 DEF PartedInit, PartedStart, PartedInv, CapacityOK

\* Every step of a client, a worker or the broker keeps the invariant.
LEMMA NextListed == PartedInv /\ [PartedNext]_partedVars => PartedInv'
<1> SUFFICES ASSUME PartedInv, [PartedNext]_partedVars PROVE PartedInv'
  OBVIOUS
<1>0. PartedTypeOK /\ OnePlace /\ CapacityOK
  BY DEF PartedInv
<1>1. ASSUME NEW c \in Requester, BurstRequest(c) \/ LostTask(c) PROVE PartedInv'
  <2>1. PartedTypeOK'
    <3>1. CASE BurstRequest(c)
      <4>1. localfe' \in Seq(Requester)
        BY <1>0, <3>1 DEF BurstRequest, PartedTypeOK
      <4> QED BY <1>0, <3>1, <4>1 DEF BurstRequest, PartedTypeOK
    <3>2. CASE LostTask(c)
      BY <1>0, <3>2 DEF LostTask, PartedTypeOK
    <3> QED BY <1>1, <3>1, <3>2
  <2>2. UNCHANGED <<server, handed, localbe, workers, local_capacity, brokerPc>>
    BY <1>1 DEF BurstRequest, LostTask
  <2> QED BY <1>0, <2>1, <2>2 DEF PartedInv, OnePlace, CapacityOK
<1>2. ASSUME NEW w \in Server, ServerSend(w) PROVE PartedInv'
  <2>1. localbe \in Seq(Server) /\ ~In(localbe, w) /\ ~In(workers, w) /\ Len(handed[w]) = 0
    BY <1>0, <1>2 DEF ServerSend, PartedTypeOK, OnePlace
  <2>2. /\ \A x : In(localbe', x) <=> In(localbe, x) \/ x = w
        /\ Once(localbe') /\ localbe' \in Seq(Server)
    BY <1>0, <1>2, <2>1, AppendIn DEF ServerSend, OnePlace
  <2>3. /\ server'[w] = "waits" /\ \A x \in Server \ {w} : server'[x] = server[x]
        /\ server' \in [Server -> {"starts", "waits", "works"}]
    BY <1>0, <1>2 DEF ServerSend, PartedTypeOK
  <2>4. UNCHANGED <<requester, localfe, handed, workers, local_capacity, brokerPc, monitor>>
    BY <1>2 DEF ServerSend
  <2>5. PartedTypeOK' /\ CapacityOK'
    BY <1>0, <2>2, <2>3, <2>4 DEF PartedTypeOK, CapacityOK
  <2>6. OnePlace'
    <3>1. In(localbe', w) /\ ~In(workers', w) /\ Len(handed'[w]) = 0
      BY <1>0, <2>1, <2>2, <2>4 DEF OnePlace
    <3>2. \A x \in Server \ {w} : In(localbe', x) <=> In(localbe, x)
      BY <2>2
    <3> QED BY <1>0, <2>2, <2>3, <2>4, <3>1, <3>2 DEF OnePlace
  <2> QED BY <2>5, <2>6 DEF PartedInv
<1>3. ASSUME NEW w \in Server, ServerRecv(w) PROVE PartedInv'
  <2>1. /\ server[w] = "waits" /\ handed[w] # <<>> /\ Len(handed[w]) = 1
        /\ handed[w] \in Seq(Requester) /\ ~In(workers, w) /\ ~In(localbe, w)
    BY <1>0, <1>3 DEF ServerRecv, OnePlace, PartedTypeOK
  <2>2. Len(Tail(handed[w])) = 0 /\ Tail(handed[w]) \in Seq(Requester)
    BY <2>1
  <2>3. /\ server'[w] = "works" /\ \A x \in Server \ {w} : server'[x] = server[x] /\ handed'[x] = handed[x]
        /\ Len(handed'[w]) = 0
        /\ server' \in [Server -> {"starts", "waits", "works"}] /\ handed' \in [Server -> Seq(Requester)]
    BY <1>0, <1>3, <2>2 DEF ServerRecv, PartedTypeOK
  <2>4. UNCHANGED <<requester, localfe, localbe, workers, local_capacity, brokerPc, monitor>>
    BY <1>3 DEF ServerRecv
  <2>5. PartedTypeOK' /\ CapacityOK'
    BY <1>0, <2>3, <2>4 DEF PartedTypeOK, CapacityOK
  <2>6. OnePlace'
    BY <1>0, <2>1, <2>3, <2>4 DEF OnePlace
  <2> QED BY <2>5, <2>6 DEF PartedInv
<1>4. CASE PartedPrimary
  <2>0. /\ localbe \in Seq(Server) /\ workers \in Seq(Server) /\ Once(localbe) /\ Once(workers)
        /\ local_capacity = Len(workers) /\ local_capacity \in Nat
    BY <1>0 DEF PartedTypeOK, OnePlace, CapacityOK
  <2>1. /\ UNCHANGED <<requester, localfe, server, handed>>
        /\ monitor' \in Nat /\ brokerPc' = IF local_capacity' > 0 THEN "secondary" ELSE "primary"
    BY <1>0, <1>4 DEF PartedPrimary, PartedTypeOK
  <2>2. CASE localbe # <<>>
    <3> DEFINE w == Head(localbe)
    <3>1. /\ w \in Server /\ In(localbe, w) /\ Once(localbe') /\ localbe' \in Seq(Server)
          /\ \A x : In(localbe', x) <=> In(localbe, x) /\ x # w
      <4>1. localbe' = Tail(localbe)
        BY <1>4, <2>2 DEF PartedPrimary
      <4>2. /\ \A x : In(Tail(localbe), x) <=> In(localbe, x) /\ x # Head(localbe)
            /\ In(localbe, Head(localbe)) /\ Head(localbe) \in Server
            /\ Once(Tail(localbe)) /\ Tail(localbe) \in Seq(Server)
        BY <2>0, <2>2, TailIn
      <4> QED BY <4>1, <4>2
    <3>2. ~In(workers, w) /\ Len(handed[w]) = 0
      BY <1>0, <3>1 DEF OnePlace
    <3>3. workers' = Append(workers, w) /\ local_capacity' = local_capacity + 1
      BY <1>4, <2>2 DEF PartedPrimary
    <3> HIDE DEF w
    <3>4. /\ \A x : In(workers', x) <=> In(workers, x) \/ x = w
          /\ Once(workers') /\ workers' \in Seq(Server) /\ Len(workers') > 0 /\ local_capacity' = Len(workers')
      BY <2>0, <3>1, <3>2, <3>3, AppendIn
    <3>5. PartedTypeOK' /\ CapacityOK'
      BY <1>0, <2>0, <2>1, <3>1, <3>3, <3>4 DEF PartedTypeOK, CapacityOK
    <3>6. OnePlace'
      BY <1>0, <2>1, <3>1, <3>2, <3>4 DEF OnePlace
    <3> QED BY <3>5, <3>6 DEF PartedInv
  <2>3. CASE localbe = <<>>
    <3>1. UNCHANGED <<workers, local_capacity, localbe>>
      BY <1>4, <2>3 DEF PartedPrimary
    <3>2. local_capacity > 0 => Len(workers) > 0
      BY <2>0
    <3> QED BY <1>0, <2>1, <3>1, <3>2 DEF PartedInv, PartedTypeOK, OnePlace, CapacityOK
  <2> QED BY <2>2, <2>3
<1>5. CASE PartedSecondary
  <2>0. /\ localfe \in Seq(Requester) /\ localfe # <<>> /\ handed \in [Server -> Seq(Requester)]
        /\ workers \in Seq(Server) /\ Once(workers) /\ workers # <<>> /\ Len(workers) > 0
        /\ local_capacity = Len(workers) /\ local_capacity \in Nat
    BY <1>0, <1>5 DEF PartedSecondary, PartedTypeOK, OnePlace, CapacityOK
  <2> DEFINE w == Head(workers)
  <2>1. /\ w \in Server /\ In(workers, w) /\ Once(workers') /\ workers' \in Seq(Server)
        /\ \A x : In(workers', x) <=> In(workers, x) /\ x # w
        /\ local_capacity' = Len(workers') /\ local_capacity' \in Nat
        /\ local_capacity > 1 => Len(workers') > 0
    <3>1. workers' = Tail(workers) /\ local_capacity' = local_capacity - 1
      BY <1>5 DEF PartedSecondary
    <3>2. /\ \A x : In(Tail(workers), x) <=> In(workers, x) /\ x # Head(workers)
          /\ In(workers, Head(workers)) /\ Head(workers) \in Server
          /\ Once(Tail(workers)) /\ Tail(workers) \in Seq(Server)
          /\ Len(Tail(workers)) = Len(workers) - 1
      BY <2>0, TailIn
    <3> QED BY <2>0, <3>1, <3>2
  <2>2. Len(handed[w]) = 0 /\ ~In(localbe, w) /\ server[w] = "waits"
    BY <1>0, <2>1 DEF OnePlace
  <2>3. /\ Head(localfe) \in Requester /\ localfe' \in Seq(Requester)
        /\ handed' = [handed EXCEPT ![w] = Append(handed[w], Head(localfe))]
        /\ brokerPc' = IF local_capacity > 1 THEN "secondary" ELSE "primary"
        /\ UNCHANGED <<requester, server, localbe, monitor>>
    BY <1>5, <2>0 DEF PartedSecondary
  <2> HIDE DEF w
  <2>4. /\ Append(handed[w], Head(localfe)) \in Seq(Requester)
        /\ Len(Append(handed[w], Head(localfe))) = 1
    BY <2>0, <2>1, <2>2, <2>3
  <2>5. /\ handed' \in [Server -> Seq(Requester)] /\ Len(handed'[w]) = 1
        /\ \A x \in Server \ {w} : handed'[x] = handed[x]
    BY <2>0, <2>1, <2>3, <2>4
  <2>6. PartedTypeOK' /\ CapacityOK'
    BY <1>0, <2>1, <2>3, <2>5 DEF PartedTypeOK, CapacityOK
  <2>7. OnePlace'
    BY <1>0, <2>1, <2>2, <2>3, <2>5 DEF OnePlace
  <2> QED BY <2>6, <2>7 DEF PartedInv
<1>6. CASE AssertFails
  BY <1>0, <1>6 DEF AssertFails, PartedInv, PartedTypeOK, OnePlace, CapacityOK
<1>7. CASE UNCHANGED partedVars
  BY <1>0, <1>7 DEF partedVars, PartedInv, PartedTypeOK, OnePlace, CapacityOK
<1> QED BY <1>1, <1>2, <1>3, <1>4, <1>5, <1>6, <1>7 DEF PartedNext, PartedBroker

\* The worker list of Parted's broker and its count agree, and no worker gets a second
\* request while it has one, for any number of clients and workers
\* (mainThread.c:107-148, 171-211).
THEOREM PartedIsListed == PartedSpec => []PartedListed
BY InvListed, InitListed, NextListed, PTL DEF PartedSpec

(* Discovery: no peer that is alive is reported LEFT. *)

DiscoverySpec == DiscoveryInit /\ [][DiscoveryNext]_discoveryVars

\* The longest time between two beacons of a node, and of k that are missed.
Cycle == PING_INTERVAL + MaxLate
Gap(k) == k * Cycle

\* The beacons that may be missed in a row, the one that is not, and what it may wait in a
\* socket take less than a peer's time.
Timely == (MaxMissed + 1) * (PING_INTERVAL + MaxLate) + MaxLate < PEER_EXPIRY

\* The times of a node, and what Timely says of them.
LEMMA Times ==
    /\ Cycle \in Nat /\ Cycle = PING_INTERVAL + MaxLate
    /\ PING_INTERVAL \in Nat /\ PING_INTERVAL > 0 /\ PEER_EXPIRY \in Nat /\ PEER_EXPIRY > 0
    /\ MaxLate \in Nat /\ MaxMissed \in Nat /\ MaxRestarts \in Nat
    /\ Gap(0) = 0
    /\ \A k \in 0 .. MaxMissed : k \in Nat /\ Gap(k) \in Nat /\ Gap(k) <= Gap(MaxMissed)
    /\ \A k \in Nat : Gap(k + 1) = Gap(k) + Cycle
    /\ Gap(MaxMissed) \in Nat
    /\ Timely => Gap(MaxMissed) + Cycle + MaxLate < PEER_EXPIRY
<1>1. /\ Cycle \in Nat /\ PING_INTERVAL \in Nat /\ MaxLate \in Nat /\ MaxMissed \in Nat /\ PEER_EXPIRY \in Nat
      /\ PING_INTERVAL > 0 /\ PEER_EXPIRY > 0 /\ MaxRestarts \in Nat
  BY DiscoveryAssumption DEF Cycle
<1>2. \A k, w \in Nat : k * w \in Nat /\ (k + 1) * w = k * w + w /\ 0 * w = 0
  OBVIOUS
<1>3. \A k, m, w \in Nat : k <= m => k * w <= m * w
  <2> SUFFICES ASSUME NEW k \in Nat, NEW m \in Nat, NEW w \in Nat, k <= m PROVE k * w <= m * w
    OBVIOUS
  <2>1. PICK d \in Nat : m = k + d
    <3>1. m - k \in Nat /\ m = k + (m - k)
      OBVIOUS
    <3> QED BY <3>1
  <2>2. m * w = k * w + d * w /\ d * w \in Nat /\ k * w \in Nat
    BY <2>1
  <2> QED BY <2>2
<1>4. Timely => Gap(MaxMissed) + Cycle + MaxLate < PEER_EXPIRY
  <2>1. (MaxMissed + 1) * Cycle = Gap(MaxMissed) + Cycle
    BY <1>1, <1>2 DEF Gap
  <2> QED BY <1>1, <2>1 DEF Timely, Cycle
<1>5. \A k \in 0 .. MaxMissed : k \in Nat /\ k <= MaxMissed
  BY <1>1
<1>6. \A k \in 0 .. MaxMissed : k \in Nat /\ Gap(k) \in Nat /\ Gap(k) <= Gap(MaxMissed)
  BY <1>1, <1>2, <1>3, <1>5 DEF Gap
<1>7. Gap(0) = 0 /\ Gap(MaxMissed) \in Nat /\ \A k \in Nat : Gap(k + 1) = Gap(k) + Cycle
  BY <1>1, <1>2 DEF Gap
<1> QED BY <1>1, <1>4, <1>6, <1>7 DEF Cycle

----------------------------------------------------------------------------
(* Sequences and functions. *)

\* A sequence and one element more.
LEMMA Appended ==
    ASSUME NEW S, NEW q \in Seq(S), NEW e \in S
    PROVE  /\ Append(q, e) \in Seq(S) /\ Len(q) \in Nat
           /\ DOMAIN q = 1 .. Len(q) /\ DOMAIN Append(q, e) = 1 .. Len(q) + 1
           /\ \A i \in 1 .. Len(q) : Append(q, e)[i] = q[i] /\ i \in 1 .. Len(q) + 1
           /\ Append(q, e)[Len(q) + 1] = e /\ Len(q) + 1 \in 1 .. Len(q) + 1
           /\ \A i \in 1 .. Len(q) + 1 : i \in 1 .. Len(q) \/ i = Len(q) + 1
           /\ \A i \in 1 .. Len(q) : q[i] \in S
  OBVIOUS

\* A sequence without its first element.
LEMMA Tailed ==
    ASSUME NEW S, NEW q \in Seq(S), q # <<>>
    PROVE  /\ Tail(q) \in Seq(S) /\ Head(q) = q[1] /\ Head(q) \in S /\ 1 \in 1 .. Len(q)
           /\ DOMAIN q = 1 .. Len(q) /\ DOMAIN Tail(q) = 1 .. Len(q) - 1 /\ Len(q) \in Nat
           /\ \A i \in 1 .. Len(q) - 1 : Tail(q)[i] = q[i + 1] /\ i + 1 \in 1 .. Len(q)
           /\ \A i \in 1 .. Len(q) : i # 1 => i - 1 \in 1 .. Len(q) - 1 /\ Tail(q)[i - 1] = q[i]
<1>1. Len(q) \in Nat /\ Len(q) > 0 /\ Tail(q) \in Seq(S) /\ Len(Tail(q)) = Len(q) - 1
      /\ Head(q) = q[1] /\ DOMAIN q = 1 .. Len(q)
  OBVIOUS
<1>2. \A i \in 1 .. Len(q) - 1 : Tail(q)[i] = q[i + 1] /\ i + 1 \in 1 .. Len(q)
  BY <1>1
<1>3. q[1] \in S /\ 1 \in 1 .. Len(q)
  BY <1>1
<1>4. \A i \in 1 .. Len(q) : i # 1 => i - 1 \in 1 .. Len(q) - 1 /\ (i - 1) + 1 = i
  BY <1>1
<1> QED BY <1>1, <1>2, <1>3, <1>4

\* A peer that is heard of.
LEMMA BeaconIs ==
    ASSUME NEW U, NEW u \in U, NEW self, NEW D \in SUBSET U, self \notin D, NEW known \in [D -> 0 .. PEER_EXPIRY]
    PROVE  /\ u = self => Beacon(known, u, self) = known
           /\ u # self => /\ DOMAIN Beacon(known, u, self) = D \cup {u}
                          /\ Beacon(known, u, self)[u] = PEER_EXPIRY
                          /\ \A v \in D : v # u => Beacon(known, u, self)[v] = known[v]
                          /\ Beacon(known, u, self) \in [D \cup {u} -> 0 .. PEER_EXPIRY]
<1>1. PEER_EXPIRY \in 0 .. PEER_EXPIRY
  BY Times
<1>2. CASE u # self
  <2>1. Beacon(known, u, self) = [v \in D \cup {u} |-> IF v = u THEN PEER_EXPIRY ELSE known[v]]
    BY <1>2 DEF Beacon, Alert
  <2> QED BY <1>1, <1>2, <2>1
<1> QED BY <1>2 DEF Beacon

\* The peers that have time left stay.
LEMMA ReapIs ==
    ASSUME NEW D, NEW known \in [D -> 0 .. PEER_EXPIRY]
    PROVE  /\ DOMAIN Reap(known) = {v \in D : known[v] > 0}
           /\ \A v \in D : known[v] > 0 => Reap(known)[v] = known[v]
           /\ Reap(known) \in [{v \in D : known[v] > 0} -> 0 .. PEER_EXPIRY]
  BY DEF Reap

\* A UUID that some start of its node has had.
Given(u) == u \in UUID /\ u[2] <= uuid[u[1]][2]

BeaconRecord == [uuid : UUID, age : 0 .. MaxLate]

\* Every UUID names its node, and no start of a node has that of another; a node that is
\* down has died, knows nobody and has no socket.
Named ==
    /\ uuid \in [Node -> UUID] /\ up \subseteq Node /\ restarts \in 0 .. MaxRestarts
    /\ \A n \in Node : /\ uuid[n][1] = n
                       /\ uuid[n][2] <= restarts
                       /\ n \notin up => uuid[n][2] + 1 <= restarts

Filling ==
    /\ ping \in [Node -> -MaxLate .. PING_INTERVAL]
    /\ missed \in [Node -> [Node -> 0 .. MaxMissed]]
    /\ peers = [n \in Node |-> peers[n]]
    /\ socket \in [Node -> Seq(BeaconRecord)]
    /\ \A n \in Node :
         /\ peers[n] \in [DOMAIN peers[n] -> 0 .. PEER_EXPIRY]
         /\ \A u \in DOMAIN peers[n] : Given(u) /\ u # uuid[n]
         /\ \A i \in DOMAIN socket[n] : Given(socket[n][i].uuid)
         /\ n \notin up => peers[n] = NoPeers /\ socket[n] = <<>>

NodesTyped == Named /\ Filling

\* A UUID is its node and the number of its start.
LEMMA UUIDIs ==
    /\ \A n \in Node, k \in 0 .. MaxRestarts + 1 : /\ <<n, k>> \in UUID /\ <<n, k>>[1] = n
                                                   /\ <<n, k>>[2] = k
    /\ \A u \in UUID : u[1] \in Node /\ u[2] \in 0 .. MaxRestarts + 1 /\ u = <<u[1], u[2]>>
    /\ \A u \in UUID : [u EXCEPT ![2] = u[2] + 1] = <<u[1], u[2] + 1>>
    /\ \A u, v \in UUID : u[1] = v[1] /\ u[2] = v[2] => u = v
  BY DEF UUID

\* No node knows a peer at the start.
LEMMA TypedInit ==
    ASSUME DiscoveryInit PROVE NodesTyped
<1>1. uuid \in [Node -> UUID] /\ \A n \in Node : uuid[n][1] = n /\ uuid[n][2] = 0
  <2>1. 0 \in 0 .. MaxRestarts + 1
    BY Times
  <2> QED BY <2>1, UUIDIs DEF DiscoveryInit
<1>2. Named
  BY <1>1, Times DEF Named, DiscoveryInit
<1>3. ping \in [Node -> -MaxLate .. PING_INTERVAL] /\ missed \in [Node -> [Node -> 0 .. MaxMissed]]
  <2>1. 0 \in -MaxLate .. PING_INTERVAL /\ 0 \in 0 .. MaxMissed
    BY Times
  <2> QED BY <2>1 DEF DiscoveryInit
<1>4. \A n \in Node : peers[n] = NoPeers /\ socket[n] = <<>>
  BY DEF DiscoveryInit
<1>5. DOMAIN NoPeers = {} /\ NoPeers \in [{} -> 0 .. PEER_EXPIRY]
  BY DEF NoPeers
<1>6. <<>> \in Seq(BeaconRecord) /\ \A q : q = <<>> => DOMAIN q = {}
  OBVIOUS
<1>7. peers = [n \in Node |-> peers[n]] /\ socket \in [Node -> Seq(BeaconRecord)]
  BY <1>4, <1>6 DEF DiscoveryInit
<1>8. \A n \in Node :
         /\ peers[n] \in [DOMAIN peers[n] -> 0 .. PEER_EXPIRY]
         /\ \A u \in DOMAIN peers[n] : Given(u) /\ u # uuid[n]
         /\ \A i \in DOMAIN socket[n] : Given(socket[n][i].uuid)
  BY <1>4, <1>5, <1>6
<1>9. Filling
  BY <1>3, <1>4, <1>7, <1>8 DEF Filling
<1> QED BY <1>2, <1>9 DEF NodesTyped

\* What one tick makes of a socket.
LEMMA OlderIs ==
    ASSUME NEW q \in Seq(BeaconRecord)
    PROVE  /\ DOMAIN Older(q) = DOMAIN q
           /\ \A i \in DOMAIN q : Older(q)[i].uuid = q[i].uuid /\ Older(q)[i].age = q[i].age + 1
           /\ (\A i \in DOMAIN q : q[i].age < MaxLate) => Older(q) \in Seq(BeaconRecord)
           /\ q = <<>> => Older(q) = <<>>
<1>1. Len(q) \in Nat /\ DOMAIN q = 1 .. Len(q) /\ \A i \in DOMAIN q : q[i] \in BeaconRecord
  OBVIOUS
<1>2. Older(q) = [i \in 1 .. Len(q) |-> [q[i] EXCEPT !.age = q[i].age + 1]]
  BY <1>1 DEF Older
<1>3. \A b \in BeaconRecord : /\ [b EXCEPT !.age = b.age + 1].uuid = b.uuid
                              /\ [b EXCEPT !.age = b.age + 1].age = b.age + 1
                              /\ b.age < MaxLate => [b EXCEPT !.age = b.age + 1] \in BeaconRecord
  <2> SUFFICES ASSUME NEW b \in BeaconRecord
               PROVE  /\ [b EXCEPT !.age = b.age + 1].uuid = b.uuid
                      /\ [b EXCEPT !.age = b.age + 1].age = b.age + 1
                      /\ b.age < MaxLate => [b EXCEPT !.age = b.age + 1] \in BeaconRecord
    OBVIOUS
  <2>1. b.uuid \in UUID /\ b.age \in 0 .. MaxLate /\ b = [uuid |-> b.uuid, age |-> b.age]
    BY DEF BeaconRecord
  <2>2. [b EXCEPT !.age = b.age + 1] = [uuid |-> b.uuid, age |-> b.age + 1]
    BY <2>1
  <2>3. b.age < MaxLate => b.age + 1 \in 0 .. MaxLate
    <3>1. b.age \in 0 .. MaxLate
      BY <2>1
    <3>2. MaxLate \in Nat
      BY Times
    <3> QED BY <3>1, <3>2
  <2>4. b.age < MaxLate => [uuid |-> b.uuid, age |-> b.age + 1] \in BeaconRecord
    BY <2>1, <2>3 DEF BeaconRecord
  <2> QED BY <2>2, <2>4
<1>4. \A i \in DOMAIN q : Older(q)[i].uuid = q[i].uuid /\ Older(q)[i].age = q[i].age + 1
  BY <1>1, <1>2, <1>3
<1>5. ASSUME \A i \in DOMAIN q : q[i].age < MaxLate PROVE Older(q) \in Seq(BeaconRecord)
  <2>1. \A i \in 1 .. Len(q) : [q[i] EXCEPT !.age = q[i].age + 1] \in BeaconRecord
    BY <1>1, <1>3, <1>5
  <2> QED BY <1>1, <1>2, <2>1
<1>6. q = <<>> => Older(q) = <<>>
  <2> SUFFICES ASSUME q = <<>> PROVE Older(q) = <<>>
    OBVIOUS
  <2>1. Len(q) = 0 /\ 1 .. 0 = {}
    OBVIOUS
  <2>2. Older(q) = [i \in {} |-> [q[i] EXCEPT !.age = q[i].age + 1]]
    BY <1>2, <2>1
  <2> QED BY <2>2
<1> QED BY <1>1, <1>2, <1>4, <1>5, <1>6

\* A tick ages beacons and takes time from peers.
LEMMA TypedTick ==
    ASSUME NodesTyped, DiscoveryTick PROVE NodesTyped'
<1>1. UNCHANGED <<uuid, up, missed, restarts>>
  BY DEF DiscoveryTick
<1>2. Named'
  BY <1>1 DEF NodesTyped, Named
<1>3. ping' \in [Node -> -MaxLate .. PING_INTERVAL]
  <2>1. 0 \in -MaxLate .. PING_INTERVAL
    BY Times
  <2>2. \A n \in up : ping[n] - 1 \in -MaxLate .. PING_INTERVAL
    <3>1. \A n \in up : ping[n] \in -MaxLate .. PING_INTERVAL /\ ping[n] > -MaxLate
      BY DEF NodesTyped, Filling, Named, DiscoveryTick
    <3> QED BY <3>1, Times
  <2>3. ping' = [n \in Node |-> IF n \in up THEN ping[n] - 1 ELSE 0]
    BY DEF DiscoveryTick
  <2> QED BY <2>1, <2>2, <2>3
<1>4. /\ peers' = [n \in Node |-> peers'[n]]
      /\ \A n \in Node : /\ DOMAIN peers'[n] = DOMAIN peers[n]
                         /\ peers'[n] \in [DOMAIN peers'[n] -> 0 .. PEER_EXPIRY]
                         /\ peers[n] = NoPeers => peers'[n] = NoPeers
  <2>1. peers' = [n \in Node |-> [u \in DOMAIN peers[n] |->
                                   IF peers[n][u] = 0 THEN 0 ELSE peers[n][u] - 1]]
    BY DEF DiscoveryTick
  <2>2. \A n \in Node : peers'[n] = [u \in DOMAIN peers[n] |->
                                   IF peers[n][u] = 0 THEN 0 ELSE peers[n][u] - 1]
    BY <2>1
  <2>3. ASSUME NEW n \in Node
        PROVE  /\ DOMAIN peers'[n] = DOMAIN peers[n]
               /\ peers'[n] \in [DOMAIN peers'[n] -> 0 .. PEER_EXPIRY]
    <3>1. \A u \in DOMAIN peers[n] : peers[n][u] \in 0 .. PEER_EXPIRY
      BY DEF NodesTyped, Filling
    <3>2. \A k \in 0 .. PEER_EXPIRY : (IF k = 0 THEN 0 ELSE k - 1) \in 0 .. PEER_EXPIRY
      BY Times
    <3> QED BY <2>2, <3>1, <3>2
  <2>4. ASSUME NEW n \in Node, peers[n] = NoPeers PROVE peers'[n] = NoPeers
    <3>1. DOMAIN peers[n] = {}
      BY <2>4 DEF NoPeers
    <3>2. peers'[n] = [u \in {} |-> IF peers[n][u] = 0 THEN 0 ELSE peers[n][u] - 1]
      BY <2>2, <3>1
    <3> QED BY <3>2 DEF NoPeers
  <2>5. peers' = [n \in Node |-> peers'[n]]
    BY <2>1
  <2> QED BY <2>3, <2>4, <2>5
<1>5. /\ socket' \in [Node -> Seq(BeaconRecord)]
      /\ \A n \in Node : /\ DOMAIN socket'[n] = DOMAIN socket[n]
                         /\ \A i \in DOMAIN socket[n] : socket'[n][i].uuid = socket[n][i].uuid
                         /\ socket[n] = <<>> => socket'[n] = <<>>
  <2>1. socket' = [n \in Node |-> Older(socket[n])]
    BY DEF DiscoveryTick
  <2>2. \A n \in Node : socket[n] \in Seq(BeaconRecord)
    BY DEF NodesTyped, Filling
  <2>3. \A n \in Node : \A i \in DOMAIN socket[n] : socket[n][i].age < MaxLate
    <3> SUFFICES ASSUME NEW n \in Node, NEW i \in DOMAIN socket[n] PROVE socket[n][i].age < MaxLate
      OBVIOUS
    <3>1. CASE n \in up
      BY <3>1 DEF DiscoveryTick
    <3>2. CASE n \notin up
      <4>1. socket[n] = <<>>
        BY <3>2 DEF NodesTyped, Filling
      <4> QED BY <4>1
    <3> QED BY <3>1, <3>2
  <2>4. \A n \in Node : socket'[n] = Older(socket[n])
    BY <2>1
  <2>5. \A n \in Node : Older(socket[n]) \in Seq(BeaconRecord)
    BY <2>2, <2>3, OlderIs
  <2>6. socket' \in [Node -> Seq(BeaconRecord)]
    BY <2>1, <2>5
  <2> QED BY <2>2, <2>4, <2>6, OlderIs
<1>6. \A u : Given(u)' <=> Given(u)
  BY <1>1 DEF Given
<1>7. Filling'
  BY <1>1, <1>3, <1>4, <1>5, <1>6 DEF NodesTyped, Filling
<1> QED BY <1>2, <1>7 DEF NodesTyped

\* A node that dies forgets its peers and its socket.
LEMMA TypedDie ==
    ASSUME NodesTyped, NEW d \in Node, Die(d) PROVE NodesTyped'
<1>1. UNCHANGED <<uuid, missed>> /\ restarts' = restarts + 1 /\ restarts < MaxRestarts /\ up' = up \ {d}
  BY DEF Die
<1>2. /\ ping' = [ping EXCEPT ![d] = 0] /\ peers' = [peers EXCEPT ![d] = NoPeers]
      /\ socket' = [socket EXCEPT ![d] = <<>>]
  BY DEF Die
<1>3. restarts' \in 0 .. MaxRestarts
  BY <1>1, Times DEF NodesTyped, Named
<1>4. ASSUME NEW n \in Node
      PROVE  uuid[n][2] <= restarts' /\ (n \notin up' => uuid[n][2] + 1 <= restarts')
  <2>1. uuid[n][2] \in 0 .. MaxRestarts + 1 /\ uuid[n][2] <= restarts /\ restarts \in 0 .. MaxRestarts
        /\ (n \notin up => uuid[n][2] + 1 <= restarts)
    BY UUIDIs DEF NodesTyped, Named
  <2>2. n \notin up' => n \notin up \/ n = d
    BY <1>1
  <2> QED BY <1>1, <2>1, <2>2, Times
<1>5. Named'
  BY <1>1, <1>3, <1>4 DEF NodesTyped, Named
<1>6. \A u : Given(u)' <=> Given(u)
  BY <1>1 DEF Given
<1>7. DOMAIN NoPeers = {} /\ NoPeers \in [{} -> 0 .. PEER_EXPIRY]
  BY DEF NoPeers
<1>8. \A n \in Node : IF n = d THEN peers'[n] = NoPeers /\ socket'[n] = <<>>
                      ELSE peers'[n] = peers[n] /\ socket'[n] = socket[n]
  BY <1>2 DEF NodesTyped, Filling
<1>9. <<>> \in Seq(BeaconRecord) /\ \A q : q = <<>> => DOMAIN q = {}
  OBVIOUS
<1>10. peers' = [n \in Node |-> peers'[n]] /\ socket' \in [Node -> Seq(BeaconRecord)]
       /\ ping' \in [Node -> -MaxLate .. PING_INTERVAL]
  <2>1. 0 \in -MaxLate .. PING_INTERVAL
    BY Times
  <2>2. socket' \in [Node -> Seq(BeaconRecord)]
    BY <1>2, <1>9 DEF NodesTyped, Filling
  <2>3. peers' = [n \in Node |-> peers'[n]]
    <3>1. DOMAIN peers = Node
      BY DEF NodesTyped, Filling
    <3> QED BY <1>2, <3>1
  <2> QED BY <1>2, <2>1, <2>2, <2>3 DEF NodesTyped, Filling
<1>11. ASSUME NEW n \in Node
       PROVE  /\ peers'[n] \in [DOMAIN peers'[n] -> 0 .. PEER_EXPIRY]
              /\ \A u \in DOMAIN peers'[n] : Given(u) /\ u # uuid[n]
              /\ \A i \in DOMAIN socket'[n] : Given(socket'[n][i].uuid)
              /\ n \notin up' => peers'[n] = NoPeers /\ socket'[n] = <<>>
  <2>1. CASE n = d
    BY <1>7, <1>8, <1>9, <2>1
  <2>2. CASE n # d
    <3>1. peers'[n] = peers[n] /\ socket'[n] = socket[n] /\ (n \notin up' => n \notin up)
      BY <1>1, <1>8, <2>2
    <3> QED BY <3>1 DEF NodesTyped, Filling
  <2> QED BY <2>1, <2>2
<1>12. Filling'
  <2>1. missed' \in [Node -> [Node -> 0 .. MaxMissed]]
    BY <1>1 DEF NodesTyped, Filling
  <2> QED BY <1>1, <1>6, <1>10, <1>11, <2>1 DEF Filling
<1> QED BY <1>5, <1>12 DEF NodesTyped

\* A node comes back under a UUID that nobody knows.
LEMMA RestartIs ==
    ASSUME NodesTyped, NEW r \in Node, Restart(r)
    PROVE  /\ uuid' \in [Node -> UUID] /\ up' = up \cup {r} /\ r \notin up
           /\ UNCHANGED <<ping, peers, socket, restarts>>
           /\ uuid'[r] = <<r, uuid[r][2] + 1>> /\ uuid'[r][1] = r /\ uuid'[r][2] = uuid[r][2] + 1
           /\ \A n \in Node : n # r => uuid'[n] = uuid[n]
           /\ missed' \in [Node -> [Node -> 0 .. MaxMissed]]
           /\ \A m, n \in Node : missed'[m][n] = IF n = r THEN 0 ELSE missed[m][n]
           /\ \A u : Given(u) => Given(u)' /\ u # uuid'[r]
<1>1. up' = up \cup {r} /\ r \notin up /\ UNCHANGED <<ping, peers, socket, restarts>>
  BY DEF Restart
<1>2. uuid[r] \in UUID /\ uuid[r][1] = r /\ uuid[r][2] \in Nat /\ uuid[r][2] + 1 <= restarts
      /\ restarts \in 0 .. MaxRestarts
  BY <1>1, UUIDIs DEF NodesTyped, Named
<1>3. uuid' = [uuid EXCEPT ![r] = [uuid[r] EXCEPT ![2] = uuid[r][2] + 1]]
  BY DEF Restart
<1>4. uuid[r][2] + 1 \in 0 .. MaxRestarts + 1
  BY <1>2, Times
<1>5. [uuid[r] EXCEPT ![2] = uuid[r][2] + 1] = <<r, uuid[r][2] + 1>>
  BY <1>2, UUIDIs
<1>6. uuid'[r] = <<r, uuid[r][2] + 1>> /\ \A n \in Node : n # r => uuid'[n] = uuid[n]
  BY <1>3, <1>5 DEF NodesTyped, Named
<1>7. <<r, uuid[r][2] + 1>> \in UUID /\ uuid'[r][1] = r /\ uuid'[r][2] = uuid[r][2] + 1
  BY <1>4, <1>6, UUIDIs
<1>8. uuid' \in [Node -> UUID]
  BY <1>3, <1>5, <1>7 DEF NodesTyped, Named
<1>9. missed' = [m \in Node |-> [missed[m] EXCEPT ![r] = 0]] /\ 0 \in 0 .. MaxMissed
  BY Times DEF Restart
<1>10. /\ missed' \in [Node -> [Node -> 0 .. MaxMissed]]
       /\ \A m, n \in Node : missed'[m][n] = IF n = r THEN 0 ELSE missed[m][n]
  BY <1>9 DEF NodesTyped, Filling
<1>11. ASSUME NEW u, Given(u) PROVE Given(u)' /\ u # uuid'[r]
  <2>1. u \in UUID /\ u[1] \in Node /\ u[2] \in Nat /\ u[2] <= uuid[u[1]][2]
    BY <1>11, UUIDIs DEF Given
  <2>2. CASE u[1] = r
    <3>1. u[2] <= uuid[r][2] /\ u[2] <= uuid'[r][2] /\ u[2] # uuid'[r][2]
      BY <1>2, <1>7, <2>1, <2>2
    <3>2. u # uuid'[r]
      BY <3>1
    <3> QED BY <2>1, <2>2, <3>1, <3>2 DEF Given
  <2>3. CASE u[1] # r
    BY <1>6, <1>7, <2>1, <2>3 DEF Given
  <2> QED BY <2>2, <2>3
<1> QED BY <1>1, <1>6, <1>7, <1>8, <1>10, <1>11

\* A node that starts again has a new UUID.
LEMMA TypedRestart ==
    ASSUME NodesTyped, NEW r \in Node, Restart(r) PROVE NodesTyped'
<1>1. /\ uuid' \in [Node -> UUID] /\ up' = up \cup {r} /\ r \notin up
      /\ UNCHANGED <<ping, peers, socket, restarts>>
      /\ uuid'[r][1] = r /\ uuid'[r][2] = uuid[r][2] + 1
      /\ \A n \in Node : n # r => uuid'[n] = uuid[n]
      /\ missed' \in [Node -> [Node -> 0 .. MaxMissed]]
      /\ \A u : Given(u) => Given(u)' /\ u # uuid'[r]
  BY RestartIs
<1>2. Named'
  <2>1. \A n \in Node : /\ uuid'[n][1] = n /\ uuid'[n][2] <= restarts
                        /\ n \notin up' => uuid'[n][2] + 1 <= restarts
    <3> SUFFICES ASSUME NEW n \in Node
                 PROVE  /\ uuid'[n][1] = n /\ uuid'[n][2] <= restarts
                        /\ n \notin up' => uuid'[n][2] + 1 <= restarts
      OBVIOUS
    <3>1. CASE n = r
      BY <1>1, <3>1 DEF NodesTyped, Named
    <3>2. CASE n # r
      BY <1>1, <3>2 DEF NodesTyped, Named
    <3> QED BY <3>1, <3>2
  <2>2. up' \subseteq Node /\ restarts' \in 0 .. MaxRestarts /\ restarts' = restarts
    BY <1>1 DEF NodesTyped, Named
  <2> QED BY <1>1, <2>1, <2>2 DEF Named
<1>3. ASSUME NEW n \in Node
      PROVE  /\ \A u \in DOMAIN peers[n] : Given(u)' /\ u # uuid'[n]
             /\ \A i \in DOMAIN socket[n] : Given(socket[n][i].uuid)'
             /\ n \notin up' => peers[n] = NoPeers /\ socket[n] = <<>>
  <2>1. \A u \in DOMAIN peers[n] : Given(u) /\ u # uuid[n]
    BY DEF NodesTyped, Filling
  <2>2. \A i \in DOMAIN socket[n] : Given(socket[n][i].uuid)
    BY DEF NodesTyped, Filling
  <2>3. n \notin up' => peers[n] = NoPeers /\ socket[n] = <<>>
    BY <1>1 DEF NodesTyped, Filling
  <2> QED BY <1>1, <2>1, <2>2, <2>3
<1>4. Filling'
  <2>1. /\ ping' \in [Node -> -MaxLate .. PING_INTERVAL]
        /\ peers' = [n \in Node |-> peers'[n]]
        /\ socket' \in [Node -> Seq(BeaconRecord)]
        /\ \A n \in Node : peers'[n] \in [DOMAIN peers'[n] -> 0 .. PEER_EXPIRY]
    BY <1>1 DEF NodesTyped, Filling
  <2>2. peers' = peers /\ socket' = socket
    BY <1>1
  <2>3. \A n \in Node :
         /\ \A u \in DOMAIN peers'[n] : Given(u)' /\ u # uuid'[n]
         /\ \A i \in DOMAIN socket'[n] : Given(socket[n][i].uuid)'
         /\ n \notin up' => peers'[n] = NoPeers /\ socket'[n] = <<>>
    BY <1>3, <2>2
  <2> QED BY <1>1, <2>1, <2>3 DEF Filling
<1> QED BY <1>2, <1>4 DEF NodesTyped

\* What a node reads, if anything, and what its sockets hold then.
HasMail(n) == socket[n] # <<>>
MailLeft(n) == IF HasMail(n) THEN [socket EXCEPT ![n] = Tail(socket[n])] ELSE socket

\* A turn keeps the peers that have time left, and the one it has heard has all of it.
LEMMA TurnPeers ==
    ASSUME NodesTyped, NEW n \in Node, AgentTurn(n)
    PROVE  /\ n \in up /\ UNCHANGED <<uuid, up, restarts>>
           /\ peers' = [m \in Node |-> peers'[m]]
           /\ \A m \in Node : m # n => peers'[m] = peers[m]
           /\ peers'[n] \in [DOMAIN peers'[n] -> 0 .. PEER_EXPIRY]
           /\ \A u \in DOMAIN peers[n] : peers[n][u] > 0 => u \in DOMAIN peers'[n]
           /\ \A u \in DOMAIN peers'[n] :
                \/ /\ u \in DOMAIN peers[n] /\ peers'[n][u] = peers[n][u]
                   /\ HasMail(n) => Head(socket[n]).uuid # u
                \/ /\ HasMail(n) /\ u = Head(socket[n]).uuid /\ u # uuid[n]
                   /\ peers'[n][u] = PEER_EXPIRY
<1> DEFINE D == DOMAIN peers[n]
           b == Head(socket[n]).uuid
           known == IF HasMail(n) THEN Beacon(peers[n], b, uuid[n]) ELSE peers[n]
<1>1. n \in up /\ UNCHANGED <<uuid, up, restarts>> /\ peers' = [peers EXCEPT ![n] = Reap(known)]
  BY DEF AgentTurn, HasMail
<1>2. peers = [m \in Node |-> peers[m]] /\ peers[n] \in [D -> 0 .. PEER_EXPIRY]
      /\ D \in SUBSET UUID /\ uuid[n] \notin D
  BY DEF NodesTyped, Filling, Given
<1>3. peers' = [m \in Node |-> peers'[m]] /\ (\A m \in Node : m # n => peers'[m] = peers[m])
      /\ peers'[n] = Reap(known)
  <2>1. DOMAIN peers = Node
    BY <1>2
  <2> QED BY <1>1, <2>1
<1>4. HasMail(n) => b \in UUID
  <2> SUFFICES ASSUME HasMail(n) PROVE b \in UUID
    OBVIOUS
  <2>1. socket[n] \in Seq(BeaconRecord) /\ socket[n] # <<>>
    BY DEF NodesTyped, Filling, HasMail
  <2>2. Head(socket[n]) \in BeaconRecord
    BY <2>1, Tailed
  <2> QED BY <2>2 DEF BeaconRecord
<1>5. PEER_EXPIRY > 0
  BY Times
<1>6. CASE HasMail(n) /\ b # uuid[n]
  <2>1. /\ DOMAIN known = D \cup {b} /\ known[b] = PEER_EXPIRY
        /\ \A v \in D : v # b => known[v] = peers[n][v]
        /\ known \in [D \cup {b} -> 0 .. PEER_EXPIRY]
    <3>1. known = Beacon(peers[n], b, uuid[n]) /\ b \in UUID /\ b # uuid[n]
      BY <1>4, <1>6
    <3> HIDE DEF known, b, D
    <3>2. /\ DOMAIN Beacon(peers[n], b, uuid[n]) = D \cup {b}
          /\ Beacon(peers[n], b, uuid[n])[b] = PEER_EXPIRY
          /\ \A v \in D : v # b => Beacon(peers[n], b, uuid[n])[v] = peers[n][v]
          /\ Beacon(peers[n], b, uuid[n]) \in [D \cup {b} -> 0 .. PEER_EXPIRY]
      BY <1>2, <3>1, BeaconIs
    <3> QED BY <3>1, <3>2
  <2>2. /\ DOMAIN Reap(known) = {v \in D \cup {b} : known[v] > 0}
        /\ \A v \in D \cup {b} : known[v] > 0 => Reap(known)[v] = known[v]
        /\ Reap(known) \in [{v \in D \cup {b} : known[v] > 0} -> 0 .. PEER_EXPIRY]
    <3> HIDE DEF known, b, D
    <3> QED BY <2>1, ReapIs
  <2>3. \A u \in D : peers[n][u] > 0 => u \in DOMAIN Reap(known)
    BY <1>5, <2>1, <2>2
  <2>4. \A u \in DOMAIN Reap(known) :
                \/ u \in D /\ Reap(known)[u] = peers[n][u] /\ b # u
                \/ u = b /\ Reap(known)[u] = PEER_EXPIRY
    BY <2>1, <2>2
  <2>5. Reap(known) \in [DOMAIN Reap(known) -> 0 .. PEER_EXPIRY]
    BY <2>2
  <2> HIDE DEF known, b, D
  <2>6. peers'[n] \in [DOMAIN peers'[n] -> 0 .. PEER_EXPIRY]
    BY <1>3, <2>5
  <2>7. /\ \A u \in D : peers[n][u] > 0 => u \in DOMAIN peers'[n]
        /\ \A u \in DOMAIN peers'[n] :
                \/ u \in D /\ peers'[n][u] = peers[n][u] /\ b # u
                \/ u = b /\ peers'[n][u] = PEER_EXPIRY
    BY <1>3, <2>3, <2>4
  <2> QED BY <1>1, <1>3, <1>6, <2>6, <2>7 DEF D, b
<1>7. CASE ~ (HasMail(n) /\ b # uuid[n])
  <2>1. known = peers[n]
    BY <1>7 DEF Beacon
  <2>2. HasMail(n) => b \notin D
    BY <1>2, <1>7
  <2>3. /\ DOMAIN Reap(peers[n]) = {v \in D : peers[n][v] > 0}
        /\ \A v \in D : peers[n][v] > 0 => Reap(peers[n])[v] = peers[n][v]
        /\ Reap(peers[n]) \in [{v \in D : peers[n][v] > 0} -> 0 .. PEER_EXPIRY]
    BY <1>2, ReapIs
  <2> HIDE DEF known, b, D
  <2>4. peers'[n] = Reap(peers[n])
    BY <1>3, <2>1
  <2>5. peers'[n] \in [DOMAIN peers'[n] -> 0 .. PEER_EXPIRY]
    BY <2>3, <2>4
  <2>6. /\ \A u \in D : peers[n][u] > 0 => u \in DOMAIN peers'[n]
        /\ \A u \in DOMAIN peers'[n] : u \in D /\ peers'[n][u] = peers[n][u] /\ (HasMail(n) => b # u)
    BY <2>2, <2>3, <2>4
  <2> QED BY <1>1, <1>3, <2>5, <2>6 DEF D, b
<1> QED BY <1>6, <1>7

\* The sockets without the beacon that is read.
LEMMA RestIs ==
    ASSUME NodesTyped, NEW n \in Node
    PROVE  /\ MailLeft(n) \in [Node -> Seq(BeaconRecord)]
           /\ \A m \in Node : m # n => MailLeft(n)[m] = socket[m]
           /\ \A m \in Node : \A i \in DOMAIN MailLeft(n)[m] :
                \E j \in DOMAIN socket[m] : MailLeft(n)[m][i] = socket[m][j]
           /\ \A m \in Node : \A i \in DOMAIN socket[m] :
                \/ m = n /\ HasMail(n) /\ socket[m][i] = Head(socket[n])
                \/ \E j \in DOMAIN MailLeft(n)[m] : MailLeft(n)[m][j] = socket[m][i]
<1>1. socket \in [Node -> Seq(BeaconRecord)]
  BY DEF NodesTyped, Filling
<1>2. CASE HasMail(n)
  <2>1. MailLeft(n) = [socket EXCEPT ![n] = Tail(socket[n])]
    BY <1>2 DEF MailLeft
  <2>2. socket[n] \in Seq(BeaconRecord) /\ socket[n] # <<>>
    BY <1>1, <1>2 DEF HasMail
  <2>3. Tail(socket[n]) \in Seq(BeaconRecord)
    BY <2>2, Tailed
  <2>4. /\ MailLeft(n) \in [Node -> Seq(BeaconRecord)] /\ MailLeft(n)[n] = Tail(socket[n])
        /\ \A m \in Node : m # n => MailLeft(n)[m] = socket[m]
    BY <1>1, <2>1, <2>3
  <2>5. /\ DOMAIN socket[n] = 1 .. Len(socket[n]) /\ DOMAIN Tail(socket[n]) = 1 .. Len(socket[n]) - 1
        /\ Head(socket[n]) = socket[n][1]
        /\ \A i \in 1 .. Len(socket[n]) - 1 :
             Tail(socket[n])[i] = socket[n][i + 1] /\ i + 1 \in 1 .. Len(socket[n])
        /\ \A i \in 1 .. Len(socket[n]) : i # 1 =>
             i - 1 \in 1 .. Len(socket[n]) - 1 /\ Tail(socket[n])[i - 1] = socket[n][i]
    BY <2>2, Tailed
  <2>6. \A i \in DOMAIN MailLeft(n)[n] : \E j \in DOMAIN socket[n] : MailLeft(n)[n][i] = socket[n][j]
    BY <2>4, <2>5
  <2>7. \A i \in DOMAIN socket[n] : \/ socket[n][i] = Head(socket[n])
                                    \/ \E j \in DOMAIN MailLeft(n)[n] : MailLeft(n)[n][j] = socket[n][i]
    BY <2>4, <2>5
  <2>8. \A m \in Node : m # n =>
          /\ \A i \in DOMAIN MailLeft(n)[m] : \E j \in DOMAIN socket[m] : MailLeft(n)[m][i] = socket[m][j]
          /\ \A i \in DOMAIN socket[m] : \E j \in DOMAIN MailLeft(n)[m] : MailLeft(n)[m][j] = socket[m][i]
    BY <2>4
  <2>9. \A m \in Node : \A i \in DOMAIN MailLeft(n)[m] :
          \E j \in DOMAIN socket[m] : MailLeft(n)[m][i] = socket[m][j]
    BY <2>6, <2>8
  <2>10. \A m \in Node : \A i \in DOMAIN socket[m] :
                \/ m = n /\ HasMail(n) /\ socket[m][i] = Head(socket[n])
                \/ \E j \in DOMAIN MailLeft(n)[m] : MailLeft(n)[m][j] = socket[m][i]
    <3> SUFFICES ASSUME NEW m \in Node, NEW i \in DOMAIN socket[m]
                 PROVE  \/ m = n /\ HasMail(n) /\ socket[m][i] = Head(socket[n])
                        \/ \E j \in DOMAIN MailLeft(n)[m] : MailLeft(n)[m][j] = socket[m][i]
      OBVIOUS
    <3>1. CASE m = n
      BY <1>2, <2>7, <3>1
    <3>2. CASE m # n
      BY <2>8, <3>2
    <3> QED BY <3>1, <3>2
  <2> QED BY <2>4, <2>9, <2>10
<1>3. CASE ~ HasMail(n)
  <2>1. MailLeft(n) = socket
    BY <1>3 DEF MailLeft
  <2> QED BY <1>1, <2>1
<1> QED BY <1>2, <1>3

\* A turn sends a beacon when it is due: each node that runs gets it or misses one more.
LEMMA TurnSends ==
    ASSUME NodesTyped, NEW n \in Node, AgentTurn(n)
    PROVE  /\ socket' \in [Node -> Seq(BeaconRecord)]
           /\ missed' \in [Node -> [Node -> 0 .. MaxMissed]]
           /\ ping' \in [Node -> -MaxLate .. PING_INTERVAL]
           /\ \A m \in Node : \A i \in DOMAIN socket'[m] :
                \/ \E j \in DOMAIN socket[m] : socket'[m][i] = socket[m][j]
                \/ socket'[m][i].uuid = uuid[n]
           /\ \A m \in Node : \A i \in DOMAIN socket[m] :
                \/ m = n /\ HasMail(n) /\ socket[m][i] = Head(socket[n])
                \/ \E j \in DOMAIN socket'[m] : socket'[m][j] = socket[m][i]
           /\ \A m \in Node : m \notin up => socket'[m] = socket[m]
           /\ \A m, k \in Node : k # n => missed'[m][k] = missed[m][k] /\ ping'[k] = ping[k]
           /\ \A m \in up : m # n =>
                \/ ping'[n] = ping[n] /\ missed'[m][n] = missed[m][n]
                \/ ping[n] <= 0 /\ \E j \in DOMAIN socket'[m] : socket'[m][j] = [uuid |-> uuid[n], age |-> 0]
                \/ /\ ping[n] <= 0 /\ ping'[n] = PING_INTERVAL
                   /\ missed[m][n] < MaxMissed /\ missed'[m][n] = missed[m][n] + 1
<1>1. n \in up /\ \/ /\ ping[n] <= 0
                     /\ ping' = [ping EXCEPT ![n] = PING_INTERVAL]
                     /\ Broadcast(n, MailLeft(n))
                  \/ socket' = MailLeft(n) /\ UNCHANGED <<ping, missed>>
  BY DEF AgentTurn, MailLeft, HasMail
<1>2. /\ ping \in [Node -> -MaxLate .. PING_INTERVAL]
      /\ missed \in [Node -> [Node -> 0 .. MaxMissed]]
      /\ uuid \in [Node -> UUID] /\ up \subseteq Node
  BY DEF NodesTyped, Filling, Named
<1>3. /\ MailLeft(n) \in [Node -> Seq(BeaconRecord)]
      /\ \A m \in Node : m \notin up => MailLeft(n)[m] = socket[m]
      /\ \A m \in Node : \A i \in DOMAIN MailLeft(n)[m] :
           \E j \in DOMAIN socket[m] : MailLeft(n)[m][i] = socket[m][j]
      /\ \A m \in Node : \A i \in DOMAIN socket[m] :
           \/ m = n /\ HasMail(n) /\ socket[m][i] = Head(socket[n])
           \/ \E j \in DOMAIN MailLeft(n)[m] : MailLeft(n)[m][j] = socket[m][i]
  BY <1>1, RestIs
<1>4. CASE socket' = MailLeft(n) /\ UNCHANGED <<ping, missed>>
  BY <1>2, <1>3, <1>4
<1>5. CASE ping[n] <= 0 /\ ping' = [ping EXCEPT ![n] = PING_INTERVAL] /\ Broadcast(n, MailLeft(n))
  <2> DEFINE beacon == [uuid |-> uuid[n], age |-> 0]
  <2>1. PICK miss \in SUBSET (up \ {n}) :
          /\ \A m \in miss : missed[m][n] < MaxMissed
          /\ missed' = [m \in Node |-> [missed[m] EXCEPT ![n] =
                           IF m \in miss THEN @ + 1 ELSE IF m \in up THEN 0 ELSE @]]
          /\ socket' = [m \in Node |-> IF m \in up \ miss THEN Append(MailLeft(n)[m], beacon) ELSE MailLeft(n)[m]]
    BY <1>5 DEF Broadcast
  <2>2. beacon \in BeaconRecord /\ beacon.uuid = uuid[n] /\ PING_INTERVAL \in -MaxLate .. PING_INTERVAL
        /\ 0 \in 0 .. MaxMissed
    <3>1. 0 \in 0 .. MaxLate /\ 0 \in 0 .. MaxMissed /\ PING_INTERVAL \in -MaxLate .. PING_INTERVAL
      BY Times
    <3> QED BY <1>2, <3>1 DEF BeaconRecord
  <2> HIDE DEF beacon
  <2>3. \A m \in Node : IF m \in up \ miss THEN socket'[m] = Append(MailLeft(n)[m], beacon)
                                           ELSE socket'[m] = MailLeft(n)[m]
    BY <2>1
  <2>4. ASSUME NEW m \in Node
        PROVE  /\ socket'[m] \in Seq(BeaconRecord)
               /\ \A i \in DOMAIN MailLeft(n)[m] : i \in DOMAIN socket'[m] /\ socket'[m][i] = MailLeft(n)[m][i]
               /\ \A i \in DOMAIN socket'[m] : \/ i \in DOMAIN MailLeft(n)[m] /\ socket'[m][i] = MailLeft(n)[m][i]
                                               \/ socket'[m][i] = beacon
               /\ m \in up \ miss => \E j \in DOMAIN socket'[m] : socket'[m][j] = beacon
    <3>1. MailLeft(n)[m] \in Seq(BeaconRecord)
      BY <1>3
    <3>2. CASE m \in up \ miss
      <4>1. socket'[m] = Append(MailLeft(n)[m], beacon)
        BY <2>3, <3>2
      <4> QED BY <2>2, <3>1, <4>1, Appended
    <3>3. CASE m \notin up \ miss
      BY <2>3, <3>1, <3>3
    <3> QED BY <3>2, <3>3
  <2>5. socket' \in [Node -> Seq(BeaconRecord)]
    <3>1. socket' = [m \in Node |-> socket'[m]]
      BY <2>1
    <3> QED BY <2>4, <3>1
  <2>6. /\ missed' \in [Node -> [Node -> 0 .. MaxMissed]]
        /\ \A m, k \in Node : k # n => missed'[m][k] = missed[m][k]
        /\ \A m \in miss : missed'[m][n] = missed[m][n] + 1
    <3>1. \A m \in Node : missed[m] \in [Node -> 0 .. MaxMissed]
      BY <1>2
    <3>2. \A m \in miss : m \in Node /\ missed[m][n] + 1 \in 0 .. MaxMissed
      <4>1. \A m \in miss : m \in Node /\ missed[m][n] \in 0 .. MaxMissed /\ missed[m][n] < MaxMissed
        BY <1>2, <2>1
      <4> QED BY <4>1, Times
    <3>3. \A m \in Node : missed'[m] =
             [missed[m] EXCEPT ![n] = IF m \in miss THEN missed[m][n] + 1
                                      ELSE IF m \in up THEN 0 ELSE missed[m][n]]
      BY <2>1
    <3>4. \A m \in Node : missed'[m] \in [Node -> 0 .. MaxMissed]
      <4> SUFFICES ASSUME NEW m \in Node PROVE missed'[m] \in [Node -> 0 .. MaxMissed]
        OBVIOUS
      <4> DEFINE x == IF m \in miss THEN missed[m][n] + 1
                      ELSE IF m \in up THEN 0 ELSE missed[m][n]
      <4>1. x \in 0 .. MaxMissed
        BY <2>2, <3>1, <3>2
      <4>2. missed'[m] = [missed[m] EXCEPT ![n] = x]
        BY <3>3
      <4> HIDE DEF x
      <4> QED BY <3>1, <4>1, <4>2
    <3>5. missed' = [m \in Node |-> missed'[m]]
      BY <2>1
    <3>6. missed' \in [Node -> [Node -> 0 .. MaxMissed]]
      BY <3>4, <3>5
    <3>7. \A m, k \in Node : k # n => missed'[m][k] = missed[m][k]
      <4> SUFFICES ASSUME NEW m \in Node, NEW k \in Node, k # n PROVE missed'[m][k] = missed[m][k]
        OBVIOUS
      <4>1. PICK x : missed'[m] = [missed[m] EXCEPT ![n] = x]
        BY <3>3
      <4> QED BY <3>1, <4>1
    <3>8. \A m \in miss : missed'[m][n] = missed[m][n] + 1
      BY <3>1, <3>2, <3>3, ZenonT(60)
    <3> QED BY <3>6, <3>7, <3>8
  <2>7. /\ ping' \in [Node -> -MaxLate .. PING_INTERVAL] /\ ping'[n] = PING_INTERVAL
        /\ \A k \in Node : k # n => ping'[k] = ping[k]
    BY <1>2, <1>5, <2>2
  <2>8. \A m \in Node : \A i \in DOMAIN socket'[m] :
                \/ \E j \in DOMAIN socket[m] : socket'[m][i] = socket[m][j]
                \/ socket'[m][i].uuid = uuid[n]
    <3> SUFFICES ASSUME NEW m \in Node, NEW i \in DOMAIN socket'[m], socket'[m][i] # beacon
                 PROVE  \E j \in DOMAIN socket[m] : socket'[m][i] = socket[m][j]
      BY <2>2
    <3>1. i \in DOMAIN MailLeft(n)[m] /\ socket'[m][i] = MailLeft(n)[m][i]
      BY <2>4
    <3>2. PICK j \in DOMAIN socket[m] : MailLeft(n)[m][i] = socket[m][j]
      BY <1>3, <3>1
    <3> QED BY <3>1, <3>2
  <2>9. \A m \in Node : \A i \in DOMAIN socket[m] :
                \/ m = n /\ HasMail(n) /\ socket[m][i] = Head(socket[n])
                \/ \E j \in DOMAIN socket'[m] : socket'[m][j] = socket[m][i]
    <3> SUFFICES ASSUME NEW m \in Node, NEW i \in DOMAIN socket[m],
                        ~ (m = n /\ HasMail(n) /\ socket[m][i] = Head(socket[n]))
                 PROVE  \E j \in DOMAIN socket'[m] : socket'[m][j] = socket[m][i]
      OBVIOUS
    <3>1. PICK j \in DOMAIN MailLeft(n)[m] : MailLeft(n)[m][j] = socket[m][i]
      BY <1>3
    <3>2. j \in DOMAIN socket'[m] /\ socket'[m][j] = MailLeft(n)[m][j]
      BY <2>4, <3>1
    <3> QED BY <3>1, <3>2
  <2>10. \A m \in Node : m \notin up => socket'[m] = socket[m]
    BY <1>3, <2>3
  <2>11. \A m \in up : m # n =>
                \/ ping[n] <= 0 /\ \E j \in DOMAIN socket'[m] : socket'[m][j] = beacon
                \/ /\ ping[n] <= 0 /\ ping'[n] = PING_INTERVAL
                   /\ missed[m][n] < MaxMissed /\ missed'[m][n] = missed[m][n] + 1
    BY <1>2, <1>5, <2>1, <2>4, <2>6, <2>7
  <2> QED BY <2>5, <2>6, <2>7, <2>8, <2>9, <2>10, <2>11 DEF beacon
<1> QED BY <1>1, <1>4, <1>5

\* A turn of the agent reads a beacon, sends one when it is due, and reaps.
LEMMA TypedTurn ==
    ASSUME NodesTyped, NEW n \in Node, AgentTurn(n) PROVE NodesTyped'
<1>1. /\ n \in up /\ UNCHANGED <<uuid, up, restarts>>
      /\ peers' = [m \in Node |-> peers'[m]]
      /\ \A m \in Node : m # n => peers'[m] = peers[m]
      /\ peers'[n] \in [DOMAIN peers'[n] -> 0 .. PEER_EXPIRY]
      /\ \A u \in DOMAIN peers'[n] :
           \/ u \in DOMAIN peers[n]
           \/ HasMail(n) /\ u = Head(socket[n]).uuid /\ u # uuid[n]
  BY TurnPeers
<1>2. /\ socket' \in [Node -> Seq(BeaconRecord)]
      /\ missed' \in [Node -> [Node -> 0 .. MaxMissed]]
      /\ ping' \in [Node -> -MaxLate .. PING_INTERVAL]
      /\ \A m \in Node : \A i \in DOMAIN socket'[m] :
           \/ \E j \in DOMAIN socket[m] : socket'[m][i] = socket[m][j]
           \/ socket'[m][i].uuid = uuid[n]
      /\ \A m \in Node : m \notin up => socket'[m] = socket[m]
  BY TurnSends
<1>3. Named'
  BY <1>1 DEF NodesTyped, Named
<1>4. \A u : Given(u)' <=> Given(u)
  BY <1>1 DEF Given
<1>5. Given(uuid[n])
  <2>1. uuid[n] \in UUID /\ uuid[n][1] = n /\ uuid[n][2] \in 0 .. MaxRestarts + 1
    BY UUIDIs DEF NodesTyped, Named
  <2>2. uuid[n][2] <= uuid[n][2]
    BY <2>1, Times
  <2> QED BY <2>1, <2>2 DEF Given
<1>6. HasMail(n) => Given(Head(socket[n]).uuid)
  <2> SUFFICES ASSUME HasMail(n) PROVE Given(Head(socket[n]).uuid)
    OBVIOUS
  <2>1. socket[n] \in Seq(BeaconRecord) /\ socket[n] # <<>>
    BY DEF NodesTyped, Filling, HasMail
  <2>2. Head(socket[n]) = socket[n][1] /\ 1 \in DOMAIN socket[n]
    BY <2>1, Tailed
  <2> QED BY <2>2 DEF NodesTyped, Filling
<1>7. ASSUME NEW m \in Node
      PROVE  /\ peers'[m] \in [DOMAIN peers'[m] -> 0 .. PEER_EXPIRY]
             /\ \A u \in DOMAIN peers'[m] : Given(u) /\ u # uuid[m]
             /\ \A i \in DOMAIN socket'[m] : Given(socket'[m][i].uuid)
             /\ m \notin up' => peers'[m] = NoPeers /\ socket'[m] = <<>>
  <2>1. /\ peers[m] \in [DOMAIN peers[m] -> 0 .. PEER_EXPIRY]
        /\ \A u \in DOMAIN peers[m] : Given(u) /\ u # uuid[m]
        /\ \A i \in DOMAIN socket[m] : Given(socket[m][i].uuid)
        /\ m \notin up => peers[m] = NoPeers /\ socket[m] = <<>>
    BY DEF NodesTyped, Filling
  <2>2. \A i \in DOMAIN socket'[m] : Given(socket'[m][i].uuid)
    BY <1>2, <1>5, <2>1
  <2>3. m \notin up' => m # n /\ m \notin up
    BY <1>1
  <2>4. /\ peers'[m] \in [DOMAIN peers'[m] -> 0 .. PEER_EXPIRY]
        /\ \A u \in DOMAIN peers'[m] : Given(u) /\ u # uuid[m]
    <3>1. CASE m = n
      BY <1>1, <1>6, <2>1, <3>1
    <3>2. CASE m # n
      BY <1>1, <2>1, <3>2
    <3> QED BY <3>1, <3>2
  <2> QED BY <1>1, <1>2, <2>1, <2>2, <2>3, <2>4
<1>8. Filling'
  BY <1>1, <1>2, <1>4, <1>7 DEF Filling
<1> QED BY <1>3, <1>8 DEF NodesTyped

\* The time that m has left at n covers the wait for its next beacon: one of the
\* beacons in the socket tells so, or else the ones that n has missed and m's own clock.
Covered(n, m) ==
    LET left == peers[n][uuid[m]]
    IN  \/ \E i \in DOMAIN socket[n] :
             /\ socket[n][i].uuid = uuid[m]
             /\ left + Gap(MaxMissed) + Cycle + socket[n][i].age >= PEER_EXPIRY
        \/ left + Gap(missed[n][m]) + PING_INTERVAL - ping[m] >= PEER_EXPIRY

Fresh == \A n, m \in up : n # m /\ uuid[m] \in DOMAIN peers[n] => Covered(n, m)

DiscoveryInv == NodesTyped /\ Fresh

\* The numbers of a node and a peer that it knows.
LEMMA CountedOn ==
    ASSUME NodesTyped, NEW n \in Node, NEW m \in Node
    PROVE  /\ ping[m] \in Int /\ -MaxLate <= ping[m] /\ ping[m] <= PING_INTERVAL
           /\ missed[n][m] \in 0 .. MaxMissed /\ missed[n][m] \in Nat
           /\ Gap(missed[n][m]) \in Nat /\ Gap(missed[n][m]) <= Gap(MaxMissed)
           /\ \A u \in DOMAIN peers[n] : peers[n][u] \in Nat /\ peers[n][u] <= PEER_EXPIRY
           /\ \A i \in DOMAIN socket[n] : socket[n][i].age \in Nat /\ socket[n][i].age <= MaxLate
<1>1. ping[m] \in -MaxLate .. PING_INTERVAL /\ missed[n][m] \in 0 .. MaxMissed
      /\ peers[n] \in [DOMAIN peers[n] -> 0 .. PEER_EXPIRY]
  BY DEF NodesTyped, Filling
<1>2. \A i \in DOMAIN socket[n] : socket[n][i].age \in 0 .. MaxLate
  <2>1. socket[n] \in Seq(BeaconRecord)
    BY DEF NodesTyped, Filling
  <2>2. \A i \in DOMAIN socket[n] : socket[n][i] \in BeaconRecord
    BY <2>1
  <2> QED BY <2>2 DEF BeaconRecord
<1>3. \A u \in DOMAIN peers[n] : peers[n][u] \in 0 .. PEER_EXPIRY
  BY <1>1
<1> QED BY <1>1, <1>2, <1>3, Times

\* A peer that is covered has time left.
LEMMA CoveredLasts ==
    ASSUME Timely, NodesTyped, NEW n \in Node, NEW m \in Node, uuid[m] \in DOMAIN peers[n], Covered(n, m)
    PROVE  peers[n][uuid[m]] > 0
<1>1. Gap(MaxMissed) + Cycle + MaxLate < PEER_EXPIRY /\ Cycle = PING_INTERVAL + MaxLate
      /\ Gap(MaxMissed) \in Nat /\ MaxLate \in Nat /\ PING_INTERVAL \in Nat /\ PEER_EXPIRY \in Nat
  BY Times
<1>2. peers[n][uuid[m]] \in Nat
  BY CountedOn
<1>3. CASE \E i \in DOMAIN socket[n] :
             peers[n][uuid[m]] + Gap(MaxMissed) + Cycle + socket[n][i].age >= PEER_EXPIRY
  <2>1. PICK i \in DOMAIN socket[n] :
             peers[n][uuid[m]] + Gap(MaxMissed) + Cycle + socket[n][i].age >= PEER_EXPIRY
    BY <1>3
  <2>2. socket[n][i].age \in Nat /\ socket[n][i].age <= MaxLate
    BY CountedOn
  <2> QED BY <1>1, <1>2, <2>1, <2>2
<1>4. CASE peers[n][uuid[m]] + Gap(missed[n][m]) + PING_INTERVAL - ping[m] >= PEER_EXPIRY
  <2>1. /\ ping[m] \in Int /\ -MaxLate <= ping[m]
        /\ Gap(missed[n][m]) \in Nat /\ Gap(missed[n][m]) <= Gap(MaxMissed)
    BY CountedOn
  <2> QED BY <1>1, <1>2, <1>4, <2>1
<1> QED BY <1>3, <1>4 DEF Covered

\* A node that runs has a UUID of its own.
LEMMA OwnUUID ==
    ASSUME NodesTyped, NEW n \in Node, NEW m \in Node, uuid[n] = uuid[m]
    PROVE  n = m
  BY DEF NodesTyped, Named

\* At the start no peer is known.
LEMMA FreshInit ==
    ASSUME DiscoveryInit PROVE Fresh
<1>1. \A n \in Node : DOMAIN peers[n] = {}
  BY DEF DiscoveryInit, NoPeers
<1> QED BY <1>1 DEF Fresh, DiscoveryInit

\* With a tick, a peer's time and its next beacon come nearer alike.
LEMMA FreshTick ==
    ASSUME DiscoveryInv, DiscoveryTick PROVE Fresh'
<1> SUFFICES ASSUME NEW n \in up, NEW m \in up, n # m, uuid[m] \in DOMAIN peers'[n]
             PROVE  Covered(n, m)'
  BY DEF Fresh, DiscoveryTick
<1>1. UNCHANGED <<uuid, up, missed>> /\ n \in Node /\ m \in Node /\ NodesTyped
  BY DEF DiscoveryTick, DiscoveryInv, NodesTyped, Named
<1> DEFINE u == uuid[m]
<1>2. u \in DOMAIN peers[n] /\ peers'[n][u] >= peers[n][u] - 1 /\ peers'[n][u] \in Int
  <2>1. peers'[n] = [v \in DOMAIN peers[n] |-> IF peers[n][v] = 0 THEN 0 ELSE peers[n][v] - 1]
    BY <1>1 DEF DiscoveryTick
  <2>2. u \in DOMAIN peers[n] /\ peers'[n][u] = IF peers[n][u] = 0 THEN 0 ELSE peers[n][u] - 1
    BY <2>1
  <2>3. peers[n][u] \in Nat
    BY <1>1, <2>2, CountedOn
  <2> QED BY <2>2, <2>3
<1>3. Covered(n, m) /\ peers[n][u] \in Nat
  BY <1>1, <1>2, CountedOn DEF DiscoveryInv, Fresh
<1>4. ping'[m] = ping[m] - 1
  BY <1>1 DEF DiscoveryTick
<1>5. Gap(MaxMissed) \in Nat /\ Cycle \in Nat /\ PING_INTERVAL \in Nat /\ PEER_EXPIRY \in Nat
  BY Times
<1>6. CASE \E i \in DOMAIN socket[n] :
             /\ socket[n][i].uuid = u
             /\ peers[n][u] + Gap(MaxMissed) + Cycle + socket[n][i].age >= PEER_EXPIRY
  <2>1. PICK i \in DOMAIN socket[n] :
             /\ socket[n][i].uuid = u
             /\ peers[n][u] + Gap(MaxMissed) + Cycle + socket[n][i].age >= PEER_EXPIRY
    BY <1>6
  <2>2. socket[n] \in Seq(BeaconRecord) /\ socket'[n] = Older(socket[n])
    BY <1>1 DEF NodesTyped, Filling, DiscoveryTick
  <2>3. i \in DOMAIN socket'[n] /\ socket'[n][i].uuid = u /\ socket'[n][i].age = socket[n][i].age + 1
    BY <2>1, <2>2, OlderIs
  <2>4. socket[n][i].age \in Nat
    BY <1>1, CountedOn
  <2>5. peers'[n][u] + Gap(MaxMissed) + Cycle + socket'[n][i].age >= PEER_EXPIRY
    BY <1>2, <1>3, <1>5, <2>1, <2>3, <2>4
  <2> QED BY <1>1, <2>3, <2>5 DEF Covered
<1>7. CASE peers[n][u] + Gap(missed[n][m]) + PING_INTERVAL - ping[m] >= PEER_EXPIRY
  <2>1. ping[m] \in Int /\ Gap(missed[n][m]) \in Nat
    BY <1>1, CountedOn
  <2>2. peers'[n][u] + Gap(missed[n][m]) + PING_INTERVAL - ping'[m] >= PEER_EXPIRY
    BY <1>2, <1>3, <1>4, <1>5, <1>7, <2>1
  <2> QED BY <1>1, <2>2 DEF Covered
<1> QED BY <1>3, <1>6, <1>7 DEF Covered

\* A node that dies has nothing to lose.
LEMMA FreshDie ==
    ASSUME DiscoveryInv, NEW d \in Node, Die(d) PROVE Fresh'
<1>1. UNCHANGED <<uuid, missed>> /\ up' = up \ {d} /\ ping' = [ping EXCEPT ![d] = 0]
      /\ peers' = [peers EXCEPT ![d] = NoPeers] /\ socket' = [socket EXCEPT ![d] = <<>>]
  BY DEF Die
<1>2. NodesTyped
  BY DEF DiscoveryInv
<1> SUFFICES ASSUME NEW n \in up, NEW m \in up, n # d, m # d, n # m, uuid[m] \in DOMAIN peers'[n]
             PROVE  Covered(n, m)'
  BY <1>1 DEF Fresh
<1>3. n \in Node /\ m \in Node /\ peers'[n] = peers[n] /\ socket'[n] = socket[n] /\ ping'[m] = ping[m]
  BY <1>1, <1>2 DEF NodesTyped, Named, Filling
<1>4. Covered(n, m)
  BY <1>3 DEF DiscoveryInv, Fresh
<1> QED BY <1>1, <1>3, <1>4 DEF Covered

\* A node that starts again is new to everyone.
LEMMA FreshRestart ==
    ASSUME DiscoveryInv, NEW r \in Node, Restart(r) PROVE Fresh'
<1>1. NodesTyped
  BY DEF DiscoveryInv
<1>2. /\ up' = up \cup {r} /\ r \notin up
      /\ UNCHANGED <<ping, peers, socket, restarts>>
      /\ \A n \in Node : n # r => uuid'[n] = uuid[n]
      /\ \A m, n \in Node : missed'[m][n] = IF n = r THEN 0 ELSE missed[m][n]
      /\ \A u : Given(u) => u # uuid'[r]
  BY <1>1, RestartIs
<1>3. peers[r] = NoPeers /\ DOMAIN NoPeers = {}
  BY <1>1, <1>2 DEF NodesTyped, Filling, NoPeers
<1> SUFFICES ASSUME NEW n \in up', NEW m \in up', n # m, uuid'[m] \in DOMAIN peers'[n]
             PROVE  Covered(n, m)'
  BY DEF Fresh
<1>4. n # r /\ n \in up /\ n \in Node /\ m \in Node
  BY <1>1, <1>2, <1>3 DEF NodesTyped, Named
<1>5. m # r /\ m \in up
  <2>1. Given(uuid'[m])
    BY <1>1, <1>2, <1>4 DEF NodesTyped, Filling
  <2> QED BY <1>2, <2>1
<1>6. uuid'[m] = uuid[m] /\ missed'[n][m] = missed[n][m]
  BY <1>2, <1>4, <1>5
<1>7. Covered(n, m)
  BY <1>2, <1>4, <1>5, <1>6 DEF DiscoveryInv, Fresh
<1> QED BY <1>2, <1>6, <1>7 DEF Covered

\* A beacon that is read gives a peer all its time, one that is sent is on its way.
LEMMA FreshTurn ==
    ASSUME DiscoveryInv, NEW n \in Node, AgentTurn(n) PROVE Fresh'
<1>1. NodesTyped
  BY DEF DiscoveryInv
<1>2. /\ n \in up /\ UNCHANGED <<uuid, up, restarts>>
      /\ \A k \in Node : k # n => peers'[k] = peers[k]
      /\ \A u \in DOMAIN peers'[n] :
                \/ /\ u \in DOMAIN peers[n] /\ peers'[n][u] = peers[n][u]
                   /\ HasMail(n) => Head(socket[n]).uuid # u
                \/ peers'[n][u] = PEER_EXPIRY
  BY <1>1, TurnPeers
<1>3. /\ ping' \in [Node -> -MaxLate .. PING_INTERVAL]
      /\ \A k \in Node : \A i \in DOMAIN socket[k] :
                \/ k = n /\ HasMail(n) /\ socket[k][i] = Head(socket[n])
                \/ \E j \in DOMAIN socket'[k] : socket'[k][j] = socket[k][i]
      /\ \A k, m \in Node : m # n => missed'[k][m] = missed[k][m] /\ ping'[m] = ping[m]
      /\ \A k \in up : k # n =>
                \/ ping'[n] = ping[n] /\ missed'[k][n] = missed[k][n]
                \/ ping[n] <= 0 /\ \E j \in DOMAIN socket'[k] : socket'[k][j] = [uuid |-> uuid[n], age |-> 0]
                \/ /\ ping[n] <= 0 /\ ping'[n] = PING_INTERVAL
                   /\ missed[k][n] < MaxMissed /\ missed'[k][n] = missed[k][n] + 1
  BY <1>1, TurnSends
<1> SUFFICES ASSUME NEW k \in up, NEW m \in up, k # m, uuid[m] \in DOMAIN peers'[k]
             PROVE  Covered(k, m)'
  BY <1>2 DEF Fresh
<1> DEFINE u == uuid[m]
<1>4. k \in Node /\ m \in Node /\ uuid'[m] = u
  BY <1>1, <1>2 DEF NodesTyped, Named
<1>5. /\ Gap(MaxMissed) \in Nat /\ Cycle \in Nat /\ PING_INTERVAL \in Nat /\ PEER_EXPIRY \in Nat
      /\ Cycle = PING_INTERVAL + MaxLate /\ MaxLate \in Nat
      /\ \A i \in Nat : Gap(i + 1) = Gap(i) + Cycle
  BY Times
<1>6. /\ ping[m] \in Int /\ -MaxLate <= ping[m] /\ ping[m] <= PING_INTERVAL
      /\ missed[k][m] \in Nat /\ Gap(missed[k][m]) \in Nat /\ Gap(missed[k][m]) <= Gap(MaxMissed)
  BY <1>1, <1>4, CountedOn
\* It has just been heard.
<1>7. CASE k = n /\ peers'[k][u] = PEER_EXPIRY
  <2>1. missed'[k][m] = missed[k][m] /\ ping'[m] = ping[m]
    BY <1>3, <1>4, <1>7
  <2>2. peers'[k][u] + Gap(missed'[k][m]) + PING_INTERVAL - ping'[m] >= PEER_EXPIRY
    BY <1>5, <1>6, <1>7, <2>1
  <2> QED BY <1>4, <2>2 DEF Covered
<1>8. CASE ~ (k = n /\ peers'[k][u] = PEER_EXPIRY)
  <2>1. /\ u \in DOMAIN peers[k] /\ peers'[k][u] = peers[k][u]
        /\ k = n /\ HasMail(n) => Head(socket[n]).uuid # u
    BY <1>2, <1>4, <1>8
  <2>2. Covered(k, m) /\ peers[k][u] \in Nat
    BY <1>1, <1>4, <2>1, CountedOn DEF DiscoveryInv, Fresh
  \* A beacon that waits in the socket is not the one that was read.
  <2>3. CASE \E i \in DOMAIN socket[k] :
               /\ socket[k][i].uuid = u
               /\ peers[k][u] + Gap(MaxMissed) + Cycle + socket[k][i].age >= PEER_EXPIRY
    <3>1. PICK i \in DOMAIN socket[k] :
               /\ socket[k][i].uuid = u
               /\ peers[k][u] + Gap(MaxMissed) + Cycle + socket[k][i].age >= PEER_EXPIRY
      BY <2>3
    <3>2. PICK j \in DOMAIN socket'[k] : socket'[k][j] = socket[k][i]
      BY <1>3, <1>4, <2>1, <3>1
    <3>3. /\ socket'[k][j].uuid = u
          /\ peers'[k][u] + Gap(MaxMissed) + Cycle + socket'[k][j].age >= PEER_EXPIRY
      BY <2>1, <3>1, <3>2
    <3> QED BY <1>4, <3>2, <3>3 DEF Covered
  \* No beacon of m waits: the turn may be m's own, and its beacon reaches k or not.
  <2>4. CASE peers[k][u] + Gap(missed[k][m]) + PING_INTERVAL - ping[m] >= PEER_EXPIRY
    <3>1. CASE ping'[m] = ping[m] /\ missed'[k][m] = missed[k][m]
      <4>1. peers'[k][u] + Gap(missed'[k][m]) + PING_INTERVAL - ping'[m] >= PEER_EXPIRY
        BY <2>1, <2>4, <3>1
      <4> QED BY <1>4, <4>1 DEF Covered
    <3>2. CASE /\ m = n /\ ping[m] <= 0
               /\ \E j \in DOMAIN socket'[k] : socket'[k][j] = [uuid |-> u, age |-> 0]
      <4>1. PICK j \in DOMAIN socket'[k] : socket'[k][j] = [uuid |-> u, age |-> 0]
        BY <3>2
      <4>2. socket'[k][j].uuid = u /\ socket'[k][j].age = 0
        BY <4>1
      <4>3. peers'[k][u] + Gap(MaxMissed) + Cycle + socket'[k][j].age >= PEER_EXPIRY
        <5>1. peers[k][u] + Gap(MaxMissed) + Cycle >= PEER_EXPIRY
          BY <1>5, <1>6, <2>2, <2>4
        <5> QED BY <1>5, <2>1, <2>2, <4>2, <5>1
      <4> QED BY <1>4, <4>1, <4>2, <4>3 DEF Covered
    <3>3. CASE ping[m] <= 0 /\ ping'[m] = PING_INTERVAL /\ missed'[k][m] = missed[k][m] + 1
      <4>1. Gap(missed'[k][m]) = Gap(missed[k][m]) + Cycle
        BY <1>5, <1>6, <3>3
      <4>2. peers'[k][u] + Gap(missed'[k][m]) + PING_INTERVAL - ping'[m] >= PEER_EXPIRY
        BY <1>5, <1>6, <2>1, <2>2, <2>4, <3>3, <4>1
      <4> QED BY <1>4, <4>2 DEF Covered
    <3>4. CASE m # n
      BY <1>3, <1>4, <3>1, <3>4
    <3>5. CASE m = n
      BY <1>3, <3>1, <3>2, <3>3, <3>5
    <3> QED BY <3>4, <3>5
  <2> QED BY <2>2, <2>3, <2>4 DEF Covered
<1> QED BY <1>7, <1>8

\* In no step does a node that goes on running forget a peer that runs.
LEMMA NobodyLeaves ==
    ASSUME Timely, DiscoveryInv, DiscoveryNext, NEW n \in up, NEW u \in DOMAIN peers[n],
           Alive(u), n \in up'
    PROVE  u \in DOMAIN peers'[n]
<1>1. NodesTyped /\ n \in Node
  BY DEF DiscoveryInv, NodesTyped, Named
<1>2. PICK m \in up : uuid[m] = u
  BY DEF Alive
<1>3. m \in Node /\ m # n
  BY <1>1, <1>2 DEF NodesTyped, Named, Filling
<1>4. peers[n][u] > 0
  <2>1. Covered(n, m)
    BY <1>2, <1>3 DEF DiscoveryInv, Fresh
  <2> QED BY <1>1, <1>2, <1>3, <2>1, CoveredLasts
<1>5. CASE DiscoveryTick
  BY <1>1, <1>5 DEF DiscoveryTick
<1>6. ASSUME NEW d \in Node, Die(d) PROVE u \in DOMAIN peers'[n]
  <2>1. n # d
    BY <1>6 DEF Die
  <2> QED BY <1>1, <1>6, <2>1 DEF Die, NodesTyped, Filling
<1>7. ASSUME NEW r \in Node, Restart(r) PROVE u \in DOMAIN peers'[n]
  BY <1>7 DEF Restart
<1>8. ASSUME NEW k \in Node, AgentTurn(k) PROVE u \in DOMAIN peers'[n]
  <2>1. /\ \A j \in Node : j # k => peers'[j] = peers[j]
        /\ \A v \in DOMAIN peers[k] : peers[k][v] > 0 => v \in DOMAIN peers'[k]
    BY <1>1, <1>8, TurnPeers
  <2>2. CASE n = k
    BY <1>4, <2>1, <2>2
  <2>3. CASE n # k
    BY <1>1, <2>1, <2>3
  <2> QED BY <2>2, <2>3
<1> QED BY <1>5, <1>6, <1>7, <1>8 DEF DiscoveryNext

\* Every step of a node or of time keeps the invariant.
LEMMA DiscoveryInvStep ==
    ASSUME DiscoveryInv, [DiscoveryNext]_discoveryVars PROVE DiscoveryInv'
<1> USE DEF DiscoveryInv
<1>1. CASE DiscoveryTick
  BY <1>1, TypedTick, FreshTick
<1>2. ASSUME NEW n \in Node, Die(n) PROVE DiscoveryInv'
  BY <1>2, TypedDie, FreshDie
<1>3. ASSUME NEW n \in Node, Restart(n) PROVE DiscoveryInv'
  BY <1>3, TypedRestart, FreshRestart
<1>4. ASSUME NEW n \in Node, AgentTurn(n) PROVE DiscoveryInv'
  BY <1>4, TypedTurn, FreshTurn
<1>5. CASE UNCHANGED discoveryVars
  <2>1. UNCHANGED <<uuid, up, ping, peers, socket, missed, restarts>>
    BY <1>5 DEF discoveryVars
  <2>2. NodesTyped'
    <3>1. Named'
      BY <2>1 DEF NodesTyped, Named
    <3>2. Filling'
      BY <2>1 DEF NodesTyped, Filling, Given
    <3> QED BY <3>1, <3>2 DEF NodesTyped
  <2>3. Fresh'
    BY <2>1 DEF Fresh, Covered
  <2> QED BY <2>2, <2>3
<1> QED BY <1>1, <1>2, <1>3, <1>4, <1>5 DEF DiscoveryNext

\* The types of the discovery's state, for any nodes, faults and numbers.
LEMMA TypedMeans ==
    ASSUME NodesTyped PROVE DiscoveryTypeOK
<1>1. ASSUME NEW n \in Node
      PROVE  /\ DOMAIN peers[n] \subseteq UUID \ {uuid[n]}
             /\ Range(peers[n]) \subseteq 0 .. PEER_EXPIRY
             /\ \A i \in DOMAIN socket[n] : socket[n][i].uuid \in UUID
  <2>1. peers[n] \in [DOMAIN peers[n] -> 0 .. PEER_EXPIRY]
        /\ \A u \in DOMAIN peers[n] : Given(u) /\ u # uuid[n]
    BY DEF NodesTyped, Filling
  <2>2. \A i \in DOMAIN socket[n] : Given(socket[n][i].uuid)
    BY DEF NodesTyped, Filling
  <2>3. Range(peers[n]) \subseteq 0 .. PEER_EXPIRY
    BY <2>1 DEF Range
  <2> QED BY <2>1, <2>2, <2>3 DEF Given
<1> QED BY <1>1 DEF NodesTyped, Named, Filling, DiscoveryTypeOK

\* Every node has a UUID of its own, and knows peers, not itself, with no more time than
\* PEER_EXPIRY (interface.c:227-254, 279-316).
THEOREM DiscoveryTyped == DiscoverySpec => []DiscoveryTypeOK
<1>1. DiscoveryInit => DiscoveryInv
  BY TypedInit, FreshInit DEF DiscoveryInv
<1>2. DiscoveryInv /\ [DiscoveryNext]_discoveryVars => DiscoveryInv'
  BY DiscoveryInvStep
<1>3. DiscoveryInv => DiscoveryTypeOK
  BY TypedMeans DEF DiscoveryInv
<1> QED BY <1>1, <1>2, <1>3, PTL DEF DiscoverySpec

\* When the beacons come often enough for a peer's time, no node is told that a peer has
\* left that still runs: whatever beacons are missed within the bound, however long others
\* wait, and whoever dies and comes back.
THEOREM NobodyLeftFalsely == Timely /\ DiscoverySpec => NoFalseLeave
<1> SUFFICES ASSUME Timely PROVE DiscoverySpec => NoFalseLeave
  OBVIOUS
<1> DEFINE Stays == \A n \in up : \A u \in DOMAIN peers[n] :
                      Alive(u) /\ n \in up' => u \in DOMAIN peers'[n]
<1>1. DiscoveryInit => DiscoveryInv
  BY TypedInit, FreshInit DEF DiscoveryInv
<1>2. DiscoveryInv /\ [DiscoveryNext]_discoveryVars => DiscoveryInv'
  BY DiscoveryInvStep
<1>3. DiscoveryInv /\ [DiscoveryNext]_discoveryVars => [Stays]_discoveryVars
  BY NobodyLeaves
<1> QED BY <1>1, <1>2, <1>3, PTL DEF DiscoverySpec, NoFalseLeave

----------------------------------------------------------------------------
(* The application and the agent of clones/clone.c. *)

AppSpec == AppInit /\ [][AppNext]_appVars

Kinds == {"SUBTREE", "CONNECT", "SET", "GET"}
Item == [command : Kinds, arg : {"/client/"} \cup Endpoint \cup AppKey, value : Nat]

\* How many commands the agent has taken.
TakenCount == Len(commands) - Len(control)

\* The pipe holds the last commands, in order.
Queued ==
    /\ commands \in Seq(AppCommand) /\ control \in Seq(Item)
    /\ TakenCount \in Nat
    /\ \A j \in 1 .. Len(control) : /\ control[j].command = commands[TakenCount + j].command
                                    /\ control[j].arg = commands[TakenCount + j].arg
                                    /\ control[j].value = TakenCount + j

\* The application waits for one value at most, and asks for nothing else until then.
Waited ==
    /\ values \in Seq(Int)
    /\ \A j \in 1 .. Len(control) :
         control[j].command = "GET" => j = Len(control) /\ getting /\ values = <<>>
    /\ values # <<>> => /\ getting /\ control = <<>> /\ Len(values) = 1
                        /\ commands # <<>> /\ commands[Len(commands)].command = "GET"

\* The value that the application set last of those taken.
SetsOf(k) == {i \in At("SET") : commands[i].arg = k}
LastCalled(k) == IF SetsOf(k) = {} THEN NoValue ELSE CHOOSE i \in SetsOf(k) : \A j \in SetsOf(k) : j <= i

Copied ==
    /\ copy \in [AppKey -> Int]
    /\ \A k \in AppKey : k \notin foreign => copy[k] = LastCalled(k)
    /\ values # <<>> /\ commands[Len(commands)].arg \notin foreign
         => Head(values) = LastCalled(commands[Len(commands)].arg)

PoolServer == [address : Endpoint, filter : {"", "/client/"}, requests : 0 .. 2]

\* The server of the pool that the i-th command connected to.
Connected(n, i) ==
    /\ Cardinality({j \in At("CONNECT") : j <= i}) = n
    /\ pool[n].address = commands[i].arg
    /\ pool[n].filter = IF \E j \in At("SUBTREE") : j < i THEN "/client/" ELSE ""
    /\ ToSet(pushed[n]) = {j \in At("SET") : j > i}
    /\ \A j, k \in DOMAIN pushed[n] : j < k => pushed[n][j] < pushed[n][k]

Pooled ==
    /\ pool \in Seq(PoolServer) /\ pushed \in Seq(Seq(Nat)) /\ unheard \in Seq(0 .. 2)
    /\ Len(pool) <= 2 /\ Len(pushed) = Len(pool) /\ Len(unheard) = Len(pool)
    /\ cur_server \in 1 .. 2
    /\ IF pool = <<>> THEN cur_server = 1 ELSE cur_server <= Len(pool)
    /\ \A n \in 1 .. Len(pool) : unheard[n] = pool[n].requests
    /\ subtree = IF At("SUBTREE") = {} THEN "" ELSE "/client/"
    /\ Len(pool) = IF Cardinality(At("CONNECT")) < 2 THEN Cardinality(At("CONNECT")) ELSE 2
    /\ \A n \in 1 .. Len(pool) : \E i \in At("CONNECT") : Connected(n, i)

AppInv == Queued /\ Waited /\ Copied /\ Pooled

\* A command by its kind.
LEMMA CommandIs ==
    ASSUME NEW c \in AppCommand
    PROVE  /\ c.command \in Kinds /\ c.arg \in {"/client/"} \cup Endpoint \cup AppKey
           /\ c.command = "SUBTREE" => c.arg = "/client/"
           /\ c.command = "CONNECT" => c.arg \in Endpoint
           /\ c.command \in {"SET", "GET"} => c.arg \in AppKey
<1>1. CASE c \in [command : {"SUBTREE"}, arg : {"/client/"}]
  BY <1>1 DEF Kinds
<1>2. CASE c \in [command : {"CONNECT"}, arg : Endpoint]
  BY <1>2 DEF Kinds
<1>3. CASE c \in [command : {"SET", "GET"}, arg : AppKey]
  BY <1>3 DEF Kinds
<1> QED BY <1>1, <1>2, <1>3 DEF AppCommand

\* The first elements of a sequence.
LEMMA FirstOnes ==
    ASSUME NEW S, NEW q \in Seq(S), NEW n \in Nat, n <= Len(q)
    PROVE  DOMAIN SubSeq(q, 1, n) = 1 .. n /\ \A i \in 1 .. n : SubSeq(q, 1, n)[i] = q[i]
  OBVIOUS

\* The positions of a kind among the commands that were taken.
LEMMA AtIs ==
    ASSUME Queued
    PROVE  /\ Len(commands) \in Nat /\ Len(control) \in Nat /\ TakenCount \in Nat /\ TakenCount <= Len(commands)
           /\ \A kind : At(kind) = {i \in 1 .. TakenCount : commands[i].command = kind}
           /\ \A i \in 1 .. Len(commands) : commands[i] \in AppCommand
<1>1. Len(commands) \in Nat /\ Len(control) \in Nat /\ TakenCount \in Nat /\ TakenCount <= Len(commands)
      /\ TakenCount = Len(commands) - Len(control) /\ commands \in Seq(AppCommand)
  BY DEF Queued, TakenCount
<1>2. TakenCommands = SubSeq(commands, 1, TakenCount)
  BY DEF TakenCommands, TakenCount
<1>3. DOMAIN TakenCommands = 1 .. TakenCount /\ \A i \in 1 .. TakenCount : TakenCommands[i] = commands[i]
  BY <1>1, <1>2, FirstOnes
<1>4. \A kind : At(kind) = {i \in 1 .. TakenCount : commands[i].command = kind}
  BY <1>3 DEF At
<1> QED BY <1>1, <1>4

\* They can be counted, and the next command is not among them.
LEMMA AtFinite ==
    ASSUME Queued, NEW kind
    PROVE  /\ IsFiniteSet(At(kind)) /\ Cardinality(At(kind)) \in Nat
           /\ At(kind) \subseteq 1 .. TakenCount /\ TakenCount + 1 \notin At(kind)
<1>1. TakenCount \in Nat /\ At(kind) = {i \in 1 .. TakenCount : commands[i].command = kind}
  BY AtIs
<1>2. At(kind) \subseteq 1 .. TakenCount /\ TakenCount + 1 \notin 1 .. TakenCount
  BY <1>1
<1>3. IsFiniteSet(1 .. TakenCount)
  BY <1>1, FS_Interval
<1>4. IsFiniteSet(At(kind))
  BY <1>2, <1>3, FS_Subset
<1> QED BY <1>2, <1>4, FS_CardinalityType

\* A command that the agent takes.
LEMMA TakesCommand ==
    ASSUME Queued, control # <<>>, commands' = commands, control' = Tail(control)
    PROVE  /\ TakenCount' = TakenCount + 1 /\ TakenCount + 1 <= Len(commands) /\ TakenCount + 1 \in 1 .. Len(commands)
           /\ Head(control).command = commands[TakenCount + 1].command
           /\ Head(control).arg = commands[TakenCount + 1].arg
           /\ Head(control).value = TakenCount + 1 /\ Head(control) = control[1]
           /\ commands[TakenCount + 1] \in AppCommand
           /\ Queued' /\ Len(control') = Len(control) - 1 /\ Len(control) \in Nat /\ Len(control) > 0
           /\ \A j \in 1 .. Len(control') : control'[j] = control[j + 1] /\ j + 1 \in 1 .. Len(control)
           /\ \A kind : At(kind)' = IF commands[TakenCount + 1].command = kind
                                    THEN At(kind) \cup {TakenCount + 1} ELSE At(kind)
<1>1. /\ commands \in Seq(AppCommand) /\ control \in Seq(Item) /\ TakenCount \in Nat /\ Len(control) \in Nat
      /\ Len(commands) \in Nat
  BY AtIs DEF Queued
<1>2. /\ Tail(control) \in Seq(Item) /\ Head(control) = control[1] /\ 1 \in 1 .. Len(control)
      /\ DOMAIN Tail(control) = 1 .. Len(control) - 1
      /\ \A i \in 1 .. Len(control) - 1 : Tail(control)[i] = control[i + 1] /\ i + 1 \in 1 .. Len(control)
  BY <1>1, Tailed
<1>3. Len(control) > 0 /\ Len(control') = Len(control) - 1
  BY <1>1
<1>4. TakenCount' = TakenCount + 1 /\ TakenCount = Len(commands) - Len(control) /\ TakenCount + 1 <= Len(commands)
  BY <1>1, <1>3 DEF TakenCount
<1>5. /\ Head(control).command = commands[TakenCount + 1].command
      /\ Head(control).arg = commands[TakenCount + 1].arg
      /\ Head(control).value = TakenCount + 1
  BY <1>2 DEF Queued
<1>6. TakenCount + 1 \in 1 .. Len(commands) /\ commands[TakenCount + 1] \in AppCommand
  BY <1>1, <1>4
<1>7. \A j \in 1 .. Len(control') :
         /\ control'[j] = control[j + 1] /\ j + 1 \in 1 .. Len(control)
         /\ control'[j].command = commands[TakenCount' + j].command
         /\ control'[j].arg = commands[TakenCount' + j].arg
         /\ control'[j].value = TakenCount' + j
  <2> SUFFICES ASSUME NEW j \in 1 .. Len(control')
               PROVE  /\ control'[j] = control[j + 1] /\ j + 1 \in 1 .. Len(control)
                      /\ control'[j].command = commands[TakenCount' + j].command
                      /\ control'[j].arg = commands[TakenCount' + j].arg
                      /\ control'[j].value = TakenCount' + j
    OBVIOUS
  <2>1. control'[j] = control[j + 1] /\ j + 1 \in 1 .. Len(control)
    BY <1>2, <1>3
  <2>2. TakenCount + (j + 1) = TakenCount' + j
    BY <1>1, <1>4
  <2>3. /\ control[j + 1].command = commands[TakenCount + (j + 1)].command
        /\ control[j + 1].arg = commands[TakenCount + (j + 1)].arg
        /\ control[j + 1].value = TakenCount + (j + 1)
    BY <2>1 DEF Queued
  <2> QED BY <2>1, <2>2, <2>3
<1>8. Queued'
  <2>1. TakenCount' \in Nat /\ control' \in Seq(Item)
    BY <1>1, <1>2, <1>4
  <2> QED BY <1>1, <1>7, <2>1 DEF Queued
<1>9. \A kind : At(kind)' = {i \in 1 .. TakenCount' : commands'[i].command = kind}
  <2>1. TakenCount' \in Nat /\ TakenCount' <= Len(commands') /\ commands' \in Seq(AppCommand)
    BY <1>1, <1>4
  <2>2. TakenCommands' = SubSeq(commands', 1, TakenCount')
    BY DEF TakenCommands, TakenCount
  <2>3. DOMAIN TakenCommands' = 1 .. TakenCount' /\ \A i \in 1 .. TakenCount' : TakenCommands'[i] = commands'[i]
    <3>1. /\ DOMAIN SubSeq(commands', 1, TakenCount') = 1 .. TakenCount'
          /\ \A i \in 1 .. TakenCount' : SubSeq(commands', 1, TakenCount')[i] = commands'[i]
      BY <2>1, FirstOnes
    <3> QED BY <2>2, <3>1
  <2> QED BY <2>3 DEF At
<1>10. 1 .. TakenCount + 1 = (1 .. TakenCount) \cup {TakenCount + 1}
  BY <1>1
<1>11. \A kind : At(kind) = {i \in 1 .. TakenCount : commands[i].command = kind}
  BY AtIs
<1>12. ASSUME NEW kind
       PROVE  At(kind)' = IF commands[TakenCount + 1].command = kind
                          THEN At(kind) \cup {TakenCount + 1} ELSE At(kind)
  <2>1. At(kind)' = {i \in (1 .. TakenCount) \cup {TakenCount + 1} : commands[i].command = kind}
    BY <1>4, <1>9, <1>10
  <2>2. {i \in (1 .. TakenCount) \cup {TakenCount + 1} : commands[i].command = kind} =
           IF commands[TakenCount + 1].command = kind
           THEN {i \in 1 .. TakenCount : commands[i].command = kind} \cup {TakenCount + 1}
           ELSE {i \in 1 .. TakenCount : commands[i].command = kind}
    OBVIOUS
  <2>3. At(kind) = {i \in 1 .. TakenCount : commands[i].command = kind}
    BY <1>11
  <2> QED BY <2>1, <2>2, <2>3
<1> QED BY <1>2, <1>3, <1>1, <1>4, <1>5, <1>6, <1>7, <1>8, <1>12

\* At the start nothing was called and nothing is known.
LEMMA AppBegins ==
    ASSUME AppInit PROVE AppInv
<1>1. commands = <<>> /\ control = <<>> /\ values = <<>> /\ pool = <<>> /\ pushed = <<>> /\ unheard = <<>>
      /\ getting = FALSE /\ subtree = "" /\ cur_server = 1 /\ copy = [k \in AppKey |-> NoValue]
  BY DEF AppInit
<1>2. Len(<<>>) = 0 /\ 1 .. 0 = {} /\ \A S : <<>> \in Seq(S)
  OBVIOUS
<1>3. TakenCount = 0
  <2>1. Len(commands) = 0 /\ Len(control) = 0
    BY <1>1, <1>2
  <2> QED BY <2>1 DEF TakenCount
<1>4. Queued
  BY <1>1, <1>2, <1>3 DEF Queued
<1>5. \A kind : At(kind) = {}
  BY <1>2, <1>3, <1>4, AtIs
<1>6. Waited
  BY <1>1, <1>2 DEF Waited
<1>7. Copied
  <2>1. \A k : SetsOf(k) = {}
    BY <1>5 DEF SetsOf
  <2>2. \A k : LastCalled(k) = 0
    BY <2>1 DEF LastCalled, NoValue
  <2>3. copy \in [AppKey -> Int] /\ \A k \in AppKey : copy[k] = 0
    <3>1. copy = [k \in AppKey |-> 0]
      BY DEF AppInit, NoValue
    <3> QED BY <3>1
  <2> QED BY <1>1, <2>2, <2>3 DEF Copied
<1>8. Cardinality({}) = 0
  BY FS_EmptySet
<1>9. Pooled
  <2>1. pool \in Seq(PoolServer) /\ pushed \in Seq(Seq(Nat)) /\ unheard \in Seq(0 .. 2)
    BY <1>1, <1>2
  <2>2. Len(pool) = 0 /\ Len(pushed) = 0 /\ Len(unheard) = 0 /\ 1 .. Len(pool) = {}
    BY <1>1, <1>2
  <2>3. Cardinality(At("CONNECT")) = 0 /\ At("SUBTREE") = {}
    BY <1>5, <1>8
  <2>4. \A n \in 1 .. Len(pool) : FALSE
    BY <2>2
  <2>5. cur_server = 1 /\ pool = <<>> /\ subtree = ""
    BY <1>1
  <2>6. Len(pool) <= 2 /\ Len(pushed) = Len(pool) /\ Len(unheard) = Len(pool) /\ cur_server \in 1 .. 2
    <3>1. Len(pool) = 0 /\ Len(pushed) = 0 /\ Len(unheard) = 0
      BY <2>2
    <3>2. cur_server = 1
      BY <2>5
    <3> QED BY <3>1, <3>2
  <2>7. Len(pool) = IF Cardinality(At("CONNECT")) < 2 THEN Cardinality(At("CONNECT")) ELSE 2
    BY <2>2, <2>3
  <2> QED BY <2>1, <2>3, <2>4, <2>5, <2>6, <2>7 DEF Pooled
<1> QED BY <1>4, <1>6, <1>7, <1>9 DEF AppInv

\* A server that was connected to stays that of its command: a value is sent to it when the
\* command that is taken sets one.
LEMMA ConnectedKept ==
    ASSUME Queued, NEW n, NEW i \in At("CONNECT"), Connected(n, i), pushed[n] \in Seq(Nat),
           commands'[i] = commands[i],
           pool'[n].address = pool[n].address, pool'[n].filter = pool[n].filter,
           \A kind : At(kind)' = At(kind) \/ At(kind)' = At(kind) \cup {TakenCount + 1},
           \/ pushed'[n] = pushed[n] /\ At("SET")' = At("SET")
           \/ pushed'[n] = Append(pushed[n], TakenCount + 1) /\ At("SET")' = At("SET") \cup {TakenCount + 1}
    PROVE  Connected(n, i)' /\ i \in At("CONNECT")'
<1>1. TakenCount \in Nat /\ i \in Nat /\ i < TakenCount + 1
  <2>1. At("CONNECT") \subseteq 1 .. TakenCount
    BY AtFinite
  <2> QED BY <2>1, AtIs
<1>2. {j \in At("CONNECT")' : j <= i} = {j \in At("CONNECT") : j <= i}
  BY <1>1
<1>3. (\E j \in At("SUBTREE")' : j < i) <=> \E j \in At("SUBTREE") : j < i
  <2>1. At("SUBTREE")' = At("SUBTREE") \/ At("SUBTREE")' = At("SUBTREE") \cup {TakenCount + 1}
    OBVIOUS
  <2>2. ~ (TakenCount + 1 < i)
    BY <1>1
  <2> QED BY <2>1, <2>2
<1>4. ToSet(pushed[n]) = {j \in At("SET") : j > i}
      /\ \A j, k \in DOMAIN pushed[n] : j < k => pushed[n][j] < pushed[n][k]
  BY DEF Connected
<1>5. ToSet(pushed'[n]) = {j \in At("SET")' : j > i}
      /\ \A j, k \in DOMAIN pushed'[n] : j < k => pushed'[n][j] < pushed'[n][k]
  <2>1. CASE pushed'[n] = pushed[n] /\ At("SET")' = At("SET")
    BY <1>4, <2>1
  <2>2. CASE pushed'[n] = Append(pushed[n], TakenCount + 1) /\ At("SET")' = At("SET") \cup {TakenCount + 1}
    <3> DEFINE q == pushed[n]
               r == Append(q, TakenCount + 1)
    <3>1. /\ Len(q) \in Nat /\ DOMAIN q = 1 .. Len(q) /\ DOMAIN r = 1 .. Len(q) + 1
          /\ \A j \in 1 .. Len(q) : r[j] = q[j] /\ j \in 1 .. Len(q) + 1
          /\ r[Len(q) + 1] = TakenCount + 1 /\ Len(q) + 1 \in 1 .. Len(q) + 1
          /\ \A j \in 1 .. Len(q) + 1 : j \in 1 .. Len(q) \/ j = Len(q) + 1
      BY <1>1, Appended
    <3>2. ToSet(q) = {q[j] : j \in DOMAIN q} /\ ToSet(r) = {r[j] : j \in DOMAIN r}
      BY DEF ToSet
    <3> HIDE DEF q, r
    <3>3. ToSet(r) = ToSet(q) \cup {TakenCount + 1}
      BY <3>1, <3>2
    <3>4. {j \in At("SET") \cup {TakenCount + 1} : j > i} = {j \in At("SET") : j > i} \cup {TakenCount + 1}
      BY <1>1
    <3>5. ToSet(r) = {j \in At("SET")' : j > i}
      BY <1>4, <2>2, <3>3, <3>4 DEF q
    <3>6. \A j \in 1 .. Len(q) : q[j] \in Nat /\ q[j] < TakenCount + 1
      <4>1. \A j \in 1 .. Len(q) : q[j] \in At("SET")
        BY <1>4, <3>1, <3>2 DEF q
      <4>2. At("SET") \subseteq 1 .. TakenCount
        BY AtFinite
      <4> QED BY <1>1, <4>1, <4>2
    <3>7. \A j, k \in 1 .. Len(q) : j < k => q[j] < q[k]
      BY <1>4, <3>1 DEF q
    <3>8. \A j, k \in 1 .. Len(q) + 1 : j < k => j \in 1 .. Len(q)
      BY <3>1
    <3>9. ASSUME NEW j \in DOMAIN r, NEW k \in DOMAIN r, j < k PROVE r[j] < r[k]
      <4>1. j \in 1 .. Len(q) /\ r[j] = q[j]
        BY <3>1, <3>8, <3>9
      <4>2. CASE k = Len(q) + 1
        BY <3>1, <3>6, <4>1, <4>2
      <4>3. CASE k \in 1 .. Len(q)
        BY <3>1, <3>7, <3>9, <4>1, <4>3
      <4> QED BY <3>1, <4>2, <4>3
    <3>10. pushed'[n] = r
      BY <2>2 DEF r, q
    <3> QED BY <3>5, <3>9, <3>10
  <2> QED BY <2>1, <2>2
<1>6. i \in At("CONNECT")'
  <2>1. At("CONNECT")' = At("CONNECT") \/ At("CONNECT")' = At("CONNECT") \cup {TakenCount + 1}
    OBVIOUS
  <2> QED BY <2>1
<1>7. /\ Cardinality({j \in At("CONNECT")' : j <= i}) = n
      /\ pool'[n].address = commands'[i].arg
      /\ pool'[n].filter = IF \E j \in At("SUBTREE")' : j < i THEN "/client/" ELSE ""
  BY <1>2, <1>3 DEF Connected
<1>8. Connected(n, i)'
  BY <1>5, <1>7 DEF Connected
<1> QED BY <1>6, <1>8

\* The pool, when no command is taken.
LEMMA PooledKept ==
    ASSUME Queued, Pooled, UNCHANGED <<pushed, subtree>>, \A kind : At(kind)' = At(kind),
           \A i \in 1 .. TakenCount : commands'[i] = commands[i],
           pool' \in Seq(PoolServer), unheard' \in Seq(0 .. 2),
           Len(pool') = Len(pool), Len(unheard') = Len(pool),
           \A n \in 1 .. Len(pool) : /\ pool'[n].address = pool[n].address
                                     /\ pool'[n].filter = pool[n].filter
                                     /\ unheard'[n] = pool'[n].requests,
           cur_server' \in 1 .. 2, IF pool = <<>> THEN cur_server' = 1 ELSE cur_server' <= Len(pool)
    PROVE  Pooled'
<1>1. pool \in Seq(PoolServer) /\ Len(pool) \in Nat /\ pushed \in Seq(Seq(Nat)) /\ Len(pushed) = Len(pool)
  <2>1. pool \in Seq(PoolServer) /\ pushed \in Seq(Seq(Nat)) /\ Len(pushed) = Len(pool)
    BY DEF Pooled
  <2> QED BY <2>1
<1>2. (pool' = <<>>) <=> (pool = <<>>)
  BY <1>1
<1>3. ASSUME NEW n \in 1 .. Len(pool) PROVE \E i \in At("CONNECT") : Connected(n, i)'
  <2>1. PICK i \in At("CONNECT") : Connected(n, i)
    BY DEF Pooled
  <2>2. At("CONNECT") \subseteq 1 .. TakenCount
    BY AtFinite
  <2>3. commands'[i] = commands[i] /\ pushed[n] \in Seq(Nat)
    BY <1>1, <2>2
  <2>4. /\ \A kind : At(kind)' = At(kind) \/ At(kind)' = At(kind) \cup {TakenCount + 1}
        /\ pushed'[n] = pushed[n] /\ At("SET")' = At("SET")
    OBVIOUS
  <2>5. Connected(n, i)'
    BY <2>1, <2>3, <2>4, ConnectedKept
  <2> QED BY <2>5
<1>4. \A n \in 1 .. Len(pool) : \E i \in At("CONNECT")' : Connected(n, i)'
  BY <1>3
<1>5. /\ subtree' = IF At("SUBTREE")' = {} THEN "" ELSE "/client/"
      /\ Len(pool') = IF Cardinality(At("CONNECT")') < 2 THEN Cardinality(At("CONNECT")') ELSE 2
      /\ pushed' \in Seq(Seq(Nat)) /\ Len(pool') <= 2 /\ Len(pushed') = Len(pool')
  <2>1. At("SUBTREE")' = At("SUBTREE") /\ At("CONNECT")' = At("CONNECT")
    OBVIOUS
  <2>2. subtree' = IF At("SUBTREE")' = {} THEN "" ELSE "/client/"
    BY <2>1 DEF Pooled
  <2>3. Len(pool') = IF Cardinality(At("CONNECT")') < 2 THEN Cardinality(At("CONNECT")') ELSE 2
    BY <2>1 DEF Pooled
  <2> QED BY <1>1, <2>2, <2>3 DEF Pooled
<1> QED BY <1>2, <1>4, <1>5 DEF Pooled

\* A step that leaves the pool and what was taken keeps it.
LEMMA PooledSame ==
    ASSUME Queued, Pooled, UNCHANGED <<pool, pushed, unheard, cur_server, subtree>>,
           \A kind : At(kind)' = At(kind), \A i \in 1 .. TakenCount : commands'[i] = commands[i]
    PROVE  Pooled'
<1>1. /\ pool' \in Seq(PoolServer) /\ unheard' \in Seq(0 .. 2)
      /\ Len(pool') = Len(pool) /\ Len(unheard') = Len(pool)
      /\ \A n \in 1 .. Len(pool) : /\ pool'[n].address = pool[n].address
                                   /\ pool'[n].filter = pool[n].filter
                                   /\ unheard'[n] = pool'[n].requests
      /\ cur_server' \in 1 .. 2 /\ IF pool = <<>> THEN cur_server' = 1 ELSE cur_server' <= Len(pool)
  BY DEF Pooled
<1> QED BY <1>1, PooledKept

\* The values of the keys, when no command that sets one is taken.
LEMMA LatestKept ==
    ASSUME Queued, At("SET")' = At("SET"), \A i \in 1 .. TakenCount : commands'[i] = commands[i], NEW k
    PROVE  LastCalled(k)' = LastCalled(k)
<1>1. At("SET") \subseteq 1 .. TakenCount
  BY AtFinite
<1>2. SetsOf(k)' = SetsOf(k)
  BY <1>1 DEF SetsOf
<1> QED BY <1>2 DEF LastCalled

\* Of a key that is set, the value is that of the command.
LEMMA LatestSet ==
    ASSUME Queued, At("SET")' = At("SET") \cup {TakenCount + 1}, UNCHANGED commands, NEW k
    PROVE  LastCalled(k)' = IF commands[TakenCount + 1].arg = k THEN TakenCount + 1 ELSE LastCalled(k)
<1>1. At("SET") \subseteq 1 .. TakenCount /\ TakenCount \in Nat
  BY AtFinite, AtIs
<1>2. SetsOf(k)' = IF commands[TakenCount + 1].arg = k THEN SetsOf(k) \cup {TakenCount + 1} ELSE SetsOf(k)
  BY DEF SetsOf
<1>3. CASE commands[TakenCount + 1].arg = k
  <2> DEFINE S == SetsOf(k) \cup {TakenCount + 1}
  <2>1. \A i \in S : i \in Nat /\ i <= TakenCount + 1
    BY <1>1 DEF SetsOf
  <2>2. TakenCount + 1 \in S /\ S # {} /\ \A j \in S : j <= TakenCount + 1
    BY <2>1
  <2>3. \A i \in S : (\A j \in S : j <= i) => i = TakenCount + 1
    <3> SUFFICES ASSUME NEW i \in S, \A j \in S : j <= i PROVE i = TakenCount + 1
      OBVIOUS
    <3>1. TakenCount + 1 <= i /\ i <= TakenCount + 1 /\ i \in Nat
      BY <2>1, <2>2
    <3> QED BY <1>1, <3>1
  <2> HIDE DEF S
  <2>4. (CHOOSE i \in S : \A j \in S : j <= i) = TakenCount + 1
    <3>1. (CHOOSE i \in S : \A j \in S : j <= i) \in S
          /\ \A j \in S : j <= (CHOOSE i \in S : \A j2 \in S : j2 <= i)
      BY <2>2
    <3> QED BY <2>3, <3>1
  <2>5. SetsOf(k)' = S
    BY <1>2, <1>3 DEF S
  <2>6. LastCalled(k)' = IF S = {} THEN NoValue ELSE CHOOSE i \in S : \A j \in S : j <= i
    BY <2>5 DEF LastCalled, NoValue
  <2> QED BY <1>3, <2>2, <2>4, <2>6
<1>4. CASE commands[TakenCount + 1].arg # k
  BY <1>2, <1>4 DEF LastCalled
<1> QED BY <1>3, <1>4

\* A call of the application.
LEMMA CallIs ==
    ASSUME AppInv, AppCall
    PROVE  /\ Queued' /\ \A kind : At(kind)' = At(kind)
           /\ \A i \in 1 .. TakenCount : commands'[i] = commands[i]
           /\ UNCHANGED <<values, subtree, pool, agentState, cur_server, copy, foreign, pushed, unheard>>
           /\ values = <<>>
           /\ \A j \in 1 .. Len(control') :
                control'[j].command = "GET" => j = Len(control') /\ getting'
<1>1. PICK c \in AppCommand :
        /\ commands' = Append(commands, c)
        /\ control' = Append(control, [command |-> c.command, arg |-> c.arg, value |-> Len(commands) + 1])
        /\ getting' = (c.command = "GET")
  BY DEF AppCall
<1>2. ~ getting /\ UNCHANGED <<values, subtree, pool, agentState, cur_server, copy, foreign, pushed, unheard>>
  BY DEF AppCall
<1>3. Queued /\ values = <<>>
  BY <1>2 DEF AppInv, Waited
<1>4. \A j \in 1 .. Len(control) : control[j].command # "GET"
  BY <1>2 DEF AppInv, Waited
<1> DEFINE e == [command |-> c.command, arg |-> c.arg, value |-> Len(commands) + 1]
<1>5. /\ commands \in Seq(AppCommand) /\ control \in Seq(Item) /\ TakenCount \in Nat
      /\ Len(commands) \in Nat /\ Len(control) \in Nat /\ TakenCount = Len(commands) - Len(control)
      /\ TakenCount <= Len(commands)
  BY <1>3, AtIs DEF Queued, TakenCount
<1>6. e \in Item /\ e.command = c.command /\ e.arg = c.arg /\ e.value = Len(commands) + 1
  <2>1. c.command \in Kinds /\ c.arg \in {"/client/"} \cup Endpoint \cup AppKey
    BY CommandIs
  <2> QED BY <1>5, <2>1 DEF Item
<1> HIDE DEF e
<1>7. control' = Append(control, e)
  BY <1>1 DEF e
<1>8. /\ commands' \in Seq(AppCommand) /\ Len(commands') = Len(commands) + 1
      /\ \A i \in 1 .. Len(commands) : commands'[i] = commands[i]
      /\ commands'[Len(commands) + 1] = c
  BY <1>1, <1>5
<1>9. /\ control' \in Seq(Item) /\ Len(control') = Len(control) + 1
      /\ \A j \in 1 .. Len(control) : control'[j] = control[j]
      /\ control'[Len(control) + 1] = e
  BY <1>5, <1>6, <1>7
<1>10. TakenCount' = TakenCount
  BY <1>5, <1>8, <1>9 DEF TakenCount
<1>11. \A j \in 1 .. Len(control') : j \in 1 .. Len(control) \/ j = Len(control) + 1
  BY <1>5, <1>9
<1>12. ASSUME NEW j \in 1 .. Len(control')
       PROVE  /\ control'[j].command = commands'[TakenCount + j].command
              /\ control'[j].arg = commands'[TakenCount + j].arg
              /\ control'[j].value = TakenCount + j
              /\ control'[j].command = "GET" => j = Len(control') /\ getting'
  <2>1. CASE j \in 1 .. Len(control)
    <3>1. TakenCount + j \in 1 .. Len(commands)
      BY <1>5, <2>1
    <3>2. control'[j] = control[j] /\ commands'[TakenCount + j] = commands[TakenCount + j]
      BY <1>8, <1>9, <2>1, <3>1
    <3> QED BY <1>3, <1>4, <2>1, <3>2 DEF Queued
  <2>2. CASE j = Len(control) + 1
    <3>1. TakenCount + j = Len(commands) + 1
      BY <1>5, <2>2
    <3>2. control'[j] = e /\ commands'[TakenCount + j] = c /\ j = Len(control')
      BY <1>8, <1>9, <2>2, <3>1
    <3> QED BY <1>1, <1>6, <3>1, <3>2
  <2> QED BY <1>11, <2>1, <2>2
<1>13. Queued'
  BY <1>5, <1>8, <1>9, <1>10, <1>12 DEF Queued
<1>14. \A i \in 1 .. TakenCount : commands'[i] = commands[i]
  <2>1. \A i \in 1 .. TakenCount : i \in 1 .. Len(commands)
    BY <1>5
  <2> QED BY <1>8, <2>1
<1>15. \A kind : At(kind)' = At(kind)
  <2>1. TakenCommands' = SubSeq(commands', 1, TakenCount')
    BY DEF TakenCommands, TakenCount
  <2>2. TakenCount' \in Nat /\ TakenCount' <= Len(commands')
    BY <1>5, <1>8, <1>10
  <2>3. /\ DOMAIN SubSeq(commands', 1, TakenCount') = 1 .. TakenCount'
        /\ \A i \in 1 .. TakenCount' : SubSeq(commands', 1, TakenCount')[i] = commands'[i]
    BY <1>8, <2>2, FirstOnes
  <2>4. DOMAIN TakenCommands' = 1 .. TakenCount /\ \A i \in 1 .. TakenCount : TakenCommands'[i] = commands[i]
    BY <1>10, <1>14, <2>1, <2>3
  <2>5. \A kind : At(kind) = {i \in 1 .. TakenCount : commands[i].command = kind}
    BY <1>3, AtIs
  <2>6. \A kind : At(kind)' = {i \in 1 .. TakenCount : commands[i].command = kind}
    BY <2>4 DEF At
  <2> QED BY <2>5, <2>6
<1> QED BY <1>2, <1>3, <1>12, <1>13, <1>14, <1>15

\* A call waits in the pipe.
LEMMA AppCallStep ==
    ASSUME AppInv, AppCall PROVE AppInv'
<1>1. /\ Queued' /\ \A kind : At(kind)' = At(kind)
      /\ \A i \in 1 .. TakenCount : commands'[i] = commands[i]
      /\ UNCHANGED <<values, subtree, pool, agentState, cur_server, copy, foreign, pushed, unheard>>
      /\ values = <<>>
      /\ \A j \in 1 .. Len(control') :
           control'[j].command = "GET" => j = Len(control') /\ getting'
  BY CallIs
<1>2. Queued /\ Pooled /\ Waited /\ Copied
  BY DEF AppInv
<1>3. Waited'
  BY <1>1, <1>2 DEF Waited
<1>4. \A k : LastCalled(k)' = LastCalled(k)
  BY <1>1, <1>2, LatestKept
<1>5. Copied'
  BY <1>1, <1>2, <1>4 DEF Copied
<1>6. Pooled'
  BY <1>1, <1>2, PooledSame
<1> QED BY <1>1, <1>3, <1>5, <1>6 DEF AppInv

\* The steps that take no command.
LEMMA NothingTaken ==
    ASSUME AppInv, UNCHANGED <<commands, control>>
    PROVE  /\ Queued' /\ \A kind : At(kind)' = At(kind)
           /\ \A i \in 1 .. TakenCount : commands'[i] = commands[i]
           /\ \A k : LastCalled(k)' = LastCalled(k)
<1>1. Queued
  BY DEF AppInv
<1>2. Queued'
  BY <1>1 DEF Queued, TakenCount
<1>3. \A kind : At(kind)' = At(kind)
  BY DEF At, TakenCommands
<1>4. \A k : LastCalled(k)' = LastCalled(k)
  BY <1>1, <1>3, LatestKept
<1> QED BY <1>2, <1>3, <1>4

\* The application reads the value it waited for.
LEMMA AppGotStep ==
    ASSUME AppInv, AppGot PROVE AppInv'
<1>1. /\ values # <<>> /\ values' = Tail(values) /\ getting' = FALSE
      /\ UNCHANGED <<commands, control, subtree, pool, agentState, cur_server, copy, foreign, pushed, unheard>>
  BY DEF AppGot
<1>2. /\ Queued' /\ \A kind : At(kind)' = At(kind)
      /\ \A i \in 1 .. TakenCount : commands'[i] = commands[i]
      /\ \A k : LastCalled(k)' = LastCalled(k)
  BY <1>1, NothingTaken
<1>3. Queued /\ Pooled /\ Waited /\ Copied
  BY DEF AppInv
<1>4. values \in Seq(Int) /\ Len(values) = 1 /\ control = <<>>
  BY <1>1, <1>3 DEF Waited
<1>5. values' = <<>>
  BY <1>1, <1>4
<1>6. Len(control') = 0 /\ \A j \in 1 .. Len(control') : FALSE
  <2>1. control' = <<>>
    BY <1>1, <1>4
  <2>2. Len(control') = 0
    BY <2>1
  <2>3. 1 .. 0 = {}
    OBVIOUS
  <2> QED BY <2>2, <2>3
<1>7. <<>> \in Seq(Int)
  OBVIOUS
<1>8. Waited'
  BY <1>5, <1>6, <1>7 DEF Waited
<1>9. Copied'
  BY <1>1, <1>2, <1>3, <1>5 DEF Copied
<1>10. Pooled'
  BY <1>1, <1>2, <1>3, PooledSame
<1> QED BY <1>2, <1>8, <1>9, <1>10 DEF AppInv

\* While a command is in the pipe no value is.
LEMMA TakenWaits ==
    ASSUME AppInv, control # <<>>, control' = Tail(control), UNCHANGED <<commands, getting>>
    PROVE  values = <<>> /\ (values' = values => Waited')
<1>1. Queued /\ Waited
  BY DEF AppInv
<1>2. values = <<>>
  BY <1>1 DEF Waited
<1>3. /\ Len(control') = Len(control) - 1 /\ Len(control) \in Nat
      /\ \A j \in 1 .. Len(control') : control'[j] = control[j + 1] /\ j + 1 \in 1 .. Len(control)
  BY <1>1, TakesCommand
<1>4. ASSUME NEW j \in 1 .. Len(control'), control'[j].command = "GET"
      PROVE  j = Len(control') /\ getting
  <2>1. control[j + 1].command = "GET" /\ j + 1 \in 1 .. Len(control)
    BY <1>3, <1>4
  <2>2. j + 1 = Len(control) /\ getting
    BY <1>1, <2>1 DEF Waited
  <2>3. j \in Int
    OBVIOUS
  <2>4. j = Len(control) - 1
    <3>1. Len(control) \in Int
      BY <1>3
    <3> QED BY <2>2, <2>3, <3>1
  <2>5. Len(control') = Len(control) - 1
    BY <1>3
  <2> QED BY <2>2, <2>4, <2>5
<1>5. values' = values => Waited'
  BY <1>1, <1>2, <1>4 DEF Waited
<1> QED BY <1>2, <1>5

\* The servers of the pool, when a command is taken.
LEMMA OldServers ==
    ASSUME AppInv, control # <<>>, control' = Tail(control), UNCHANGED commands,
           \A n \in 1 .. Len(pool) : pool'[n] = pool[n],
           \A n \in 1 .. Len(pool) :
             pushed'[n] = IF commands[TakenCount + 1].command = "SET"
                          THEN Append(pushed[n], TakenCount + 1) ELSE pushed[n]
    PROVE  \A n \in 1 .. Len(pool) : \E i \in At("CONNECT")' : Connected(n, i)'
<1>1. Queued /\ Pooled
  BY DEF AppInv
<1>2. \A kind : At(kind)' = IF commands[TakenCount + 1].command = kind
                            THEN At(kind) \cup {TakenCount + 1} ELSE At(kind)
  BY <1>1, TakesCommand
<1> SUFFICES ASSUME NEW n \in 1 .. Len(pool) PROVE \E i \in At("CONNECT")' : Connected(n, i)'
  OBVIOUS
<1>3. PICK i \in At("CONNECT") : Connected(n, i)
  BY <1>1 DEF Pooled
<1>4. pushed[n] \in Seq(Nat)
  <2>1. pushed \in Seq(Seq(Nat)) /\ Len(pushed) = Len(pool)
    BY <1>1 DEF Pooled
  <2> QED BY <2>1
<1>5. /\ \A kind : At(kind)' = At(kind) \/ At(kind)' = At(kind) \cup {TakenCount + 1}
      /\ \/ pushed'[n] = pushed[n] /\ At("SET")' = At("SET")
         \/ pushed'[n] = Append(pushed[n], TakenCount + 1) /\ At("SET")' = At("SET") \cup {TakenCount + 1}
  <2>1. \A kind : At(kind)' = At(kind) \/ At(kind)' = At(kind) \cup {TakenCount + 1}
    BY <1>2
  <2>2. At("SET")' = IF commands[TakenCount + 1].command = "SET" THEN At("SET") \cup {TakenCount + 1} ELSE At("SET")
    BY <1>2
  <2> QED BY <2>1, <2>2
<1>6. pool'[n].address = pool[n].address /\ pool'[n].filter = pool[n].filter /\ commands'[i] = commands[i]
  OBVIOUS
<1>7. Connected(n, i)' /\ i \in At("CONNECT")'
  BY <1>1, <1>3, <1>4, <1>5, <1>6, ConnectedKept
<1> QED BY <1>7

\* What every command that is taken does to the values of the keys.
LEMMA LatestTaken ==
    ASSUME AppInv, control # <<>>, control' = Tail(control), UNCHANGED commands, NEW k
    PROVE  LastCalled(k)' = IF commands[TakenCount + 1].command = "SET" /\ commands[TakenCount + 1].arg = k
                        THEN TakenCount + 1 ELSE LastCalled(k)
<1>1. Queued
  BY DEF AppInv
<1>2. At("SET")' = IF commands[TakenCount + 1].command = "SET" THEN At("SET") \cup {TakenCount + 1} ELSE At("SET")
  BY <1>1, TakesCommand
<1>3. CASE commands[TakenCount + 1].command = "SET"
  BY <1>1, <1>2, <1>3, LatestSet
<1>4. CASE commands[TakenCount + 1].command # "SET"
  <2>1. \A i \in 1 .. TakenCount : commands'[i] = commands[i]
    OBVIOUS
  <2> QED BY <1>1, <1>2, <1>4, <2>1, LatestKept
<1> QED BY <1>3, <1>4

\* The agent takes a SUBTREE.
LEMMA TakeSubtreeStep ==
    ASSUME AppInv, TakeSubtree PROVE AppInv'
<1>1. /\ control # <<>> /\ Head(control).command = "SUBTREE" /\ subtree' = Head(control).arg
      /\ control' = Tail(control)
      /\ UNCHANGED <<commands, getting, values, pool, agentState, cur_server, copy, foreign, pushed, unheard>>
  BY DEF TakeSubtree
<1>2. Queued /\ Pooled /\ Waited /\ Copied
  BY DEF AppInv
<1>3. /\ Queued' /\ commands[TakenCount + 1] \in AppCommand
      /\ Head(control).command = commands[TakenCount + 1].command
      /\ Head(control).arg = commands[TakenCount + 1].arg
      /\ \A kind : At(kind)' = IF commands[TakenCount + 1].command = kind
                               THEN At(kind) \cup {TakenCount + 1} ELSE At(kind)
  BY <1>1, <1>2, TakesCommand
<1>4. values = <<>> /\ Waited'
  BY <1>1, TakenWaits
<1>5. Copied'
  <2>1. \A k : LastCalled(k)' = LastCalled(k)
    BY <1>1, <1>3, LatestTaken
  <2> QED BY <1>1, <1>2, <1>4, <2>1 DEF Copied
<1>6. Pooled'
  <2>1. subtree' = IF At("SUBTREE")' = {} THEN "" ELSE "/client/"
    <3>1. At("SUBTREE")' # {} /\ subtree' = "/client/"
      BY <1>1, <1>3, CommandIs
    <3> QED BY <3>1
  <2>2. At("CONNECT")' = At("CONNECT")
    BY <1>1, <1>3
  <2>3. \A n \in 1 .. Len(pool) : \E i \in At("CONNECT")' : Connected(n, i)'
    BY <1>1, <1>3, OldServers
  <2> QED BY <1>1, <1>2, <2>1, <2>2, <2>3 DEF Pooled
<1> QED BY <1>3, <1>4, <1>5, <1>6 DEF AppInv

\* The agent answers a GET from its copy.
LEMMA TakeGetStep ==
    ASSUME AppInv, TakeGet PROVE AppInv'
<1>1. /\ control # <<>> /\ Head(control).command = "GET" /\ control' = Tail(control)
      /\ values' = Append(values, copy[Head(control).arg])
      /\ UNCHANGED <<commands, getting, subtree, pool, agentState, cur_server, copy, foreign, pushed, unheard>>
  BY DEF TakeGet
<1>2. Queued /\ Pooled /\ Waited /\ Copied
  BY DEF AppInv
<1>3. /\ Queued' /\ commands[TakenCount + 1] \in AppCommand
      /\ Head(control).command = commands[TakenCount + 1].command /\ Head(control) = control[1]
      /\ Head(control).arg = commands[TakenCount + 1].arg
      /\ Len(control') = Len(control) - 1 /\ Len(control) \in Nat /\ Len(control) > 0
      /\ \A kind : At(kind)' = IF commands[TakenCount + 1].command = kind
                               THEN At(kind) \cup {TakenCount + 1} ELSE At(kind)
  BY <1>1, <1>2, TakesCommand
\* It is the last command, and the application waits for it.
<1>4. Len(control) = 1 /\ getting
  <2>1. 1 \in 1 .. Len(control) /\ control[1].command = "GET"
    BY <1>1, <1>3
  <2> QED BY <1>2, <2>1 DEF Waited
<1>5. values = <<>>
  BY <1>1, TakenWaits
<1> DEFINE k == commands[Len(commands)].arg
<1>6. /\ TakenCount + 1 = Len(commands) /\ Len(commands) \in Nat /\ commands # <<>>
      /\ commands[Len(commands)].command = "GET" /\ k \in AppKey /\ Head(control).arg = k
  <2>1. TakenCount + 1 = Len(commands) /\ Len(commands) \in Nat /\ TakenCount \in Nat
    BY <1>2, <1>4, AtIs DEF TakenCount
  <2>2. commands # <<>>
    <3>1. Len(commands) > 0
      BY <2>1
    <3> QED BY <3>1
  <2> QED BY <1>1, <1>3, <2>1, <2>2, CommandIs
<1>7. copy[k] \in Int
  BY <1>2, <1>6 DEF Copied
<1>8. values' = <<copy[k]>> /\ Len(values') = 1 /\ Head(values') = copy[k] /\ values' \in Seq(Int)
  <2>1. values' = Append(<<>>, copy[k])
    BY <1>1, <1>5, <1>6
  <2> HIDE DEF k
  <2> QED BY <1>7, <2>1
<1>9. control' = <<>> /\ \A j \in 1 .. Len(control') : FALSE
  <2>1. control' \in Seq(Item) /\ Len(control') = 0
    BY <1>3, <1>4 DEF Queued
  <2>2. 1 .. 0 = {}
    OBVIOUS
  <2> QED BY <2>1, <2>2
<1>10. Waited'
  BY <1>1, <1>4, <1>6, <1>8, <1>9 DEF Waited
<1>11. \A key : LastCalled(key)' = LastCalled(key)
  BY <1>1, <1>3, LatestTaken
<1>12. Copied'
  <2>1. k \notin foreign => copy[k] = LastCalled(k)
    BY <1>2, <1>6 DEF Copied
  <2>2. copy' \in [AppKey -> Int] /\ \A key \in AppKey : key \notin foreign' => copy'[key] = LastCalled(key)'
    BY <1>1, <1>2, <1>11 DEF Copied
  <2>3. commands'[Len(commands')].arg = k /\ LastCalled(k)' = LastCalled(k)
    BY <1>1, <1>11
  <2>4. values' # <<>> /\ commands'[Len(commands')].arg \notin foreign'
           => Head(values') = LastCalled(commands[Len(commands)].arg)'
    BY <1>1, <1>8, <1>11, <2>1
  <2> QED BY <2>2, <2>4 DEF Copied
<1>13. Pooled'
  <2>1. At("SUBTREE")' = At("SUBTREE") /\ At("CONNECT")' = At("CONNECT")
    BY <1>1, <1>3
  <2>2. \A n \in 1 .. Len(pool) : \E i \in At("CONNECT")' : Connected(n, i)'
    BY <1>1, <1>3, OldServers
  <2> QED BY <1>1, <1>2, <2>1, <2>2 DEF Pooled
<1> QED BY <1>3, <1>10, <1>12, <1>13 DEF AppInv

\* The agent takes a SET: into its copy, and on to each connection.
LEMMA TakeSetStep ==
    ASSUME AppInv, TakeSet PROVE AppInv'
<1>1. /\ control # <<>> /\ Head(control).command = "SET" /\ control' = Tail(control)
      /\ copy' = [copy EXCEPT ![Head(control).arg] = Head(control).value]
      /\ foreign' = foreign \ {Head(control).arg}
      /\ pushed' = [i \in DOMAIN pool |-> Append(pushed[i], Head(control).value)]
      /\ UNCHANGED <<commands, getting, values, subtree, pool, agentState, cur_server, unheard>>
  BY DEF TakeSet
<1>2. Queued /\ Pooled /\ Waited /\ Copied
  BY DEF AppInv
<1>3. /\ Queued' /\ commands[TakenCount + 1] \in AppCommand
      /\ Head(control).command = commands[TakenCount + 1].command
      /\ Head(control).arg = commands[TakenCount + 1].arg /\ Head(control).value = TakenCount + 1
      /\ \A kind : At(kind)' = IF commands[TakenCount + 1].command = kind
                               THEN At(kind) \cup {TakenCount + 1} ELSE At(kind)
  BY <1>1, <1>2, TakesCommand
<1>4. values = <<>> /\ Waited'
  BY <1>1, TakenWaits
<1> DEFINE key == commands[TakenCount + 1].arg
<1>5. key \in AppKey /\ TakenCount \in Nat
  BY <1>1, <1>2, <1>3, CommandIs, AtIs
<1>6. \A k : LastCalled(k)' = IF key = k THEN TakenCount + 1 ELSE LastCalled(k)
  BY <1>1, <1>3, LatestTaken
<1>7. Copied'
  <2>1. copy' = [copy EXCEPT ![key] = TakenCount + 1] /\ foreign' = foreign \ {key}
    BY <1>1, <1>3
  <2>2. copy \in [AppKey -> Int] /\ \A k \in AppKey : k \notin foreign => copy[k] = LastCalled(k)
    BY <1>2 DEF Copied
  <2> HIDE DEF key
  <2>3. copy' \in [AppKey -> Int]
    BY <1>5, <2>1, <2>2
  <2>4. \A k \in AppKey : k \notin foreign' => copy'[k] = LastCalled(k)'
    <3> SUFFICES ASSUME NEW k \in AppKey, k \notin foreign' PROVE copy'[k] = LastCalled(k)'
      OBVIOUS
    <3>1. CASE k = key
      BY <1>5, <1>6, <2>1, <2>2, <3>1
    <3>2. CASE k # key
      BY <1>6, <2>1, <2>2, <3>2
    <3> QED BY <3>1, <3>2
  <2> QED BY <1>1, <1>4, <2>3, <2>4 DEF Copied
<1>8. Pooled'
  <2>1. At("SUBTREE")' = At("SUBTREE") /\ At("CONNECT")' = At("CONNECT")
    BY <1>1, <1>3
  <2>2. pool \in Seq(PoolServer) /\ Len(pool) \in Nat /\ DOMAIN pool = 1 .. Len(pool)
        /\ pushed \in Seq(Seq(Nat)) /\ Len(pushed) = Len(pool)
    <3>1. pool \in Seq(PoolServer) /\ pushed \in Seq(Seq(Nat)) /\ Len(pushed) = Len(pool)
      BY <1>2 DEF Pooled
    <3> QED BY <3>1
  <2>3. pushed' = [i \in 1 .. Len(pool) |-> Append(pushed[i], TakenCount + 1)]
    BY <1>1, <1>3, <2>2
  <2>4. \A i \in 1 .. Len(pool) : pushed[i] \in Seq(Nat) /\ Append(pushed[i], TakenCount + 1) \in Seq(Nat)
    BY <1>5, <2>2
  <2>5. pushed' \in Seq(Seq(Nat)) /\ Len(pushed') = Len(pool)
    BY <2>2, <2>3, <2>4
  <2>6. \A n \in 1 .. Len(pool) :
             pushed'[n] = IF commands[TakenCount + 1].command = "SET"
                          THEN Append(pushed[n], TakenCount + 1) ELSE pushed[n]
    BY <1>1, <1>3, <2>3
  <2>7. \A n \in 1 .. Len(pool) : \E i \in At("CONNECT")' : Connected(n, i)'
    BY <1>1, <2>6, OldServers
  <2> QED BY <1>1, <1>2, <2>1, <2>5, <2>7 DEF Pooled
<1> QED BY <1>3, <1>4, <1>7, <1>8 DEF AppInv

\* A sequence with one element more.
LEMMA Longer ==
    ASSUME NEW S, NEW q \in Seq(S), NEW e \in S
    PROVE  /\ Append(q, e) \in Seq(S) /\ Len(Append(q, e)) = Len(q) + 1
           /\ \A i \in 1 .. Len(q) : Append(q, e)[i] = q[i]
           /\ Append(q, e)[Len(q) + 1] = e
  OBVIOUS

\* The agent takes a CONNECT: the first two are its pool.
LEMMA TakeConnectStep ==
    ASSUME AppInv, TakeConnect PROVE AppInv'
<1>1. /\ control # <<>> /\ Head(control).command = "CONNECT" /\ control' = Tail(control)
      /\ UNCHANGED <<commands, getting, values, subtree, agentState, cur_server, copy, foreign>>
      /\ IF Len(pool) < SERVER_MAX
         THEN /\ pool' = Append(pool, [address |-> Head(control).arg, filter |-> subtree, requests |-> 0])
              /\ pushed' = Append(pushed, <<>>)
              /\ unheard' = Append(unheard, 0)
         ELSE UNCHANGED <<pool, pushed, unheard>>
  BY DEF TakeConnect
<1>2. Queued /\ Pooled /\ Waited /\ Copied
  BY DEF AppInv
<1>3. /\ Queued' /\ commands[TakenCount + 1] \in AppCommand
      /\ Head(control).command = commands[TakenCount + 1].command
      /\ Head(control).arg = commands[TakenCount + 1].arg
      /\ \A kind : At(kind)' = IF commands[TakenCount + 1].command = kind
                               THEN At(kind) \cup {TakenCount + 1} ELSE At(kind)
  BY <1>1, <1>2, TakesCommand
<1>4. values = <<>> /\ Waited'
  BY <1>1, TakenWaits
<1>5. Copied'
  <2>1. \A k : LastCalled(k)' = LastCalled(k)
    BY <1>1, <1>3, LatestTaken
  <2> QED BY <1>1, <1>2, <1>4, <2>1 DEF Copied
<1> DEFINE c == Cardinality(At("CONNECT"))
<1>6. /\ At("CONNECT")' = At("CONNECT") \cup {TakenCount + 1} /\ At("SUBTREE")' = At("SUBTREE")
      /\ At("SET")' = At("SET")
  BY <1>1, <1>3
<1>7. c \in Nat /\ Cardinality(At("CONNECT")') = c + 1
  <2>1. IsFiniteSet(At("CONNECT")) /\ TakenCount + 1 \notin At("CONNECT") /\ c \in Nat
    BY <1>2, AtFinite
  <2>2. Cardinality(At("CONNECT") \cup {TakenCount + 1}) = c + 1
    BY <2>1, FS_AddElement
  <2> QED BY <1>6, <2>1, <2>2
<1>8. /\ pool \in Seq(PoolServer) /\ pushed \in Seq(Seq(Nat)) /\ unheard \in Seq(0 .. 2)
      /\ Len(pool) \in Nat /\ Len(pushed) = Len(pool) /\ Len(unheard) = Len(pool)
      /\ Len(pool) = IF c < 2 THEN c ELSE 2
  <2>1. /\ pool \in Seq(PoolServer) /\ pushed \in Seq(Seq(Nat)) /\ unheard \in Seq(0 .. 2)
        /\ Len(pushed) = Len(pool) /\ Len(unheard) = Len(pool)
    BY <1>2 DEF Pooled
  <2>2. Len(pool) = IF c < 2 THEN c ELSE 2
    BY <1>2 DEF Pooled
  <2> QED BY <2>1, <2>2
<1>9. subtree' = IF At("SUBTREE")' = {} THEN "" ELSE "/client/"
  BY <1>1, <1>2, <1>6 DEF Pooled
\* The pool is full.
<1>10. CASE ~ (Len(pool) < 2)
  <2>1. UNCHANGED <<pool, pushed, unheard>>
    BY <1>1, <1>10 DEF SERVER_MAX
  <2>2. \A n \in 1 .. Len(pool) : \E i \in At("CONNECT")' : Connected(n, i)'
    BY <1>1, <1>3, <2>1, OldServers
  <2>3. Len(pool) = IF c + 1 < 2 THEN c + 1 ELSE 2
    BY <1>7, <1>8, <1>10
  <2>4. Pooled'
    BY <1>1, <1>2, <1>7, <1>9, <2>1, <2>2, <2>3 DEF Pooled
  <2> QED BY <1>3, <1>4, <1>5, <2>4 DEF AppInv
\* The server comes to the pool, with the subtree of this moment.
<1>11. CASE Len(pool) < 2
  <2> DEFINE e == [address |-> commands[TakenCount + 1].arg, filter |-> subtree, requests |-> 0]
  <2>1. /\ pool' = Append(pool, e) /\ pushed' = Append(pushed, <<>>) /\ unheard' = Append(unheard, 0)
    BY <1>1, <1>3, <1>11 DEF SERVER_MAX
  <2>2. e \in PoolServer /\ e.address = commands[TakenCount + 1].arg /\ e.filter = subtree /\ e.requests = 0
    <3>1. commands[TakenCount + 1].arg \in Endpoint
      BY <1>1, <1>3, CommandIs
    <3>2. subtree \in {"", "/client/"}
      BY <1>1, <1>6, <1>9
    <3>3. 0 \in 0 .. 2
      OBVIOUS
    <3> QED BY <3>1, <3>2, <3>3 DEF PoolServer
  <2> HIDE DEF e
  <2>3. /\ pool' \in Seq(PoolServer) /\ Len(pool') = Len(pool) + 1
        /\ \A n \in 1 .. Len(pool) : pool'[n] = pool[n]
        /\ pool'[Len(pool) + 1] = e
    <3>1. e \in PoolServer
      BY <2>2
    <3>2. pool \in Seq(PoolServer) /\ pool' = Append(pool, e)
      BY <1>8, <2>1
    <3>3. /\ Append(pool, e) \in Seq(PoolServer) /\ Len(Append(pool, e)) = Len(pool) + 1
          /\ \A i \in 1 .. Len(pool) : Append(pool, e)[i] = pool[i]
          /\ Append(pool, e)[Len(pool) + 1] = e
      BY <3>1, <3>2, Longer
    <3>4. Len(pool) = Len(pool)
      BY <1>8
    <3> QED BY <3>2, <3>3, <3>4
  <2>4. /\ pushed' \in Seq(Seq(Nat)) /\ Len(pushed') = Len(pool) + 1
        /\ \A n \in 1 .. Len(pool) : pushed'[n] = pushed[n]
        /\ pushed'[Len(pool) + 1] = <<>>
    <3>1. <<>> \in Seq(Nat)
      OBVIOUS
    <3>2. pushed \in Seq(Seq(Nat)) /\ pushed' = Append(pushed, <<>>)
      BY <1>8, <2>1
    <3>3. /\ Append(pushed, <<>>) \in Seq(Seq(Nat)) /\ Len(Append(pushed, <<>>)) = Len(pushed) + 1
          /\ \A i \in 1 .. Len(pushed) : Append(pushed, <<>>)[i] = pushed[i]
          /\ Append(pushed, <<>>)[Len(pushed) + 1] = <<>>
      BY <3>1, <3>2, Longer
    <3>4. Len(pushed) = Len(pool)
      BY <1>8
    <3> QED BY <3>2, <3>3, <3>4
  <2>5. /\ unheard' \in Seq(0 .. 2) /\ Len(unheard') = Len(pool) + 1
        /\ \A n \in 1 .. Len(pool) : unheard'[n] = unheard[n]
        /\ unheard'[Len(pool) + 1] = 0
    <3>1. 0 \in 0 .. 2
      OBVIOUS
    <3>2. unheard \in Seq(0 .. 2) /\ unheard' = Append(unheard, 0)
      BY <1>8, <2>1
    <3>3. /\ Append(unheard, 0) \in Seq(0 .. 2) /\ Len(Append(unheard, 0)) = Len(unheard) + 1
          /\ \A i \in 1 .. Len(unheard) : Append(unheard, 0)[i] = unheard[i]
          /\ Append(unheard, 0)[Len(unheard) + 1] = 0
      BY <3>1, <3>2, Longer
    <3>4. Len(unheard) = Len(pool)
      BY <1>8
    <3> QED BY <3>2, <3>3, <3>4
  <2>6. \A n \in 1 .. Len(pool') : n \in 1 .. Len(pool) \/ n = Len(pool) + 1
    BY <1>8, <2>3
  <2>7. c = Len(pool) /\ Len(pool') = c + 1 /\ c + 1 <= 2
    BY <1>7, <1>8, <1>11, <2>3
  <2>8. \A n \in 1 .. Len(pool) : \E i \in At("CONNECT")' : Connected(n, i)'
    BY <1>1, <1>3, <2>3, <2>4, OldServers
  <2>9. ASSUME NEW n, n = Len(pool) + 1 PROVE \E i \in At("CONNECT")' : Connected(n, i)'
    <3>1. TakenCount \in Nat /\ \A kind : At(kind) \subseteq 1 .. TakenCount
      BY <1>2, AtIs, AtFinite
    <3>2. {j \in At("CONNECT")' : j <= TakenCount + 1} = At("CONNECT")'
      <4>1. \A j \in At("CONNECT")' : j <= TakenCount + 1
        BY <1>6, <3>1
      <4> QED BY <4>1
    <3>3. (\E j \in At("SUBTREE")' : j < TakenCount + 1) <=> At("SUBTREE") # {}
      <4>1. \A j \in At("SUBTREE") : j < TakenCount + 1
        BY <3>1
      <4> QED BY <1>6, <4>1
    <3>4. {j \in At("SET")' : j > TakenCount + 1} = {}
      <4>1. \A j \in At("SET") : ~ (j > TakenCount + 1)
        BY <3>1
      <4> QED BY <1>6, <4>1
    <3>5. DOMAIN pushed'[n] = {} /\ ToSet(pushed'[n]) = {}
      <4>1. pushed'[n] = <<>>
        BY <2>4, <2>9
      <4>2. DOMAIN pushed'[n] = {}
        BY <4>1
      <4> QED BY <4>2 DEF ToSet
    <3>6. pool'[n].address = commands'[TakenCount + 1].arg /\ pool'[n].filter = subtree
      BY <1>1, <2>2, <2>3, <2>9
    <3>7. subtree = IF \E j \in At("SUBTREE")' : j < TakenCount + 1 THEN "/client/" ELSE ""
      BY <1>2, <3>3 DEF Pooled
    <3>8. Cardinality({j \in At("CONNECT")' : j <= TakenCount + 1}) = n
      BY <1>7, <2>7, <2>9, <3>2
    <3>9. TakenCount + 1 \in At("CONNECT")'
      BY <1>6
    <3>10. PICK t : t = TakenCount + 1
      OBVIOUS
    <3>11. Connected(n, t)'
      BY <3>4, <3>5, <3>6, <3>7, <3>8, <3>10 DEF Connected
    <3> QED BY <3>9, <3>10, <3>11
  <2>10. \A n \in 1 .. Len(pool') : \E i \in At("CONNECT")' : Connected(n, i)'
    BY <2>6, <2>8, <2>9
  <2>11. \A n \in 1 .. Len(pool') : unheard'[n] = pool'[n].requests
    <3>1. \A n \in 1 .. Len(pool) : unheard[n] = pool[n].requests
      BY <1>2 DEF Pooled
    <3> QED BY <2>2, <2>3, <2>5, <2>6, <3>1
  <2>12. cur_server' \in 1 .. 2 /\ pool' # <<>> /\ cur_server' <= Len(pool')
    <3>1. cur_server \in 1 .. 2 /\ IF pool = <<>> THEN cur_server = 1 ELSE cur_server <= Len(pool)
      BY <1>2 DEF Pooled
    <3>2. pool' # <<>>
      <4>1. Len(pool') > 0
        BY <1>8, <2>3
      <4> QED BY <2>3, <4>1
    <3>3. cur_server <= Len(pool) + 1
      BY <1>8, <3>1
    <3> QED BY <1>1, <2>3, <3>1, <3>2, <3>3
  <2>13. /\ Len(pool') <= 2 /\ Len(pushed') = Len(pool') /\ Len(unheard') = Len(pool')
         /\ Len(pool') = IF Cardinality(At("CONNECT")') < 2 THEN Cardinality(At("CONNECT")') ELSE 2
    BY <1>7, <2>3, <2>4, <2>5, <2>7
  <2>14. Pooled'
    BY <1>9, <2>3, <2>4, <2>5, <2>10, <2>11, <2>12, <2>13 DEF Pooled
  <2> QED BY <1>3, <1>4, <1>5, <2>14 DEF AppInv
<1> QED BY <1>10, <1>11

\* The server that the agent talks to, and the pool when its requests change.
LEMMA CurrentIs ==
    ASSUME AppInv, pool # <<>>
    PROVE  /\ pool \in Seq(PoolServer) /\ Len(pool) \in Nat /\ DOMAIN pool = 1 .. Len(pool)
           /\ unheard \in Seq(0 .. 2) /\ Len(unheard) = Len(pool) /\ DOMAIN unheard = 1 .. Len(pool)
           /\ cur_server \in 1 .. 2 /\ cur_server \in 1 .. Len(pool) /\ Len(pool) <= 2
           /\ \A n \in 1 .. Len(pool) : /\ unheard[n] = pool[n].requests /\ pool[n] \in PoolServer
                                        /\ pool[n].requests \in 0 .. 2
<1>1. /\ pool \in Seq(PoolServer) /\ unheard \in Seq(0 .. 2) /\ Len(unheard) = Len(pool)
      /\ cur_server \in 1 .. 2 /\ cur_server <= Len(pool) /\ Len(pool) <= 2
      /\ \A n \in 1 .. Len(pool) : unheard[n] = pool[n].requests
  BY DEF AppInv, Pooled
<1>2. Len(pool) \in Nat /\ DOMAIN pool = 1 .. Len(pool) /\ DOMAIN unheard = 1 .. Len(pool)
  BY <1>1
<1>3. \A n \in 1 .. Len(pool) : pool[n] \in PoolServer
  BY <1>1
<1>4. \A e \in PoolServer : e.requests \in 0 .. 2
  BY DEF PoolServer
<1> QED BY <1>1, <1>2, <1>3, <1>4

\* Requests of the server it talks to are counted on both sides.
LEMMA RequestsSet ==
    ASSUME AppInv, pool # <<>>, NEW r \in 0 .. 2,
           pool' = [pool EXCEPT ![cur_server].requests = r],
           unheard' = [unheard EXCEPT ![cur_server] = r],
           UNCHANGED <<commands, control, subtree, cur_server, pushed>>
    PROVE  Pooled'
<1>1. /\ pool \in Seq(PoolServer) /\ Len(pool) \in Nat /\ DOMAIN pool = 1 .. Len(pool)
      /\ unheard \in Seq(0 .. 2) /\ Len(unheard) = Len(pool) /\ DOMAIN unheard = 1 .. Len(pool)
      /\ cur_server \in 1 .. 2 /\ cur_server \in 1 .. Len(pool)
      /\ \A n \in 1 .. Len(pool) : /\ unheard[n] = pool[n].requests /\ pool[n] \in PoolServer
  BY CurrentIs
<1>2. \A e \in PoolServer : /\ [e EXCEPT !.requests = r] \in PoolServer
                       /\ [e EXCEPT !.requests = r].requests = r
                       /\ [e EXCEPT !.requests = r].address = e.address
                       /\ [e EXCEPT !.requests = r].filter = e.filter
  <2> SUFFICES ASSUME NEW e \in PoolServer
               PROVE  /\ [e EXCEPT !.requests = r] \in PoolServer
                      /\ [e EXCEPT !.requests = r].requests = r
                      /\ [e EXCEPT !.requests = r].address = e.address
                      /\ [e EXCEPT !.requests = r].filter = e.filter
    OBVIOUS
  <2>1. e.address \in Endpoint /\ e.filter \in {"", "/client/"}
        /\ e = [address |-> e.address, filter |-> e.filter, requests |-> e.requests]
    BY DEF PoolServer
  <2>2. [e EXCEPT !.requests = r] = [address |-> e.address, filter |-> e.filter, requests |-> r]
    <3>1. e = [address |-> e.address, filter |-> e.filter, requests |-> e.requests]
      BY <2>1
    <3> QED BY <3>1
  <2>3. [address |-> e.address, filter |-> e.filter, requests |-> r] \in PoolServer
    BY <2>1 DEF PoolServer
  <2> QED BY <2>2, <2>3
<1>3. pool' = [pool EXCEPT ![cur_server] = [pool[cur_server] EXCEPT !.requests = r]]
  OBVIOUS
<1>4. [pool[cur_server] EXCEPT !.requests = r] \in PoolServer
  BY <1>1, <1>2
<1>5. pool' \in Seq(PoolServer) /\ Len(pool') = Len(pool)
  BY <1>1, <1>3, <1>4
<1>6. unheard' \in Seq(0 .. 2) /\ Len(unheard') = Len(pool)
  BY <1>1
<1>7. ASSUME NEW n \in 1 .. Len(pool)
      PROVE  /\ pool'[n].address = pool[n].address /\ pool'[n].filter = pool[n].filter
             /\ unheard'[n] = pool'[n].requests
  <2>1. CASE n = cur_server
    <3>1. pool'[n] = [pool[n] EXCEPT !.requests = r] /\ unheard'[n] = r
      BY <1>1, <1>3, <2>1
    <3> QED BY <1>1, <1>2, <3>1
  <2>2. CASE n # cur_server
    <3>1. pool'[n] = pool[n] /\ unheard'[n] = unheard[n]
      BY <1>1, <1>3, <2>2
    <3> QED BY <1>1, <3>1
  <2> QED BY <2>1, <2>2
<1>8. Queued /\ Pooled
  BY DEF AppInv
<1>9. (\A kind : At(kind)' = At(kind)) /\ \A i \in 1 .. TakenCount : commands'[i] = commands[i]
  BY NothingTaken
<1>10. cur_server' \in 1 .. 2 /\ IF pool = <<>> THEN cur_server' = 1 ELSE cur_server' <= Len(pool)
  BY <1>1
<1> QED BY <1>5, <1>6, <1>7, <1>8, <1>9, <1>10, PooledKept

\* The parts that a step of the agent keeps when it only talks to its servers.
LEMMA TalkKeeps ==
    ASSUME AppInv, UNCHANGED <<commands, control, getting, values>>
    PROVE  /\ Queued' /\ Waited'
           /\ UNCHANGED <<copy, foreign>> => Copied'
           /\ \A k \in AppKey : Overwrite(k) => Copied'
<1>1. Queued' /\ \A k : LastCalled(k)' = LastCalled(k)
  BY NothingTaken
<1>2. Waited /\ Copied
  BY DEF AppInv
<1>3. Waited'
  BY <1>2 DEF Waited
<1>4. UNCHANGED <<copy, foreign>> => Copied'
  BY <1>1, <1>2 DEF Copied
<1>5. ASSUME NEW k \in AppKey, Overwrite(k) PROVE Copied'
  <2>1. copy' = [copy EXCEPT ![k] = -1] /\ foreign' = foreign \cup {k} /\ copy \in [AppKey -> Int]
    BY <1>2, <1>5 DEF Overwrite, Copied
  <2>2. copy' \in [AppKey -> Int]
    BY <2>1
  <2>3. \A key \in AppKey : key \notin foreign' => copy'[key] = LastCalled(key)'
    BY <1>1, <1>2, <2>1 DEF Copied
  <2>4. values' # <<>> /\ commands'[Len(commands')].arg \notin foreign'
           => Head(values') = LastCalled(commands[Len(commands)].arg)'
    BY <1>1, <1>2, <2>1 DEF Copied
  <2> QED BY <2>2, <2>3, <2>4 DEF Copied
<1> QED BY <1>1, <1>3, <1>4, <1>5

\* The agent asks for a snapshot.
LEMMA AskSnapshotStep ==
    ASSUME AppInv, AskSnapshot PROVE AppInv'
<1>1. /\ pool # <<>>
      /\ IF pool[cur_server].requests < 2
         THEN /\ pool' = [pool EXCEPT ![cur_server].requests = pool[cur_server].requests + 1]
              /\ unheard' = [unheard EXCEPT ![cur_server] = unheard[cur_server] + 1]
         ELSE UNCHANGED <<pool, unheard>>
      /\ UNCHANGED <<commands, control, getting, values, subtree, cur_server, copy, foreign, pushed>>
  BY DEF AskSnapshot
<1>2. Queued' /\ Waited' /\ Copied'
  BY <1>1, TalkKeeps
<1>3. CASE pool[cur_server].requests < 2
  <2> DEFINE r == pool[cur_server].requests + 1
  <2>1. unheard[cur_server] = pool[cur_server].requests /\ pool[cur_server].requests \in 0 .. 2
    BY <1>1, CurrentIs
  <2>2. r \in 0 .. 2 /\ unheard[cur_server] + 1 = r
    BY <1>3, <2>1
  <2>3. pool' = [pool EXCEPT ![cur_server].requests = r] /\ unheard' = [unheard EXCEPT ![cur_server] = r]
    BY <1>1, <1>3, <2>2
  <2> HIDE DEF r
  <2>4. Pooled'
    BY <1>1, <2>2, <2>3, RequestsSet
  <2> QED BY <1>2, <2>4 DEF AppInv
<1>4. CASE ~ (pool[cur_server].requests < 2)
  <2>1. UNCHANGED <<pool, unheard>>
    BY <1>1, <1>4
  <2>2. (\A kind : At(kind)' = At(kind)) /\ \A i \in 1 .. TakenCount : commands'[i] = commands[i]
    BY <1>1, NothingTaken
  <2>3. Pooled'
    BY <1>1, <2>1, <2>2, PooledSame DEF AppInv
  <2> QED BY <1>2, <2>3 DEF AppInv
<1> QED BY <1>3, <1>4

\* A value of the server comes into the copy.
LEMMA FromServerStep ==
    ASSUME AppInv, FromServer PROVE AppInv'
<1>1. /\ pool # <<>>
      /\ \/ /\ pool' = [pool EXCEPT ![cur_server].requests = 0]
            /\ unheard' = [unheard EXCEPT ![cur_server] = 0]
         \/ UNCHANGED <<pool, unheard>>
      /\ UNCHANGED <<copy, foreign>> \/ \E k \in AppKey : Overwrite(k)
      /\ UNCHANGED <<commands, control, getting, values, subtree, cur_server, pushed>>
  BY DEF FromServer
<1>2. Queued' /\ Waited' /\ Copied'
  BY <1>1, TalkKeeps
<1>3. CASE /\ pool' = [pool EXCEPT ![cur_server].requests = 0]
           /\ unheard' = [unheard EXCEPT ![cur_server] = 0]
  <2>1. 0 \in 0 .. 2
    OBVIOUS
  <2>2. Pooled'
    BY <1>1, <1>3, <2>1, RequestsSet
  <2> QED BY <1>2, <2>2 DEF AppInv
<1>4. CASE UNCHANGED <<pool, unheard>>
  <2>1. (\A kind : At(kind)' = At(kind)) /\ \A i \in 1 .. TakenCount : commands'[i] = commands[i]
    BY <1>1, NothingTaken
  <2>2. Pooled'
    BY <1>1, <1>4, <2>1, PooledSame DEF AppInv
  <2> QED BY <1>2, <2>2 DEF AppInv
<1> QED BY <1>1, <1>3, <1>4

\* The agent turns to its other server.
LEMMA NextServerStep ==
    ASSUME AppInv, NextServer PROVE AppInv'
<1>1. /\ pool # <<>> /\ cur_server' = (cur_server % Len(pool)) + 1
      /\ UNCHANGED <<commands, control, getting, values, subtree, pool, copy, foreign, pushed, unheard>>
  BY DEF NextServer
<1>2. Queued' /\ Waited' /\ Copied'
  BY <1>1, TalkKeeps
<1>3. Queued /\ Pooled
  BY DEF AppInv
<1>4. /\ (\A kind : At(kind)' = At(kind)) /\ \A i \in 1 .. TakenCount : commands'[i] = commands[i]
  BY <1>1, NothingTaken
<1>5. cur_server \in 1 .. 2 /\ Len(pool) \in 1 .. 2
  <2>1. cur_server \in 1 .. 2 /\ cur_server \in 1 .. Len(pool) /\ Len(pool) <= 2 /\ Len(pool) \in Nat
    BY <1>1, CurrentIs
  <2>2. Len(pool) \in Nat /\ Len(pool) <= 2 /\ 1 <= Len(pool)
    BY <2>1
  <2>3. \A k \in Nat : k <= 2 /\ 1 <= k => k \in 1 .. 2
    OBVIOUS
  <2>4. Len(pool) \in 1 .. 2
    BY <2>2, <2>3
  <2> QED BY <2>1, <2>4
<1>6. cur_server' \in 1 .. 2 /\ cur_server' <= Len(pool)
  <2>1. Len(pool) = 1 \/ Len(pool) = 2
    BY <1>5
  <2>2. \A x \in 1 .. 2 : x % 1 = 0 /\ x % 2 \in 0 .. 1
    OBVIOUS
  <2>3. CASE Len(pool) = 1
    <3>1. cur_server % 1 = 0
      BY <1>5, <2>2
    <3>2. cur_server' = 1
      BY <1>1, <2>3, <3>1
    <3> QED BY <2>3, <3>2
  <2>4. CASE Len(pool) = 2
    <3>1. cur_server % 2 \in 0 .. 1
      BY <1>5, <2>2
    <3>2. cur_server' = (cur_server % 2) + 1
      BY <1>1, <2>4
    <3> QED BY <2>4, <3>1, <3>2
  <2> QED BY <2>1, <2>3, <2>4
<1>7. /\ pool' \in Seq(PoolServer) /\ unheard' \in Seq(0 .. 2)
      /\ Len(pool') = Len(pool) /\ Len(unheard') = Len(pool)
      /\ \A n \in 1 .. Len(pool) : /\ pool'[n].address = pool[n].address
                                   /\ pool'[n].filter = pool[n].filter
                                   /\ unheard'[n] = pool'[n].requests
  BY <1>1, <1>3 DEF Pooled
<1>8. IF pool = <<>> THEN cur_server' = 1 ELSE cur_server' <= Len(pool)
  BY <1>1, <1>6
<1>9. Pooled'
  BY <1>1, <1>3, <1>4, <1>6, <1>7, <1>8, PooledKept
<1> QED BY <1>2, <1>9 DEF AppInv

\* Every step of the application, the agent or a server keeps the invariant.
LEMMA AppInvStep ==
    ASSUME AppInv, [AppNext]_appVars PROVE AppInv'
<1>1. CASE AppCall
  BY <1>1, AppCallStep
<1>2. CASE AppGot
  BY <1>2, AppGotStep
<1>3. CASE TakeSubtree
  BY <1>3, TakeSubtreeStep
<1>4. CASE TakeConnect
  BY <1>4, TakeConnectStep
<1>5. CASE TakeSet
  BY <1>5, TakeSetStep
<1>6. CASE TakeGet
  BY <1>6, TakeGetStep
<1>7. CASE AskSnapshot
  BY <1>7, AskSnapshotStep
<1>8. CASE FromServer
  BY <1>8, FromServerStep
<1>9. CASE NextServer
  BY <1>9, NextServerStep
<1>10. CASE UNCHANGED appVars
  <2>1. UNCHANGED <<commands, control, getting, values, subtree, pool, agentState, cur_server, copy,
                    foreign, pushed, unheard>>
    BY <1>10 DEF appVars
  <2>2. Queued' /\ Waited' /\ Copied'
    BY <2>1, TalkKeeps
  <2>3. (\A kind : At(kind)' = At(kind)) /\ \A i \in 1 .. TakenCount : commands'[i] = commands[i]
    BY <2>1, NothingTaken
  <2>4. Pooled'
    BY <2>1, <2>3, PooledSame DEF AppInv
  <2> QED BY <2>2, <2>4 DEF AppInv
<1> QED BY <1>1, <1>2, <1>3, <1>4, <1>5, <1>6, <1>7, <1>8, <1>9, <1>10 DEF AppNext

\* What the invariant says of the application's values and of the pool.
LEMMA AppInvMeans ==
    ASSUME AppInv PROVE AppSound
<1>1. Queued /\ Waited /\ Copied /\ Pooled
  BY DEF AppInv
<1>2. /\ Len(pool) = IF Cardinality(At("CONNECT")) < 2 THEN Cardinality(At("CONNECT")) ELSE 2
      /\ pool \in Seq(PoolServer) /\ unheard \in Seq(0 .. 2)
      /\ \A n \in 1 .. Len(pool) : \E i \in At("CONNECT") : Connected(n, i)
  BY <1>1 DEF Pooled
<1>3. DOMAIN pool = 1 .. Len(pool)
  <2>1. pool \in Seq(PoolServer)
    BY <1>2
  <2> QED BY <2>1
<1>4. \A n \in DOMAIN unheard : unheard[n] <= 2
  <2>1. \A n \in DOMAIN unheard : unheard[n] \in 0 .. 2
    BY <1>2
  <2> QED BY <2>1
<1>5. \A n \in DOMAIN pool :
         \E i \in At("CONNECT") :
            /\ Cardinality({j \in At("CONNECT") : j <= i}) = n
            /\ pool[n].address = commands[i].arg
            /\ pool[n].filter = IF \E j \in At("SUBTREE") : j < i THEN "/client/" ELSE ""
            /\ ToSet(pushed[n]) = {j \in At("SET") : j > i}
            /\ \A j, k \in DOMAIN pushed[n] : j < k => pushed[n][j] < pushed[n][k]
  BY <1>2, <1>3 DEF Connected
<1>6. Last(commands) = commands[Len(commands)]
  BY DEF Last
<1>7. values # <<>> =>
         LET k == Last(commands).arg
             mine == {i \in At("SET") : commands[i].arg = k}
         IN  k \notin foreign => Head(values) = IF mine = {} THEN NoValue
                                                ELSE CHOOSE i \in mine : \A j \in mine : j <= i
  BY <1>1, <1>6 DEF Copied, LastCalled, SetsOf
<1> QED BY <1>2, <1>4, <1>5, <1>7 DEF AppSound

\* For any application, servers and number of commands: what the application reads is what
\* it set last or what a server wrote since, and the pool is that of its first two
\* connections, each of which is sent all that is set from then on, in order.
THEOREM ApplicationServed == AppSpec => []AppSound
<1>1. AppInit => AppInv
  BY AppBegins
<1>2. AppInv /\ [AppNext]_appVars => AppInv'
  BY AppInvStep
<1>3. AppInv => AppSound
  BY AppInvMeans
<1> QED BY <1>1, <1>2, <1>3, PTL DEF AppSpec

----------------------------------------------------------------------------
(* The broker in C++ with its workers and its client. *)

CppSpec == CppInit /\ [][CppNext]_cppVars

CppMessage == [from : 0 .. MaxSessions, kind : {"READY", "REPLY", "HEARTBEAT", "echo", "mmi.service"},
               request : 0 .. MaxRequests]
CppApi == [id : 0 .. MaxSessions, at : {"new", "waiting", "busy", "ended"}, request : 0 .. MaxRequests,
           mail : Seq(0 .. Astray)]

\* Who is idle is in the service's list, once, and exists; the count is of those that exist.
Coherent(b) ==
    /\ b \in CppBroker
    /\ Once(b.list) /\ ToSet(b.list) = b.idle /\ b.idle \subseteq DOMAIN b.workers
    /\ b.count = Cardinality(DOMAIN b.workers)

\* No request waits beside an idle worker.
NoneWaits(b) == b.list = <<>> \/ b.requests = <<>>

\* The ROUTER has identity i: a worker has it, or it is that of a closed connection.
Had(i, a, c) == i \in c \/ \E w \in CppWorker : a[w].id = i

\* What a message of each kind says, where the ROUTER has its sender, and what a worker is
\* in each phase, where d are the identities each has drawn and those in c are of closed
\* connections.  No two workers have one identity.
PeersAre(q, a, d, c) ==
    /\ q \in Seq(CppMessage) /\ a \in [CppWorker -> CppApi]
    /\ d \in [CppWorker -> 0 .. MaxSessions] /\ c \subseteq Identity
    /\ \A k \in DOMAIN q :
         /\ q[k].kind \in {"READY", "HEARTBEAT"} => q[k].request = 0
         /\ q[k].kind \in {"READY", "HEARTBEAT", "REPLY"} => q[k].from \in Identity /\ Had(q[k].from, a, c)
         /\ q[k].kind \in {"REPLY", "echo", "mmi.service"} => q[k].request # 0
    /\ \A w \in CppWorker :
         /\ a[w].at \in {"new", "ended"} => a[w].id = 0
         /\ a[w].at = "busy" => a[w].id # 0
         /\ a[w].at = "busy" <=> a[w].request # 0
         /\ a[w].id \in 0 .. d[w]
    /\ \A w, v \in CppWorker : a[w].id = a[v].id /\ a[w].id # 0 => w = v

\* The requests in a worker's mail, and that who has an identity has none and works on none.
WorkIn(a)    == {k \in DOMAIN a.mail : a.mail[k] \notin {DISCONNECT, Astray}}
AtRest(a, i) == \A w \in CppWorker : a[w].id = i => a[w].at = "waiting" /\ WorkIn(a[w]) = {}

\* An identity is in one state of its exchange: it has replied, it is idle, its worker was
\* sent a request, or works on one.  Beside that it may have said READY: where the broker
\* does not know it, its worker waits and has replied to nothing; where the broker does,
\* the worker that has come back is in the exchange of the one before it.
Exchange(q, a, D, idle) ==
    /\ \A k, l \in DOMAIN q :
         /\ q[k].kind = "READY" /\ q[l].kind = "READY" /\ q[k].from = q[l].from => k = l
         /\ q[k].kind = "REPLY" /\ q[l].kind = "REPLY" /\ q[k].from = q[l].from => k = l
         /\ q[k].kind = "READY" /\ q[l].kind = "REPLY" /\ q[k].from = q[l].from => q[k].from \in D
    /\ \A k \in DOMAIN q :
         /\ q[k].kind = "REPLY" => q[k].from \notin idle /\ AtRest(a, q[k].from)
         /\ q[k].kind = "READY" /\ q[k].from \notin D => AtRest(a, q[k].from)
    /\ \A w \in CppWorker :
         /\ a[w].at = "busy" => WorkIn(a[w]) = {} /\ a[w].id \notin idle
         /\ WorkIn(a[w]) # {} => a[w].id # 0 /\ a[w].id \notin idle
         /\ \A j, k \in WorkIn(a[w]) : j = k

\* The requests in a socket, in the workers' hands and in their mail.
Boxed(q)   == {q[k].request : k \in DOMAIN q} \ {0}
InHand(a)    == {a[w].request : w \in CppWorker} \ {0}
Carried(a) == (UNION {ToSet(a[w].mail) : w \in CppWorker}) \ {DISCONNECT, Astray}

Apart(A, B, C, D, E, F) ==
    /\ A \cap B = {} /\ A \cap C = {} /\ A \cap D = {} /\ A \cap E = {} /\ A \cap F = {}
    /\ B \cap C = {} /\ B \cap D = {} /\ B \cap E = {} /\ B \cap F = {}
    /\ C \cap D = {} /\ C \cap E = {} /\ C \cap F = {}
    /\ D \cap E = {} /\ D \cap F = {} /\ E \cap F = {}

\* A request is in one of the six places, and there once.
Spread(q, requests, m, g, a, n) ==
    /\ requests \in Seq(CppRequest) /\ m \in Seq(CppRequest) /\ g \in Seq(CppRequest)
    /\ Apart(Boxed(q), ToSet(requests), ToSet(m), ToSet(g), InHand(a), Carried(a))
    /\ Boxed(q) \cup ToSet(requests) \cup ToSet(m) \cup ToSet(g) \cup InHand(a) \cup Carried(a) \subseteq 1 .. n
    /\ \A k, l \in DOMAIN q : q[k].request = q[l].request /\ q[k].request # 0 => k = l
    /\ Once(requests) /\ Once(m) /\ Once(g)
    /\ \A w, v \in CppWorker : a[w].request = a[v].request /\ a[w].request # 0 => w = v
    /\ \A w, v \in CppWorker : \A k \in WorkIn(a[w]), l \in WorkIn(a[v]) : a[w].mail[k] = a[v].mail[l] => w = v

CppInv ==
    /\ Coherent(cpp) /\ NoneWaits(cpp) /\ cpp.out = <<>>
    /\ mdcli \in {"new", "linked", "astray", "refused", "ended"} /\ asked \in 0 .. MaxRequests
    /\ PeersAre(inbox, api, given, closing)
    /\ Exchange(inbox, api, DOMAIN cpp.workers, cpp.idle)
    /\ Spread(inbox, cpp.requests, mail, got, api, asked)

\* Each place has one position of a set of positions.
LEMMA Rank ==
    ASSUME NEW m \in Nat, NEW K \in SUBSET (1 .. m)
    PROVE  /\ IsFiniteSet(K) /\ Cardinality(K) \in Nat /\ Cardinality(K) <= m
           /\ \A n \in 1 .. Cardinality(K) : \E k \in K : Cardinality({j \in K : j <= k}) = n
           /\ \A k \in K : Cardinality({j \in K : j <= k}) \in 1 .. Cardinality(K)
           /\ \A k, l \in K : k < l => Cardinality({j \in K : j <= k}) < Cardinality({j \in K : j <= l})
<1> DEFINE low(k) == {j \in K : j <= k}
           r      == [k \in K |-> Cardinality(low(k))]
<1>1. IsFiniteSet(1 .. m) /\ Cardinality(1 .. m) = m
  BY FS_Interval
<1>2. IsFiniteSet(K) /\ Cardinality(K) \in Nat /\ Cardinality(K) <= m
  BY <1>1, FS_Subset, FS_CardinalityType
<1>3. ASSUME NEW k \in K
      PROVE  /\ IsFiniteSet(low(k)) /\ Cardinality(low(k)) \in Nat
             /\ Cardinality(low(k)) <= Cardinality(K) /\ Cardinality(low(k)) # 0
  <2>1. low(k) \in SUBSET K /\ k \in low(k)
    OBVIOUS
  <2> HIDE DEF low
  <2>2. IsFiniteSet(low(k)) /\ Cardinality(low(k)) <= Cardinality(K)
    BY <1>2, <2>1, FS_Subset
  <2> QED BY <2>1, <2>2, FS_CardinalityType, FS_EmptySet
<1>4. ASSUME NEW k \in K, NEW l \in K, k < l PROVE Cardinality(low(k)) < Cardinality(low(l))
  <2>0. k \in Nat /\ l \in Nat /\ K \subseteq Nat
    OBVIOUS
  <2>1. low(k) \in SUBSET low(l) /\ l \in low(l) /\ l \notin low(k)
    <3>1. \A j \in K : j <= k => j <= l
      BY <1>4, <2>0
    <3>2. l <= l /\ ~(l <= k)
      BY <1>4, <2>0
    <3> QED BY <3>1, <3>2
  <2>2. IsFiniteSet(low(l)) /\ Cardinality(low(l)) \in Nat /\ Cardinality(low(k)) \in Nat
    BY <1>3
  <2> HIDE DEF low
  <2>3. Cardinality(low(k)) <= Cardinality(low(l)) /\ Cardinality(low(k)) # Cardinality(low(l))
    BY <2>1, <2>2, FS_Subset
  <2> QED BY <2>2, <2>3
<1>5. \A k \in K : Cardinality(low(k)) \in 1 .. Cardinality(K)
  BY <1>2, <1>3
<1>6. r \in Injection(K, 1 .. Cardinality(K))
  <2>1. r \in [K -> 1 .. Cardinality(K)]
    BY <1>5
  <2>2. ASSUME NEW k \in K, NEW l \in K, r[k] = r[l] PROVE k = l
    <3>1. k \in Nat /\ l \in Nat /\ Cardinality(low(k)) = Cardinality(low(l))
      BY <2>2
    <3>2. Cardinality(low(k)) \in Nat /\ Cardinality(low(l)) \in Nat
      BY <1>3
    <3> HIDE DEF low
    <3>3. ~(k < l) /\ ~(l < k)
      BY <1>4, <3>1, <3>2
    <3> QED BY <3>1, <3>3
  <2> QED BY <2>1, <2>2 DEF Injection, IsInjective
<1>7. r \in Surjection(K, 1 .. Cardinality(K))
  <2>1. IsFiniteSet(1 .. Cardinality(K)) /\ Cardinality(1 .. Cardinality(K)) = Cardinality(K)
    BY <1>2, FS_Interval
  <2> HIDE DEF r
  <2> QED BY <1>6, <2>1, FS_Injection
<1>8. \A n \in 1 .. Cardinality(K) : \E k \in K : r[k] = n
  <2> HIDE DEF r
  <2> QED BY <1>7 DEF Surjection
<1> QED BY <1>2, <1>4, <1>5, <1>8

\* The elements at some positions are those, once if they were so before.
LEMMA PickedIs ==
    ASSUME NEW S, NEW q \in Seq(S), NEW K \in SUBSET (DOMAIN q)
    PROVE  /\ Picked(q, K) \in Seq(S) /\ Len(Picked(q, K)) <= Len(q)
           /\ ToSet(Picked(q, K)) = {q[k] : k \in K}
           /\ Once(q) => Once(Picked(q, K))
<1> DEFINE r(k) == Cardinality({j \in K : j <= k})
           c    == Cardinality(K)
           at(n) == CHOOSE k \in K : r(k) = n
           p    == [n \in 1 .. c |-> q[at(n)]]
<1>1. Len(q) \in Nat /\ DOMAIN q = 1 .. Len(q) /\ K \in SUBSET (1 .. Len(q)) /\ \A k \in DOMAIN q : q[k] \in S
  OBVIOUS
<1>2. /\ c \in Nat /\ c <= Len(q)
      /\ \A n \in 1 .. c : \E k \in K : r(k) = n
      /\ \A k \in K : r(k) \in 1 .. c
      /\ \A k, l \in K : k < l => r(k) < r(l)
  BY <1>1, Rank
<1>3. Picked(q, K) = p
  BY DEF Picked
<1> HIDE DEF r, c
<1>4. \A n \in 1 .. c : at(n) \in K /\ r(at(n)) = n
  BY <1>2
<1>5. \A k \in K : at(r(k)) = k
  <2> SUFFICES ASSUME NEW k \in K PROVE at(r(k)) = k
    OBVIOUS
  <2>1. at(r(k)) \in K /\ r(at(r(k))) = r(k) /\ r(k) \in 1 .. c
    BY <1>2, <1>4
  <2> DEFINE l == at(r(k))
  <2>2. l \in K /\ k \in Nat /\ l \in Nat /\ r(l) = r(k) /\ r(k) \in Nat
    BY <1>1, <1>2, <2>1
  <2> HIDE DEF l
  <2>3. ~(l < k) /\ ~(k < l)
    BY <1>2, <2>2, SMTT(60)
  <2>4. l = k
    BY <2>2, <2>3
  <2> QED BY <2>4 DEF l
<1> HIDE DEF at
<1>6. p \in Seq(S) /\ Len(p) = c /\ DOMAIN p = 1 .. c
  <2>1. \A n \in 1 .. c : q[at(n)] \in S
    BY <1>1, <1>4
  <2> QED BY <1>2, <2>1
<1>7. ToSet(p) = {q[k] : k \in K}
  <2>1. \A n \in DOMAIN p : p[n] \in {q[k] : k \in K}
    BY <1>4, <1>6
  <2>2. ASSUME NEW k \in K PROVE q[k] \in ToSet(p)
    <3>1. r(k) \in DOMAIN p /\ p[r(k)] = q[k]
      BY <1>2, <1>5, <1>6
    <3> QED BY <3>1 DEF ToSet
  <2> QED BY <2>1, <2>2 DEF ToSet
<1>8. ASSUME Once(q) PROVE Once(p)
  <2> SUFFICES ASSUME NEW i \in 1 .. c, NEW j \in 1 .. c, p[i] = p[j] PROVE i = j
    BY <1>6 DEF Once
  <2>1. q[at(i)] = q[at(j)] /\ at(i) \in DOMAIN q /\ at(j) \in DOMAIN q
    BY <1>1, <1>4
  <2>2. at(i) = at(j)
    BY <1>8, <2>1 DEF Once
  <2> QED BY <1>4, <2>2
<1> QED BY <1>2, <1>3, <1>6, <1>7, <1>8

\* A list without repetitions is as long as the set of its elements is large.
LEMMA OnceLong ==
    ASSUME NEW S, NEW q \in Seq(S), Once(q)
    PROVE  IsFiniteSet(ToSet(q)) /\ Cardinality(ToSet(q)) = Len(q)
<1>1. Len(q) \in Nat /\ DOMAIN q = 1 .. Len(q)
  OBVIOUS
<1>2. IsFiniteSet(1 .. Len(q)) /\ Cardinality(1 .. Len(q)) = Len(q)
  BY <1>1, FS_Interval
<1> DEFINE f == [k \in 1 .. Len(q) |-> q[k]]
<1>3. f \in Bijection(1 .. Len(q), ToSet(q))
  <2>1. f \in [1 .. Len(q) -> ToSet(q)]
    BY <1>1 DEF ToSet
  <2>2. \A a, b \in 1 .. Len(q) : f[a] = f[b] => a = b
    BY <1>1 DEF Once
  <2>3. \A x \in ToSet(q) : \E k \in 1 .. Len(q) : f[k] = x
    BY <1>1 DEF ToSet
  <2> HIDE DEF f
  <2> QED BY <2>1, <2>2, <2>3 DEF Bijection, Injection, Surjection, IsInjective
<1>4. ExistsBijection(1 .. Len(q), ToSet(q))
  BY <1>3 DEF ExistsBijection
<1> QED BY <1>2, <1>4, FS_Bijection

\* A set of numbers has a least one.
LEMMA Least ==
    ASSUME NEW of \in SUBSET Nat, of # {}
    PROVE  \E x \in of : \A y \in of : x <= y
<1>1. of \subseteq Nat /\ IsWellFoundedOn(OpToRel(<, Nat), Nat)
  BY NatLessThanWellFounded
<1>2. PICK x \in of : \A y \in of : ~ (<<y, x>> \in OpToRel(<, Nat))
  BY <1>1, WFMin
<1>3. x \in Nat /\ \A y \in of : y \in Nat
  BY <1>1, <1>2
<1>4. \A y \in of : ~ (y < x)
  BY <1>3, <1>2, Zenon DEF OpToRel
<1> QED BY <1>3, <1>4

\* The fields of the broker's record, and of one that is changed.
LEMMA BrokerFields ==
    ASSUME NEW b \in CppBroker
    PROVE  /\ b.running \in BOOLEAN /\ b.service \in BOOLEAN /\ b.requests \in Seq(CppRequest)
           /\ b.list \in Seq(Identity) /\ b.count \in Int /\ b.idle \subseteq Identity
           /\ b.workers \in [DOMAIN b.workers -> 0 .. Expiry] /\ DOMAIN b.workers \subseteq Identity
           /\ b.out \in Seq(Identity \X (0 .. MaxRequests))
           /\ b = [running |-> b.running, service |-> b.service, requests |-> b.requests, list |-> b.list,
                   count |-> b.count, workers |-> b.workers, idle |-> b.idle, out |-> b.out]
<1>1. /\ b.running \in BOOLEAN /\ b.service \in BOOLEAN /\ b.requests \in Seq(CppRequest)
      /\ b.list \in Seq(Identity) /\ b.count \in Int /\ b.idle \subseteq Identity
      /\ b.workers \in UNION {[W -> 0 .. Expiry] : W \in SUBSET Identity}
      /\ b.out \in Seq(Identity \X (0 .. MaxRequests))
  BY DEF CppBroker
<1>2. b = [running |-> b.running, service |-> b.service, requests |-> b.requests, list |-> b.list,
           count |-> b.count, workers |-> b.workers, idle |-> b.idle, out |-> b.out]
  BY DEF CppBroker
<1>3. b.workers \in [DOMAIN b.workers -> 0 .. Expiry] /\ DOMAIN b.workers \subseteq Identity
  <2>1. PICK W \in SUBSET Identity : b.workers \in [W -> 0 .. Expiry]
    BY <1>1
  <2> QED BY <2>1
<1> QED BY <1>1, <1>2, <1>3

\* A record of such fields is a broker.
LEMMA BrokerMade ==
    ASSUME NEW ru \in BOOLEAN, NEW se \in BOOLEAN, NEW re \in Seq(CppRequest), NEW li \in Seq(Identity),
           NEW co \in Int, NEW D \in SUBSET Identity, NEW wo \in [D -> 0 .. Expiry],
           NEW id \in SUBSET Identity, NEW ou \in Seq(Identity \X (0 .. MaxRequests))
    PROVE  [running |-> ru, service |-> se, requests |-> re, list |-> li,
            count |-> co, workers |-> wo, idle |-> id, out |-> ou] \in CppBroker
<1>1. wo \in UNION {[W -> 0 .. Expiry] : W \in SUBSET Identity}
  OBVIOUS
<1> QED BY <1>1 DEF CppBroker

\* Some worker in the list was seen last.
LEMMA LatestIs ==
    ASSUME NEW b, Coherent(b), b.list # <<>>
    PROVE  Latest(b) \in DOMAIN b.list
<1> DEFINE e(k) == b.workers[b.list[k]]
           D    == DOMAIN b.list
<1>1. b.list \in Seq(Identity) /\ D = 1 .. Len(b.list) /\ Len(b.list) \in Nat /\ Len(b.list) # 0
      /\ b.workers \in [DOMAIN b.workers -> 0 .. Expiry] /\ Expiry \in Nat
  BY BrokerFields, CppAssumption DEF Coherent
<1>2. \A k \in D : e(k) \in 0 .. Expiry
  <2>1. \A k \in D : b.list[k] \in DOMAIN b.workers
    BY DEF Coherent, ToSet
  <2> QED BY <1>1, <2>1
<1> HIDE DEF e
<1>3. PICK m \in D : \A k \in D : e(k) <= e(m)
  <2> DEFINE left == {Expiry - e(k) : k \in D}
  <2>1. left \in SUBSET Nat /\ left # {}
    <3>1. 1 \in D
      BY <1>1
    <3> QED BY <1>1, <1>2, <3>1
  <2> HIDE DEF left
  <2>2. PICK x \in left : \A y \in left : x <= y
    BY <2>1, Least
  <2> USE DEF left
  <2>3. PICK m \in D : x = Expiry - e(m)
    BY <2>2
  <2>4. \A k \in D : Expiry - e(m) <= Expiry - e(k)
    BY <2>2, <2>3
  <2> QED BY <1>1, <1>2, <2>4
<1>4. \E k \in D : \A j \in D : e(j) < e(k) \/ (e(j) = e(k) /\ k <= j)
  <2> DEFINE last == {k \in D : e(k) = e(m)}
  <2>1. last \in SUBSET Nat /\ last # {}
    BY <1>1, <1>3
  <2> HIDE DEF last
  <2>2. PICK k \in last : \A j \in last : k <= j
    BY <2>1, Least
  <2> USE DEF last
  <2>3. ASSUME NEW j \in D PROVE e(j) < e(k) \/ (e(j) = e(k) /\ k <= j)
    <3>1. e(j) <= e(m) /\ e(k) = e(m) /\ e(j) \in 0 .. Expiry /\ e(m) \in 0 .. Expiry
      BY <1>2, <1>3, <2>2
    <3>2. CASE e(j) = e(m)
      BY <2>2, <3>1, <3>2
    <3>3. CASE e(j) # e(m)
      BY <1>1, <3>1, <3>3
    <3> QED BY <3>2, <3>3
  <2>4. k \in D
    BY <2>2
  <2> QED BY <2>3, <2>4
<1> QED BY <1>4 DEF Latest, e

\* The loop sends the first request to one of the idle.
LEMMA SendOneIs ==
    ASSUME NEW b, Coherent(b), b.list # <<>>, b.requests # <<>>
    PROVE  \E i \in b.idle :
             LET r == SendOne(b) IN
             /\ Coherent(r) /\ r.idle = b.idle \ {i} /\ Len(r.list) = Len(b.list) - 1
             /\ r.requests = Tail(b.requests) /\ r.out = Append(b.out, <<i, Head(b.requests)>>)
             /\ r.workers = b.workers /\ r.running = b.running /\ r.service = b.service
<1> DEFINE n == Latest(b)
           i == b.list[n]
           r == SendOne(b)
<1>1. /\ b.list \in Seq(Identity) /\ DOMAIN b.list = 1 .. Len(b.list) /\ Len(b.list) \in Nat
      /\ b \in CppBroker /\ Once(b.list) /\ ToSet(b.list) = b.idle /\ b.idle \subseteq DOMAIN b.workers
      /\ b.count = Cardinality(DOMAIN b.workers)
  BY BrokerFields DEF Coherent
<1>2. n \in 1 .. Len(b.list) /\ i \in Identity /\ i \in b.idle
  <2>1. n \in 1 .. Len(b.list)
    BY <1>1, LatestIs
  <2> QED BY <1>1, <2>1 DEF ToSet
<1> DEFINE rest == RemoveAt(b.list, n)
<1>3. /\ rest \in Seq(Identity) /\ Len(rest) = Len(b.list) - 1 /\ DOMAIN rest = 1 .. Len(b.list) - 1
      /\ \A k \in 1 .. Len(b.list) - 1 : rest[k] = IF k < n THEN b.list[k] ELSE b.list[k + 1]
  <2> HIDE DEF n
  <2> DEFINE p == SubSeq(b.list, 1, n - 1)
             s == SubSeq(b.list, n + 1, Len(b.list))
  <2>1. /\ p \in Seq(Identity) /\ Len(p) = n - 1 /\ \A k \in 1 .. n - 1 : p[k] = b.list[k]
        /\ s \in Seq(Identity) /\ Len(s) = Len(b.list) - n
        /\ \A k \in 1 .. Len(b.list) - n : s[k] = b.list[k + n]
    <3>1. /\ p \in Seq(Identity) /\ Len(p) = n - 1 /\ \A k \in 1 .. n - 1 : p[k] = b.list[k]
      BY <1>1, <1>2
    <3>2. n + 1 \in 1 .. Len(b.list) + 1 /\ Len(b.list) - (n + 1) + 1 = Len(b.list) - n
      BY <1>1, <1>2
    <3>3. s \in Seq(Identity)
      BY <1>1, <3>2
    <3>4. Len(s) = Len(b.list) - n
      BY <1>1, <1>2, <3>2
    <3>5. ASSUME NEW k \in 1 .. Len(b.list) - n PROVE s[k] = b.list[k + n]
      <4>1. s[k] = b.list[n + 1 + k - 1] /\ n + 1 + k - 1 = k + n
        BY <1>1, <1>2, <3>2
      <4> QED BY <4>1
    <3> HIDE DEF p, s
    <3> QED BY <3>1, <3>3, <3>4, <3>5
  <2>2. rest = p \o s
    BY DEF RemoveAt
  <2> HIDE DEF p, s, rest
  <2>3. rest \in Seq(Identity) /\ Len(rest) = Len(b.list) - 1 /\ DOMAIN rest = 1 .. Len(b.list) - 1
    <3>1. p \in Seq(Identity) /\ s \in Seq(Identity)
      BY <2>1
    <3>2. rest \in Seq(Identity)
      BY <2>2, <3>1
    <3>3. Len(rest) = Len(p) + Len(s)
      BY <2>2, <3>1
    <3>4. Len(p) = n - 1 /\ Len(s) = Len(b.list) - n
      BY <2>1
    <3>5. Len(b.list) \in Nat /\ n \in Int
      BY <1>1, <1>2
    <3>6. Len(rest) = Len(b.list) - 1
      BY <3>3, <3>4, <3>5
    <3>7. DOMAIN rest = 1 .. Len(b.list) - 1
      BY <3>2, <3>6
    <3> QED BY <3>2, <3>6, <3>7
  <2>4. ASSUME NEW k \in 1 .. Len(b.list) - 1
        PROVE  rest[k] = IF k < n THEN b.list[k] ELSE b.list[k + 1]
    <3>1. CASE k < n
      BY <1>1, <1>2, <2>1, <2>2, <3>1
    <3>2. CASE ~(k < n)
      <4>1. k - (n - 1) \in 1 .. Len(b.list) - n /\ k - (n - 1) + n = k + 1
        BY <1>1, <1>2, <3>2
      <4>2. rest[k] = s[k - (n - 1)]
        BY <1>1, <1>2, <2>1, <2>2, <3>2
      <4>3. s[k - (n - 1)] = b.list[k - (n - 1) + n]
        BY <2>1, <4>1
      <4>4. b.list[k - (n - 1) + n] = b.list[k + 1]
        BY <4>1
      <4> QED BY <3>2, <4>2, <4>3, <4>4
    <3> QED BY <3>1, <3>2
  <2> QED BY <2>3, <2>4
<1> HIDE DEF rest, n
<1>4. Once(rest)
  <2> SUFFICES ASSUME NEW k \in 1 .. Len(b.list) - 1, NEW l \in 1 .. Len(b.list) - 1, rest[k] = rest[l]
               PROVE  k = l
    BY <1>3 DEF Once
  <2> DEFINE to(x) == IF x < n THEN x ELSE x + 1
  <2>1. to(k) \in 1 .. Len(b.list) /\ to(l) \in 1 .. Len(b.list)
    BY <1>1, <1>2
  <2>2. b.list[to(k)] = b.list[to(l)]
    BY <1>3
  <2>3. to(k) = to(l)
    BY <1>1, <2>1, <2>2 DEF Once
  <2> QED BY <1>1, <1>2, <2>3
<1>5. ToSet(rest) = b.idle \ {i}
  <2>1. ASSUME NEW k \in 1 .. Len(b.list) - 1 PROVE rest[k] \in b.idle \ {i}
    <3> DEFINE to == IF k < n THEN k ELSE k + 1
    <3>1. to \in 1 .. Len(b.list) /\ to # n /\ rest[k] = b.list[to]
      BY <1>1, <1>2, <1>3
    <3> QED BY <1>1, <1>2, <3>1 DEF Once, ToSet
  <2>2. ASSUME NEW j \in b.idle, j # i PROVE \E k \in 1 .. Len(b.list) - 1 : rest[k] = j
    <3>1. PICK l \in 1 .. Len(b.list) : b.list[l] = j
      BY <1>1 DEF ToSet
    <3>2. l # n
      BY <2>2, <3>1
    <3>3. CASE l < n
      <4>1. l \in 1 .. Len(b.list) - 1
        BY <1>1, <1>2, <3>3
      <4> QED BY <1>3, <3>1, <3>3, <4>1
    <3>4. CASE n < l
      <4>1. l - 1 \in 1 .. Len(b.list) - 1 /\ ~(l - 1 < n) /\ l - 1 + 1 = l
        BY <1>1, <1>2, <3>4
      <4>2. rest[l - 1] = b.list[l - 1 + 1]
        BY <1>3, <4>1
      <4> QED BY <3>1, <4>1, <4>2
    <3> QED BY <1>1, <1>2, <3>2, <3>3, <3>4
  <2>3. ToSet(rest) = {rest[k] : k \in 1 .. Len(b.list) - 1}
    BY <1>3 DEF ToSet
  <2>4. \A j \in ToSet(rest) : j \in b.idle \ {i}
    BY <2>1, <2>3
  <2>5. \A j \in b.idle \ {i} : j \in ToSet(rest)
    BY <2>2, <2>3
  <2> QED BY <2>4, <2>5
<1>6. r = [b EXCEPT !.requests = Tail(b.requests), !.out = Append(b.out, <<i, Head(b.requests)>>),
                    !.list = rest, !.idle = b.idle \ {i}]
  BY DEF SendOne, rest, n
<1>7. /\ b.requests \in Seq(CppRequest) /\ b.running \in BOOLEAN /\ b.service \in BOOLEAN /\ b.count \in Int
      /\ b.idle \subseteq Identity
      /\ b.workers \in [DOMAIN b.workers -> 0 .. Expiry] /\ DOMAIN b.workers \subseteq Identity
      /\ b.out \in Seq(Identity \X (0 .. MaxRequests))
      /\ b = [running |-> b.running, service |-> b.service, requests |-> b.requests, list |-> b.list,
              count |-> b.count, workers |-> b.workers, idle |-> b.idle, out |-> b.out]
  BY <1>1, BrokerFields
<1>8. Tail(b.requests) \in Seq(CppRequest) /\ Head(b.requests) \in CppRequest
  BY <1>7
<1>9. Append(b.out, <<i, Head(b.requests)>>) \in Seq(Identity \X (0 .. MaxRequests))
  <2>1. i \in Identity
    BY <1>2
  <2>2. Head(b.requests) \in 0 .. MaxRequests
    BY <1>8, CppAssumption DEF CppRequest
  <2> HIDE DEF i
  <2>3. <<i, Head(b.requests)>> \in Identity \X (0 .. MaxRequests)
    BY <2>1, <2>2
  <2> QED BY <1>7, <2>3
<1>10. r = [running |-> b.running, service |-> b.service, requests |-> Tail(b.requests), list |-> rest,
            count |-> b.count, workers |-> b.workers, idle |-> b.idle \ {i},
            out |-> Append(b.out, <<i, Head(b.requests)>>)]
  <2> HIDE DEF i, r
  <2> QED BY <1>6, <1>7
<1> HIDE DEF i, r
<1>11. r \in CppBroker
  BY <1>3, <1>7, <1>8, <1>9, <1>10, BrokerMade
<1>12. /\ r.requests = Tail(b.requests) /\ r.list = rest /\ r.idle = b.idle \ {i} /\ r.workers = b.workers
       /\ r.running = b.running /\ r.service = b.service /\ r.count = b.count
       /\ r.out = Append(b.out, <<i, Head(b.requests)>>)
  BY <1>10
<1>13. Coherent(r)
  BY <1>1, <1>4, <1>5, <1>11, <1>12 DEF Coherent
<1> QED BY <1>2, <1>3, <1>12, <1>13 DEF r

\* Workers that are deleted leave all three structures, and nothing else changes.
LEMMA DeleteIs ==
    ASSUME NEW b, Coherent(b), NEW ids \in SUBSET (DOMAIN b.workers)
    PROVE  LET r == WorkersDelete(b, ids) IN
           /\ Coherent(r) /\ r.idle = b.idle \ ids /\ DOMAIN r.workers = DOMAIN b.workers \ ids
           /\ Len(r.list) <= Len(b.list) /\ r.requests = b.requests /\ r.out = b.out
           /\ r.running = b.running /\ r.service = b.service
<1> DEFINE r    == WorkersDelete(b, ids)
           K    == {k \in DOMAIN b.list : b.list[k] \notin ids}
           list == Picked(b.list, K)
           D    == DOMAIN b.workers \ ids
           wo   == Without(b.workers, ids)
           co   == b.count - Cardinality(ids)
<1>1. /\ b \in CppBroker /\ Once(b.list) /\ ToSet(b.list) = b.idle /\ b.idle \subseteq DOMAIN b.workers
      /\ b.count = Cardinality(DOMAIN b.workers)
  BY DEF Coherent
<1>2. /\ b.requests \in Seq(CppRequest) /\ b.running \in BOOLEAN /\ b.service \in BOOLEAN /\ b.count \in Int
      /\ b.idle \subseteq Identity /\ b.list \in Seq(Identity)
      /\ b.workers \in [DOMAIN b.workers -> 0 .. Expiry] /\ DOMAIN b.workers \subseteq Identity
      /\ b.out \in Seq(Identity \X (0 .. MaxRequests))
      /\ b = [running |-> b.running, service |-> b.service, requests |-> b.requests, list |-> b.list,
              count |-> b.count, workers |-> b.workers, idle |-> b.idle, out |-> b.out]
  BY <1>1, BrokerFields
<1>3. K \in SUBSET (DOMAIN b.list)
  OBVIOUS
<1>4. /\ list \in Seq(Identity) /\ Len(list) <= Len(b.list) /\ ToSet(list) = {b.list[k] : k \in K} /\ Once(list)
  <2> HIDE DEF K
  <2> QED BY <1>1, <1>2, <1>3, PickedIs
<1>5. ToSet(list) = b.idle \ ids
  <2>1. {b.list[k] : k \in K} = {b.list[k] : k \in DOMAIN b.list} \ ids
    OBVIOUS
  <2> QED BY <1>1, <1>4, <2>1 DEF ToSet
<1>6. wo \in [D -> 0 .. Expiry] /\ D \in SUBSET Identity
  <2>1. wo = [i \in D |-> b.workers[i]]
    BY DEF Without
  <2>2. \A i \in D : b.workers[i] \in 0 .. Expiry
    BY <1>2
  <2> HIDE DEF wo
  <2> QED BY <1>2, <2>1, <2>2
<1>7. /\ IsFiniteSet(D) /\ IsFiniteSet(ids) /\ Cardinality(ids) \in Nat
      /\ Cardinality(D) = Cardinality(DOMAIN b.workers) - Cardinality(ids)
  <2>1. IsFiniteSet(Identity)
    BY FS_Interval, CppAssumption DEF Identity
  <2>2. IsFiniteSet(DOMAIN b.workers) /\ IsFiniteSet(ids)
    BY <1>2, <2>1, FS_Subset
  <2>3. DOMAIN b.workers \cap ids = ids
    OBVIOUS
  <2>4. IsFiniteSet(D) /\ Cardinality(D) = Cardinality(DOMAIN b.workers) - Cardinality(DOMAIN b.workers \cap ids)
    BY <2>2, FS_Difference
  <2> QED BY <2>2, <2>3, <2>4, FS_CardinalityType
<1>8. r = [running |-> b.running, service |-> b.service, requests |-> b.requests, list |-> list,
           count |-> co, workers |-> wo, idle |-> b.idle \ ids, out |-> b.out]
  <2>1. r = [b EXCEPT !.list = list, !.idle = b.idle \ ids, !.count = co, !.workers = wo]
    BY DEF WorkersDelete
  <2> HIDE DEF list, wo, co, r
  <2> QED BY <1>2, <2>1
<1> HIDE DEF list, wo, r, D, K
<1>9. co \in Int /\ co = Cardinality(D)
  BY <1>1, <1>2, <1>7
<1> HIDE DEF co
<1>10. b.idle \ ids \in SUBSET Identity
  BY <1>2
<1>11. r \in CppBroker
  BY <1>2, <1>4, <1>6, <1>8, <1>9, <1>10, BrokerMade
<1>12. /\ r.requests = b.requests /\ r.list = list /\ r.idle = b.idle \ ids /\ r.workers = wo
       /\ r.running = b.running /\ r.service = b.service /\ r.count = co /\ r.out = b.out
  BY <1>8
<1>13. DOMAIN r.workers = D
  BY <1>6, <1>12
<1>14. r.idle \subseteq D
  BY <1>1, <1>12 DEF D
<1>15. Coherent(r)
  BY <1>4, <1>5, <1>9, <1>11, <1>12, <1>13, <1>14 DEF Coherent
<1> QED BY <1>4, <1>12, <1>13, <1>15 DEF r, D

\* Purging deletes some of the workers.
LEMMA PurgeIs ==
    ASSUME NEW b, Coherent(b)
    PROVE  LET r == PurgeWorkers(b) IN
           /\ Coherent(r) /\ r.idle \subseteq b.idle /\ DOMAIN r.workers \subseteq DOMAIN b.workers
           /\ DOMAIN b.workers \ DOMAIN r.workers \subseteq b.idle
           /\ Len(r.list) <= Len(b.list) /\ r.requests = b.requests /\ r.out = b.out
           /\ r.running = b.running /\ r.service = b.service
<1> DEFINE ids == {i \in b.idle : b.workers[i] = 0}
<1>1. ids \in SUBSET (DOMAIN b.workers) /\ ids \subseteq b.idle
  BY DEF Coherent
<1>2. PurgeWorkers(b) = WorkersDelete(b, ids)
  BY DEF PurgeWorkers
<1> HIDE DEF ids
<1> DEFINE r == WorkersDelete(b, ids)
<1>3. /\ Coherent(r) /\ r.idle = b.idle \ ids /\ DOMAIN r.workers = DOMAIN b.workers \ ids
      /\ Len(r.list) <= Len(b.list) /\ r.requests = b.requests /\ r.out = b.out
      /\ r.running = b.running /\ r.service = b.service
  BY <1>1, DeleteIs
<1> HIDE DEF r
<1>4. DOMAIN b.workers \ DOMAIN r.workers \subseteq b.idle
  BY <1>1, <1>3
<1> QED BY <1>2, <1>3, <1>4 DEF r

\* The smaller of two numbers.
LEMMA MinOfTwo ==
    ASSUME NEW m \in Nat, NEW n \in Nat
    PROVE  Min({m, n}) = IF m <= n THEN m ELSE n
<1>1. Min({m, n}) = CHOOSE x \in {m, n} : \A y \in {m, n} : x <= y
  BY DEF Min
<1> DEFINE l == IF m <= n THEN m ELSE n
<1>2. l \in {m, n} /\ \A y \in {m, n} : l <= y
  OBVIOUS
<1>3. \A x \in {m, n} : (\A y \in {m, n} : x <= y) => x = l
  OBVIOUS
<1> HIDE DEF l
<1>4. Min({m, n}) = l
  BY <1>1, <1>2, <1>3
<1> QED BY <1>4 DEF l

\* The loop of service_dispatch, where one turn is enough.
LEMMA DispatchIs ==
    ASSUME NEW b, Coherent(b), b.out = <<>>, Len(b.list) <= 1 \/ Len(b.requests) <= 1
    PROVE  LET r == Dispatch(b) IN
           /\ Coherent(r) /\ NoneWaits(r) /\ DOMAIN r.workers \subseteq DOMAIN b.workers
           /\ DOMAIN b.workers \ DOMAIN r.workers \subseteq b.idle
           /\ r.running = b.running /\ r.service = b.service
           /\ \/ r.out = <<>> /\ r.requests = b.requests /\ r.idle \subseteq b.idle
              \/ \E i \in b.idle \cap DOMAIN r.workers :
                   /\ b.requests # <<>> /\ r.requests = Tail(b.requests)
                   /\ r.out = <<<<i, Head(b.requests)>>>> /\ r.idle \subseteq b.idle \ {i}
<1> DEFINE p == PurgeWorkers(b)
           turns == Min({Len(p.list), Len(p.requests)})
           S(g) == g = [k \in 0 .. turns |-> IF k = 0 THEN p ELSE SendOne(g[k - 1])]
           f == [k \in 0 .. turns |-> IF k = 0 THEN p ELSE SendOne(p)]
           h == CHOOSE g : S(g)
<1>1. /\ Coherent(p) /\ p.idle \subseteq b.idle /\ DOMAIN p.workers \subseteq DOMAIN b.workers
      /\ DOMAIN b.workers \ DOMAIN p.workers \subseteq b.idle
      /\ Len(p.list) <= Len(b.list) /\ p.requests = b.requests /\ p.out = b.out
      /\ p.running = b.running /\ p.service = b.service
  BY PurgeIs
<1>2. /\ Len(p.list) \in Nat /\ Len(p.requests) \in Nat /\ p.list \in Seq(Identity)
      /\ p.requests \in Seq(CppRequest) /\ Len(b.list) \in Nat
  BY <1>1, BrokerFields DEF Coherent
<1>3. Dispatch(b) = h[turns]
  BY DEF Dispatch
<1> HIDE DEF p
<1>4. turns = IF Len(p.list) <= Len(p.requests) THEN Len(p.list) ELSE Len(p.requests)
  BY <1>2, MinOfTwo
<1>5. turns \in {0, 1}
  BY <1>1, <1>2, <1>4
<1> HIDE DEF turns
<1>6. S(f)
  <2>1. \A k \in 0 .. turns : k = 0 \/ (k = 1 /\ 0 \in 0 .. turns)
    BY <1>5
  <2>2. \A k \in 0 .. turns : f[k] = IF k = 0 THEN p ELSE SendOne(f[k - 1])
    BY <2>1
  <2> QED BY <2>2
<1>7. S(h)
  <2> HIDE DEF S
  <2> QED BY <1>6
<1>8. CASE turns = 0
  <2>1. h[0] = p
    BY <1>7, <1>8
  <2>2. p.list = <<>> \/ p.requests = <<>>
    BY <1>2, <1>4, <1>8
  <2> HIDE DEF h
  <2> QED BY <1>1, <1>3, <1>8, <2>1, <2>2 DEF NoneWaits
<1>9. CASE turns = 1
  <2>1. h[0] = p /\ h[1] = SendOne(h[0])
    BY <1>7, <1>9
  <2>2. p.list # <<>> /\ p.requests # <<>>
    <3> DEFINE m == Len(p.list)
               n == Len(p.requests)
    <3>1. m # 0 /\ n # 0
      <4>1. m \in Nat /\ n \in Nat /\ 1 = IF m <= n THEN m ELSE n
        BY <1>2, <1>4, <1>9
      <4> HIDE DEF m, n
      <4> QED BY <4>1
    <3>2. Len(<<>>) = 0
      OBVIOUS
    <3> QED BY <3>1, <3>2
  <2> HIDE DEF h
  <2> DEFINE r == SendOne(p)
  <2>3. PICK i \in p.idle :
             /\ Coherent(r) /\ r.idle = p.idle \ {i} /\ Len(r.list) = Len(p.list) - 1
             /\ r.requests = Tail(p.requests) /\ r.out = Append(p.out, <<i, Head(p.requests)>>)
             /\ r.workers = p.workers /\ r.running = p.running /\ r.service = p.service
    BY <1>1, <2>2, SendOneIs
  <2> HIDE DEF r
  <2>4. Dispatch(b) = r
    BY <1>3, <1>9, <2>1 DEF r
  <2>5. Len(p.list) = 1 \/ Len(p.requests) = 1
    BY <1>2, <1>4, <1>9
  <2>6. r.list \in Seq(Identity) /\ r.requests \in Seq(CppRequest)
    BY <2>3, BrokerFields DEF Coherent
  <2>7. Len(r.list) = Len(p.list) - 1 /\ Len(r.requests) = Len(p.requests) - 1
    BY <1>2, <2>2, <2>3
  <2>8. Len(r.list) = 0 \/ Len(r.requests) = 0
    BY <1>2, <2>5, <2>7
  <2>9. NoneWaits(r)
    BY <2>6, <2>8 DEF NoneWaits
  <2>10. Append(p.out, <<i, Head(p.requests)>>) = <<<<i, Head(p.requests)>>>>
    BY <1>1
  <2>11. i \in DOMAIN p.workers /\ i \in b.idle
    BY <1>1 DEF Coherent
  <2>12. r.out = <<<<i, Head(p.requests)>>>>
    BY <2>3, <2>10
  <2> QED BY <1>1, <2>2, <2>3, <2>4, <2>9, <2>11, <2>12
<1> QED BY <1>5, <1>8, <1>9

\* What a handler sends: nothing, or the first request to one of the workers, which it
\* still knows.  It deletes no others than idle ones.
SendsFirst(requests, known, ids, r) ==
    /\ DOMAIN r.workers \subseteq known /\ known \ DOMAIN r.workers \subseteq ids
    /\ \/ r.out = <<>> /\ r.requests = requests /\ r.idle \subseteq ids
       \/ \E i \in ids \cap DOMAIN r.workers :
            /\ requests # <<>> /\ r.requests = Tail(requests)
            /\ r.out = <<<<i, Head(requests)>>>> /\ r.idle \subseteq ids \ {i}

\* A worker that is there and not idle waits for a request.
LEMMA WaitingIs ==
    ASSUME NEW b, Coherent(b), NoneWaits(b), b.out = <<>>, NEW i \in DOMAIN b.workers, i \notin b.idle
    PROVE  LET r == WorkerWaiting(b, i) IN
           /\ Coherent(r) /\ NoneWaits(r)
           /\ r.running = b.running /\ SendsFirst(b.requests, DOMAIN b.workers, b.idle \cup {i}, r)
<1> DEFINE wo   == Dated(b.workers, i, Expiry)
           list == Append(b.list, i)
           a    == [b EXCEPT !.idle = @ \cup {i}, !.list = Append(@, i), !.workers = Dated(@, i, Expiry)]
<1>1. /\ b \in CppBroker /\ Once(b.list) /\ ToSet(b.list) = b.idle /\ b.idle \subseteq DOMAIN b.workers
      /\ b.count = Cardinality(DOMAIN b.workers)
  BY DEF Coherent
<1>2. /\ b.requests \in Seq(CppRequest) /\ b.running \in BOOLEAN /\ b.service \in BOOLEAN /\ b.count \in Int
      /\ b.idle \subseteq Identity /\ b.list \in Seq(Identity)
      /\ b.workers \in [DOMAIN b.workers -> 0 .. Expiry] /\ DOMAIN b.workers \subseteq Identity
      /\ b.out \in Seq(Identity \X (0 .. MaxRequests))
      /\ b = [running |-> b.running, service |-> b.service, requests |-> b.requests, list |-> b.list,
              count |-> b.count, workers |-> b.workers, idle |-> b.idle, out |-> b.out]
  BY <1>1, BrokerFields
<1>3. wo \in [DOMAIN b.workers -> 0 .. Expiry] /\ DOMAIN wo = DOMAIN b.workers
  BY <1>2, CppAssumption DEF Dated
<1>4. list \in Seq(Identity) /\ Len(list) = Len(b.list) + 1 /\ Once(list) /\ ToSet(list) = b.idle \cup {i}
  <2>1. \A p, x : x \in ToSet(p) <=> In(p, x)
    BY DEF ToSet, In
  <2>2. ~In(b.list, i)
    BY <1>1, <2>1
  <2>3. /\ list \in Seq(Identity) /\ Len(list) = Len(b.list) + 1 /\ Once(list)
        /\ \A x : In(list, x) <=> In(b.list, x) \/ x = i
    BY <1>1, <1>2, <2>2, AppendIn
  <2>4. ToSet(list) = b.idle \cup {i}
    BY <1>1, <2>1, <2>3
  <2> QED BY <2>3, <2>4
<1>5. a = [running |-> b.running, service |-> b.service, requests |-> b.requests, list |-> list,
           count |-> b.count, workers |-> wo, idle |-> b.idle \cup {i}, out |-> b.out]
  <2>1. a = [b EXCEPT !.idle = b.idle \cup {i}, !.list = list, !.workers = wo]
    OBVIOUS
  <2> HIDE DEF a, list, wo
  <2> QED BY <1>2, <2>1
<1>6. WorkerWaiting(b, i) = Dispatch(a)
  BY DEF WorkerWaiting
<1> HIDE DEF wo, list, a
<1>7. b.idle \cup {i} \in SUBSET Identity
  BY <1>2
<1>8. a \in CppBroker
  BY <1>2, <1>3, <1>4, <1>5, <1>7, BrokerMade
<1>9. /\ a.requests = b.requests /\ a.list = list /\ a.idle = b.idle \cup {i} /\ a.workers = wo
      /\ a.running = b.running /\ a.service = b.service /\ a.count = b.count /\ a.out = b.out
  BY <1>5
<1>10. Coherent(a)
  BY <1>1, <1>3, <1>4, <1>8, <1>9 DEF Coherent
<1>11. Len(a.list) <= 1 \/ Len(a.requests) <= 1
  <2>1. CASE b.list = <<>>
    <3>1. Len(b.list) = 0
      BY <2>1
    <3>2. Len(list) = Len(b.list) + 1
      BY <1>4
    <3>3. Len(list) = 1
      BY <3>1, <3>2
    <3>4. a.list = list
      BY <1>9
    <3>5. Len(a.list) = 1
      BY <3>3, <3>4
    <3> QED BY <3>5
  <2>2. CASE b.requests = <<>>
    <3>1. Len(b.requests) = 0
      BY <2>2
    <3>2. a.requests = b.requests
      BY <1>9
    <3> QED BY <3>1, <3>2
  <2> QED BY <2>1, <2>2 DEF NoneWaits
<1>12. a.out = <<>>
  BY <1>9
<1> DEFINE r == Dispatch(a)
<1>13. /\ Coherent(r) /\ NoneWaits(r) /\ DOMAIN r.workers \subseteq DOMAIN a.workers
       /\ DOMAIN a.workers \ DOMAIN r.workers \subseteq a.idle
       /\ r.running = a.running /\ r.service = a.service
       /\ \/ r.out = <<>> /\ r.requests = a.requests /\ r.idle \subseteq a.idle
          \/ \E j \in a.idle \cap DOMAIN r.workers :
               /\ a.requests # <<>> /\ r.requests = Tail(a.requests)
               /\ r.out = <<<<j, Head(a.requests)>>>> /\ r.idle \subseteq a.idle \ {j}
  BY <1>10, <1>11, <1>12, DispatchIs
<1> HIDE DEF r
<1>14. SendsFirst(b.requests, DOMAIN b.workers, b.idle \cup {i}, r)
  BY <1>3, <1>9, <1>13 DEF SendsFirst
<1> QED BY <1>3, <1>6, <1>9, <1>13, <1>14 DEF r

\* READY of a connection the broker does not know.
LEMMA ReadyIs ==
    ASSUME NEW b, Coherent(b), NoneWaits(b), b.out = <<>>, NEW i \in Identity, i \notin DOMAIN b.workers
    PROVE  LET r == Ready(b, i) IN
           /\ Coherent(r) /\ NoneWaits(r)
           /\ r.running = b.running /\ SendsFirst(b.requests, DOMAIN b.workers \cup {i}, b.idle \cup {i}, r)
<1> DEFINE wo == Dated(b.workers, i, 0)
           D  == DOMAIN b.workers \cup {i}
           a  == [ServiceRequire(WorkerRequire(b, i)) EXCEPT !.count = @ + 1]
<1>1. /\ b \in CppBroker /\ Once(b.list) /\ ToSet(b.list) = b.idle /\ b.idle \subseteq DOMAIN b.workers
      /\ b.count = Cardinality(DOMAIN b.workers)
  BY DEF Coherent
<1>2. /\ b.requests \in Seq(CppRequest) /\ b.running \in BOOLEAN /\ b.service \in BOOLEAN /\ b.count \in Int
      /\ b.idle \subseteq Identity /\ b.list \in Seq(Identity)
      /\ b.workers \in [DOMAIN b.workers -> 0 .. Expiry] /\ DOMAIN b.workers \subseteq Identity
      /\ b.out \in Seq(Identity \X (0 .. MaxRequests))
      /\ b = [running |-> b.running, service |-> b.service, requests |-> b.requests, list |-> b.list,
              count |-> b.count, workers |-> b.workers, idle |-> b.idle, out |-> b.out]
  BY <1>1, BrokerFields
<1>3. wo \in [D -> 0 .. Expiry] /\ DOMAIN wo = D /\ D \in SUBSET Identity
  BY <1>2, CppAssumption DEF Dated
<1>4. Cardinality(D) = b.count + 1 /\ b.count + 1 \in Int
  <2>1. IsFiniteSet(Identity)
    BY FS_Interval, CppAssumption DEF Identity
  <2>2. IsFiniteSet(DOMAIN b.workers)
    BY <1>2, <2>1, FS_Subset
  <2>3. Cardinality(D) = Cardinality(DOMAIN b.workers) + 1
    BY <2>2, FS_AddElement
  <2>4. b.count \in Int /\ b.count = Cardinality(DOMAIN b.workers)
    BY <1>1, <1>2
  <2> QED BY <2>3, <2>4
<1>5. a = [running |-> b.running, service |-> TRUE, requests |-> b.requests, list |-> b.list,
           count |-> b.count + 1, workers |-> wo, idle |-> b.idle, out |-> b.out]
  <2>1. WorkerRequire(b, i) = [b EXCEPT !.workers = wo]
    BY DEF WorkerRequire
  <2>2. a = [[[b EXCEPT !.workers = wo] EXCEPT !.service = TRUE] EXCEPT !.count = @ + 1]
    BY <2>1 DEF ServiceRequire
  <2> HIDE DEF wo, a
  <2> QED BY <1>2, <2>2
<1>6. Ready(b, i) = WorkerWaiting(a, i)
  BY DEF Ready
<1> HIDE DEF wo, a, D
<1>7. a \in CppBroker
  BY <1>2, <1>3, <1>4, <1>5, BrokerMade
<1>8. /\ a.requests = b.requests /\ a.list = b.list /\ a.idle = b.idle /\ a.workers = wo
      /\ a.running = b.running /\ a.count = b.count + 1 /\ a.out = b.out
  BY <1>5
<1>9. Coherent(a) /\ i \in DOMAIN a.workers /\ i \notin a.idle /\ NoneWaits(a)
  BY <1>1, <1>3, <1>4, <1>7, <1>8 DEF Coherent, D, NoneWaits
<1> DEFINE r == WorkerWaiting(a, i)
<1>10. /\ Coherent(r) /\ NoneWaits(r)
       /\ r.running = a.running /\ SendsFirst(a.requests, DOMAIN a.workers, a.idle \cup {i}, r)
  BY <1>8, <1>9, WaitingIs
<1> HIDE DEF r
<1> QED BY <1>3, <1>6, <1>8, <1>10 DEF r, D

\* A list that is no longer than before leaves no request beside an idle worker.
LEMMA FewerWait ==
    ASSUME NEW b, Coherent(b), NoneWaits(b), NEW r, Coherent(r), Len(r.list) <= Len(b.list), r.requests = b.requests
    PROVE  NoneWaits(r)
<1>1. CASE b.requests = <<>>
  BY <1>1 DEF NoneWaits
<1>2. CASE b.list = <<>>
  <2>1. r.list \in Seq(Identity)
    BY BrokerFields DEF Coherent
  <2>2. Len(b.list) = 0
    BY <1>2
  <2>3. Len(r.list) = 0
    BY <2>1, <2>2
  <2>4. r.list = <<>>
    BY <2>1, <2>3
  <2> QED BY <2>4 DEF NoneWaits
<1> QED BY <1>1, <1>2 DEF NoneWaits

\* The answer to a command of a connection the broker does not know.
LEMMA RefuseIs ==
    ASSUME NEW b, Coherent(b), NoneWaits(b), NEW i \in Identity, b.out = <<>>
    PROVE  LET r == Refuse(b, i) IN
           /\ Coherent(r) /\ NoneWaits(r) /\ r.out = <<<<i, DISCONNECT>>>>
           /\ r.requests = b.requests /\ r.workers = b.workers /\ r.idle = b.idle
<1> DEFINE r == Refuse(b, i)
           o == <<<<i, DISCONNECT>>>>
<1>1. /\ b \in CppBroker /\ Once(b.list) /\ ToSet(b.list) = b.idle /\ b.idle \subseteq DOMAIN b.workers
      /\ b.count = Cardinality(DOMAIN b.workers)
  BY DEF Coherent
<1>2. /\ b.requests \in Seq(CppRequest) /\ b.running \in BOOLEAN /\ b.service \in BOOLEAN /\ b.count \in Int
      /\ b.idle \subseteq Identity /\ b.list \in Seq(Identity)
      /\ b.workers \in [DOMAIN b.workers -> 0 .. Expiry] /\ DOMAIN b.workers \subseteq Identity
      /\ b = [running |-> b.running, service |-> b.service, requests |-> b.requests, list |-> b.list,
              count |-> b.count, workers |-> b.workers, idle |-> b.idle, out |-> b.out]
  BY <1>1, BrokerFields
<1>3. r = [b EXCEPT !.out = o]
  BY DEF Refuse
<1>4. o \in Seq(Identity \X (0 .. MaxRequests))
  BY CppAssumption DEF DISCONNECT
<1> HIDE DEF r, o
<1>5. r = [running |-> b.running, service |-> b.service, requests |-> b.requests, list |-> b.list,
           count |-> b.count, workers |-> b.workers, idle |-> b.idle, out |-> o]
  BY <1>2, <1>3
<1>6. r \in CppBroker
  BY <1>2, <1>4, <1>5, BrokerMade
<1>7. /\ r.requests = b.requests /\ r.list = b.list /\ r.idle = b.idle /\ r.workers = b.workers
      /\ r.count = b.count /\ r.out = o
  BY <1>5
<1>8. Coherent(r) /\ NoneWaits(r)
  BY <1>1, <1>6, <1>7 DEF Coherent, NoneWaits
<1> QED BY <1>7, <1>8 DEF r, o

\* READY of a connection the broker knows: its worker is deleted, and told to go.
LEMMA ReadyAgainIs ==
    ASSUME NEW b, Coherent(b), NoneWaits(b), b.out = <<>>, NEW i \in DOMAIN b.workers
    PROVE  LET r == Ready(b, i) IN
           /\ Coherent(r) /\ NoneWaits(r) /\ r.out = <<<<i, DISCONNECT>>>>
           /\ r.requests = b.requests /\ DOMAIN r.workers = DOMAIN b.workers \ {i} /\ r.idle = b.idle \ {i}
<1> DEFINE d == WorkersDelete(b, {i})
           r == Refuse(d, i)
<1>1. Ready(b, i) = r
  BY DEF Ready
<1>2. {i} \in SUBSET (DOMAIN b.workers)
  OBVIOUS
<1>3. i \in Identity
  BY BrokerFields DEF Coherent
<1>4. /\ Coherent(d) /\ d.idle = b.idle \ {i} /\ DOMAIN d.workers = DOMAIN b.workers \ {i}
      /\ Len(d.list) <= Len(b.list) /\ d.requests = b.requests /\ d.out = b.out
  BY <1>2, DeleteIs
<1> HIDE DEF d
<1>5. NoneWaits(d)
  BY <1>4, FewerWait
<1>6. /\ Coherent(r) /\ NoneWaits(r) /\ r.out = <<<<i, DISCONNECT>>>>
      /\ r.requests = d.requests /\ r.workers = d.workers /\ r.idle = d.idle
  BY <1>3, <1>4, <1>5, RefuseIs
<1> HIDE DEF r
<1> QED BY <1>1, <1>4, <1>6 DEF r

\* Only the dates of the workers change.
LEMMA DatesChange ==
    ASSUME NEW b, Coherent(b), NEW wo \in [DOMAIN b.workers -> 0 .. Expiry]
    PROVE  LET r == [b EXCEPT !.workers = wo] IN
           /\ Coherent(r) /\ r.requests = b.requests /\ r.list = b.list /\ r.out = b.out
           /\ r.idle = b.idle /\ DOMAIN r.workers = DOMAIN b.workers
           /\ r.running = b.running /\ r.service = b.service
<1> DEFINE r == [b EXCEPT !.workers = wo]
<1>1. /\ b \in CppBroker /\ Once(b.list) /\ ToSet(b.list) = b.idle /\ b.idle \subseteq DOMAIN b.workers
      /\ b.count = Cardinality(DOMAIN b.workers)
  BY DEF Coherent
<1>2. /\ b.requests \in Seq(CppRequest) /\ b.running \in BOOLEAN /\ b.service \in BOOLEAN /\ b.count \in Int
      /\ b.idle \subseteq Identity /\ b.list \in Seq(Identity)
      /\ b.workers \in [DOMAIN b.workers -> 0 .. Expiry] /\ DOMAIN b.workers \subseteq Identity
      /\ b.out \in Seq(Identity \X (0 .. MaxRequests))
      /\ b = [running |-> b.running, service |-> b.service, requests |-> b.requests, list |-> b.list,
              count |-> b.count, workers |-> b.workers, idle |-> b.idle, out |-> b.out]
  BY <1>1, BrokerFields
<1>3. r = [running |-> b.running, service |-> b.service, requests |-> b.requests, list |-> b.list,
           count |-> b.count, workers |-> wo, idle |-> b.idle, out |-> b.out]
  <2>1. b = [running |-> b.running, service |-> b.service, requests |-> b.requests, list |-> b.list,
             count |-> b.count, workers |-> b.workers, idle |-> b.idle, out |-> b.out]
    BY <1>2
  <2>2. r = [b EXCEPT !.workers = wo]
    OBVIOUS
  <2> HIDE DEF r
  <2> QED BY <2>1, <2>2
<1> HIDE DEF r
<1>4. r \in CppBroker
  BY <1>2, <1>3, BrokerMade
<1>5. /\ r.requests = b.requests /\ r.list = b.list /\ r.idle = b.idle /\ r.workers = wo
      /\ r.running = b.running /\ r.service = b.service /\ r.count = b.count /\ r.out = b.out
  BY <1>3
<1>6. DOMAIN r.workers = DOMAIN b.workers
  BY <1>5
<1>7. Coherent(r)
  BY <1>1, <1>4, <1>5, <1>6 DEF Coherent
<1> QED BY <1>5, <1>6, <1>7 DEF r

\* A request of the client joins the others.
LEMMA RequestIs ==
    ASSUME NEW b, Coherent(b), NoneWaits(b), b.out = <<>>, NEW n \in CppRequest
    PROVE  LET r == ClientRequest(b, n) IN
           /\ Coherent(r) /\ NoneWaits(r)
           /\ r.running = b.running /\ SendsFirst(Append(b.requests, n), DOMAIN b.workers, b.idle, r)
<1> DEFINE requests == Append(b.requests, n)
           a == [ServiceRequire(b) EXCEPT !.requests = Append(@, n)]
<1>1. /\ b \in CppBroker /\ Once(b.list) /\ ToSet(b.list) = b.idle /\ b.idle \subseteq DOMAIN b.workers
      /\ b.count = Cardinality(DOMAIN b.workers)
  BY DEF Coherent
<1>2. /\ b.requests \in Seq(CppRequest) /\ b.running \in BOOLEAN /\ b.service \in BOOLEAN /\ b.count \in Int
      /\ b.idle \subseteq Identity /\ b.list \in Seq(Identity)
      /\ b.workers \in [DOMAIN b.workers -> 0 .. Expiry] /\ DOMAIN b.workers \subseteq Identity
      /\ b.out \in Seq(Identity \X (0 .. MaxRequests))
      /\ b = [running |-> b.running, service |-> b.service, requests |-> b.requests, list |-> b.list,
              count |-> b.count, workers |-> b.workers, idle |-> b.idle, out |-> b.out]
  BY <1>1, BrokerFields
<1>3. requests \in Seq(CppRequest) /\ Len(requests) = Len(b.requests) + 1
  BY <1>2
<1>4. a = [running |-> b.running, service |-> TRUE, requests |-> requests, list |-> b.list,
           count |-> b.count, workers |-> b.workers, idle |-> b.idle, out |-> b.out]
  <2>1. a = [[b EXCEPT !.service = TRUE] EXCEPT !.requests = Append(@, n)]
    BY DEF ServiceRequire
  <2> HIDE DEF a
  <2> QED BY <1>2, <2>1
<1>5. ClientRequest(b, n) = Dispatch(a)
  BY DEF ClientRequest
<1> HIDE DEF a, requests
<1>6. a \in CppBroker
  BY <1>2, <1>3, <1>4, BrokerMade
<1>7. /\ a.requests = requests /\ a.list = b.list /\ a.idle = b.idle /\ a.workers = b.workers
      /\ a.running = b.running /\ a.count = b.count /\ a.out = b.out
  BY <1>4
<1>8. Coherent(a)
  BY <1>1, <1>6, <1>7 DEF Coherent
<1>9. Len(a.list) <= 1 \/ Len(a.requests) <= 1
  <2>1. CASE b.list = <<>>
    <3>1. Len(b.list) = 0
      BY <2>1
    <3> QED BY <1>7, <3>1
  <2>2. CASE b.requests = <<>>
    <3>1. Len(b.requests) = 0
      BY <2>2
    <3> QED BY <1>3, <1>7, <3>1
  <2> QED BY <2>1, <2>2 DEF NoneWaits
<1>10. a.out = <<>>
  BY <1>7
<1> DEFINE r == Dispatch(a)
<1>11. /\ Coherent(r) /\ NoneWaits(r) /\ DOMAIN r.workers \subseteq DOMAIN a.workers
       /\ DOMAIN a.workers \ DOMAIN r.workers \subseteq a.idle
       /\ r.running = a.running /\ r.service = a.service
       /\ \/ r.out = <<>> /\ r.requests = a.requests /\ r.idle \subseteq a.idle
          \/ \E j \in a.idle \cap DOMAIN r.workers :
               /\ a.requests # <<>> /\ r.requests = Tail(a.requests)
               /\ r.out = <<<<j, Head(a.requests)>>>> /\ r.idle \subseteq a.idle \ {j}
  BY <1>8, <1>9, <1>10, DispatchIs
<1> HIDE DEF r
<1>12. SendsFirst(requests, DOMAIN b.workers, b.idle, r)
  BY <1>7, <1>11 DEF SendsFirst
<1> QED BY <1>5, <1>7, <1>11, <1>12 DEF r, requests

\* A record with nothing more to send.
LEMMA OutEmptied ==
    ASSUME NEW b, Coherent(b), NoneWaits(b)
    PROVE  LET r == [b EXCEPT !.out = <<>>] IN
           /\ Coherent(r) /\ NoneWaits(r) /\ r.out = <<>> /\ r.requests = b.requests
           /\ r.idle = b.idle /\ r.workers = b.workers
<1> DEFINE r == [b EXCEPT !.out = <<>>]
<1>1. /\ b \in CppBroker /\ Once(b.list) /\ ToSet(b.list) = b.idle /\ b.idle \subseteq DOMAIN b.workers
      /\ b.count = Cardinality(DOMAIN b.workers)
  BY DEF Coherent
<1>2. /\ b.requests \in Seq(CppRequest) /\ b.running \in BOOLEAN /\ b.service \in BOOLEAN /\ b.count \in Int
      /\ b.idle \subseteq Identity /\ b.list \in Seq(Identity)
      /\ b.workers \in [DOMAIN b.workers -> 0 .. Expiry] /\ DOMAIN b.workers \subseteq Identity
      /\ b = [running |-> b.running, service |-> b.service, requests |-> b.requests, list |-> b.list,
              count |-> b.count, workers |-> b.workers, idle |-> b.idle, out |-> b.out]
  BY <1>1, BrokerFields
<1>3. r = [running |-> b.running, service |-> b.service, requests |-> b.requests, list |-> b.list,
           count |-> b.count, workers |-> b.workers, idle |-> b.idle, out |-> <<>>]
  BY <1>2
<1> HIDE DEF r
<1>4. <<>> \in Seq(Identity \X (0 .. MaxRequests))
  OBVIOUS
<1>5. r \in CppBroker
  BY <1>2, <1>3, <1>4, BrokerMade
<1>6. /\ r.requests = b.requests /\ r.list = b.list /\ r.idle = b.idle /\ r.workers = b.workers
      /\ r.count = b.count /\ r.out = <<>>
  BY <1>3
<1>7. Coherent(r) /\ NoneWaits(r)
  BY <1>1, <1>5, <1>6 DEF Coherent, NoneWaits
<1> QED BY <1>6, <1>7 DEF r

----------------------------------------------------------------------------
\* A record of such fields is a worker.
LEMMA ApiMade ==
    ASSUME NEW i \in 0 .. MaxSessions, NEW t \in {"new", "waiting", "busy", "ended"},
           NEW n \in 0 .. MaxRequests, NEW m \in Seq(0 .. Astray)
    PROVE  [id |-> i, at |-> t, request |-> n, mail |-> m] \in CppApi
  BY DEF CppApi

\* The fields of a worker's record.
LEMMA ApiFields ==
    ASSUME NEW e \in CppApi
    PROVE  /\ e.id \in 0 .. MaxSessions /\ e.at \in {"new", "waiting", "busy", "ended"}
           /\ e.request \in 0 .. MaxRequests /\ e.mail \in Seq(0 .. Astray)
           /\ e = [id |-> e.id, at |-> e.at, request |-> e.request, mail |-> e.mail]
  BY DEF CppApi

\* A worker that is sent something changes in nothing but its mail.
LEMMA MailedIs ==
    ASSUME NEW a \in [CppWorker -> CppApi], NEW i, NEW x \in 0 .. Astray, NEW b, b = Mailed(a, i, x)
    PROVE  /\ b \in [CppWorker -> CppApi]
           /\ \A w \in CppWorker :
                /\ b[w].id = a[w].id /\ b[w].at = a[w].at /\ b[w].request = a[w].request
                /\ a[w].id # i => b[w] = a[w]
                /\ a[w].id = i => b[w].mail = Append(a[w].mail, x)
                /\ a[w].id # i \/ x \in {DISCONNECT, Astray} => WorkIn(b[w]) = WorkIn(a[w])
                /\ WorkIn(b[w]) \subseteq WorkIn(a[w]) \cup {Len(a[w].mail) + 1}
                /\ \A k \in WorkIn(b[w]) : (k \in WorkIn(a[w]) /\ b[w].mail[k] = a[w].mail[k])
                                           \/ (a[w].id = i /\ b[w].mail[k] = x)
<1>1. ASSUME NEW w \in CppWorker
      PROVE  /\ b[w] \in CppApi /\ b[w].id = a[w].id /\ b[w].at = a[w].at /\ b[w].request = a[w].request
             /\ a[w].id # i => b[w] = a[w]
             /\ a[w].id = i => b[w].mail = Append(a[w].mail, x)
  <2>1. a[w] \in CppApi
    OBVIOUS
  <2>2. a[w].mail \in Seq(0 .. Astray) /\ Append(a[w].mail, x) \in Seq(0 .. Astray)
    BY <2>1, ApiFields
  <2>3. b[w] = IF a[w].id = i THEN [a[w] EXCEPT !.mail = Append(@, x)] ELSE a[w]
    BY DEF Mailed
  <2> DEFINE m == Append(a[w].mail, x)
  <2>4. [a[w] EXCEPT !.mail = m] = [id |-> a[w].id, at |-> a[w].at, request |-> a[w].request, mail |-> m]
    <3> HIDE DEF m
    <3> QED BY <2>1, ApiFields
  <2>5. [a[w] EXCEPT !.mail = m] \in CppApi
    <3>1. m \in Seq(0 .. Astray)
      BY <2>2
    <3> HIDE DEF m
    <3> QED BY <2>1, <2>4, <3>1, ApiFields, ApiMade
  <2>6. CASE a[w].id = i
    <3>1. b[w] = [a[w] EXCEPT !.mail = m]
      BY <2>3, <2>6
    <3> HIDE DEF m
    <3>2. b[w] \in CppApi /\ b[w].id = a[w].id /\ b[w].at = a[w].at /\ b[w].request = a[w].request /\ b[w].mail = m
      BY <2>4, <2>5, <3>1
    <3> QED BY <2>6, <3>2 DEF m
  <2>7. CASE a[w].id # i
    BY <2>1, <2>3, <2>7
  <2> QED BY <2>6, <2>7
<1>2. b \in [CppWorker -> CppApi]
  <2>1. b = [w \in CppWorker |-> b[w]]
    BY DEF Mailed
  <2> QED BY <1>1, <2>1
<1>3. ASSUME NEW w \in CppWorker
      PROVE  /\ a[w].id # i \/ x \in {DISCONNECT, Astray} => WorkIn(b[w]) = WorkIn(a[w])
             /\ WorkIn(b[w]) \subseteq WorkIn(a[w]) \cup {Len(a[w].mail) + 1}
             /\ \A k \in WorkIn(b[w]) : (k \in WorkIn(a[w]) /\ b[w].mail[k] = a[w].mail[k])
                                        \/ (a[w].id = i /\ b[w].mail[k] = x)
  <2>1. CASE a[w].id # i
    BY <1>1, <2>1 DEF WorkIn
  <2>2. CASE a[w].id = i
    <3> DEFINE q == a[w].mail
               p == b[w].mail
               l == Len(q)
    <3>1. q \in Seq(0 .. Astray)
      BY ApiFields
    <3>2. p = Append(q, x)
      BY <1>1, <2>2
    <3> HIDE DEF q, p
    <3>3. /\ DOMAIN q = 1 .. l /\ DOMAIN p = 1 .. l + 1
          /\ \A k \in 1 .. l : p[k] = q[k] /\ k \in 1 .. l + 1
          /\ p[l + 1] = x /\ l + 1 \in 1 .. l + 1
          /\ \A k \in 1 .. l + 1 : k \in 1 .. l \/ k = l + 1
      BY <3>1, <3>2, Appended
    <3> HIDE DEF l
    <3>4. WorkIn(b[w]) = {k \in 1 .. l + 1 : p[k] \notin {DISCONNECT, Astray}}
      BY <3>3 DEF WorkIn, p
    <3>5. WorkIn(a[w]) = {k \in 1 .. l : q[k] \notin {DISCONNECT, Astray}}
      BY <3>3 DEF WorkIn, q
    <3>6. \A k \in WorkIn(b[w]) : (k \in WorkIn(a[w]) /\ p[k] = q[k]) \/ (p[k] = x /\ k = l + 1 /\ x \notin {DISCONNECT, Astray})
      BY <3>3, <3>4, <3>5
    <3>7. \A k \in WorkIn(a[w]) : k \in WorkIn(b[w])
      BY <3>3, <3>4, <3>5
    <3> QED BY <2>2, <3>6, <3>7 DEF p, q, l
  <2> QED BY <2>1, <2>2
<1> QED BY <1>1, <1>2, <1>3

----------------------------------------------------------------------------
\* The broker reads a message.
LEMMA ExchangeTail ==
    ASSUME NEW q \in Seq(CppMessage), q # <<>>, NEW a, NEW D, NEW idle, Exchange(q, a, D, idle)
    PROVE  Exchange(Tail(q), a, D, idle)
<1> DEFINE p == Tail(q)
<1>1. \A k \in DOMAIN p : p[k] = q[k + 1] /\ k + 1 \in DOMAIN q /\ k \in Nat
  <2>1. /\ DOMAIN q = 1 .. Len(q) /\ DOMAIN p = 1 .. Len(q) - 1
        /\ Len(q) \in Nat /\ \A k \in 1 .. Len(q) - 1 : p[k] = q[k + 1] /\ k + 1 \in 1 .. Len(q)
    BY Tailed
  <2> HIDE DEF p
  <2> QED BY <2>1
<1> HIDE DEF p
<1>2. ASSUME NEW k \in DOMAIN p, NEW l \in DOMAIN p
      PROVE  /\ p[k].kind = "READY" /\ p[l].kind = "READY" /\ p[k].from = p[l].from => k = l
             /\ p[k].kind = "REPLY" /\ p[l].kind = "REPLY" /\ p[k].from = p[l].from => k = l
             /\ p[k].kind = "READY" /\ p[l].kind = "REPLY" /\ p[k].from = p[l].from => p[k].from \in D
  <2>1. PICK k1, l1 : k1 = k + 1 /\ l1 = l + 1
    OBVIOUS
  <2>2. k1 \in DOMAIN q /\ l1 \in DOMAIN q /\ p[k] = q[k1] /\ p[l] = q[l1]
    BY <1>1, <2>1
  <2>3. /\ p[k].kind = "READY" /\ p[l].kind = "READY" /\ p[k].from = p[l].from => k1 = l1
        /\ p[k].kind = "REPLY" /\ p[l].kind = "REPLY" /\ p[k].from = p[l].from => k1 = l1
        /\ p[k].kind = "READY" /\ p[l].kind = "REPLY" /\ p[k].from = p[l].from => p[k].from \in D
    BY <2>2 DEF Exchange
  <2>4. k1 = l1 => k = l
    BY <1>1, <2>1
  <2> QED BY <2>3, <2>4
<1>3. ASSUME NEW k \in DOMAIN p
      PROVE  /\ p[k].kind = "REPLY" => p[k].from \notin idle /\ AtRest(a, p[k].from)
             /\ p[k].kind = "READY" /\ p[k].from \notin D => AtRest(a, p[k].from)
  <2>1. PICK k1 : k1 = k + 1
    OBVIOUS
  <2>2. k1 \in DOMAIN q /\ p[k] = q[k1]
    BY <1>1, <2>1
  <2> QED BY <2>2 DEF Exchange
<1>4. \A w \in CppWorker :
        /\ a[w].at = "busy" => WorkIn(a[w]) = {} /\ a[w].id \notin idle
        /\ WorkIn(a[w]) # {} => a[w].id # 0 /\ a[w].id \notin idle
        /\ \A j, k \in WorkIn(a[w]) : j = k
  BY DEF Exchange
<1>5. Exchange(p, a, D, idle)
  BY <1>2, <1>3, <1>4 DEF Exchange
<1> QED BY <1>5 DEF p

\* What the first message tells of its sender, after it is read.
LEMMA ExchangeHead ==
    ASSUME NEW q \in Seq(CppMessage), q # <<>>, NEW a, NEW D, NEW idle, Exchange(q, a, D, idle)
    PROVE  LET e == Head(q) IN
           /\ e.kind \in {"READY", "REPLY"} =>
                \A k \in DOMAIN Tail(q) : Tail(q)[k].kind = e.kind => Tail(q)[k].from # e.from
           /\ e.kind = "READY" /\ e.from \notin D =>
                /\ AtRest(a, e.from)
                /\ \A k \in DOMAIN Tail(q) : Tail(q)[k].kind = "REPLY" => Tail(q)[k].from # e.from
           /\ e.kind = "REPLY" => e.from \notin idle /\ AtRest(a, e.from)
<1> DEFINE p == Tail(q)
           e == Head(q)
<1>1. /\ e = q[1] /\ 1 \in DOMAIN q
      /\ \A k \in DOMAIN p : p[k] = q[k + 1] /\ k + 1 \in DOMAIN q /\ k + 1 # 1
  <2>1. /\ Head(q) = q[1] /\ 1 \in 1 .. Len(q) /\ DOMAIN q = 1 .. Len(q) /\ DOMAIN p = 1 .. Len(q) - 1
        /\ Len(q) \in Nat /\ \A k \in 1 .. Len(q) - 1 : p[k] = q[k + 1] /\ k + 1 \in 1 .. Len(q)
    BY Tailed
  <2>2. \A k \in 1 .. Len(q) - 1 : k + 1 # 1
    BY <2>1
  <2> HIDE DEF p
  <2> QED BY <2>1, <2>2
<1> HIDE DEF p, e
<1>2. ASSUME NEW k \in DOMAIN p
      PROVE  /\ e.kind \in {"READY", "REPLY"} /\ p[k].kind = e.kind => p[k].from # e.from
             /\ e.kind = "READY" /\ e.from \notin D /\ p[k].kind = "REPLY" => p[k].from # e.from
  <2>1. PICK k1 : k1 = k + 1
    OBVIOUS
  <2>2. k1 \in DOMAIN q /\ p[k] = q[k1] /\ k1 # 1 /\ e = q[1] /\ 1 \in DOMAIN q
    BY <1>1, <2>1
  <2> QED BY <2>2 DEF Exchange
<1>3. /\ e.kind = "READY" /\ e.from \notin D => AtRest(a, e.from)
      /\ e.kind = "REPLY" => e.from \notin idle /\ AtRest(a, e.from)
  BY <1>1 DEF Exchange
<1> QED BY <1>2, <1>3 DEF p, e

\* Fewer workers are known and idle: those that were idle, or have said no READY.
LEMMA ExchangeLess ==
    ASSUME NEW q, NEW a, NEW D, NEW idle, Exchange(q, a, D, idle), NEW D2 \in SUBSET D, NEW idle2 \in SUBSET idle,
           \A w \in CppWorker : a[w].id \in D => a[w].at \in {"waiting", "busy"},
           \A i \in D \ D2 : i \in idle \/ \A k \in DOMAIN q : q[k].kind = "READY" => q[k].from # i
    PROVE  Exchange(q, a, D2, idle2)
<1>1. ASSUME NEW k \in DOMAIN q, q[k].kind = "READY", q[k].from \notin D2
      PROVE  AtRest(a, q[k].from) /\ \A l \in DOMAIN q : q[l].kind = "REPLY" => q[l].from # q[k].from
  <2>1. CASE q[k].from \notin D
    BY <1>1, <2>1 DEF Exchange
  <2>2. CASE q[k].from \in D
    <3>1. q[k].from \in idle
      BY <1>1, <2>2
    <3>2. \A l \in DOMAIN q : q[l].kind = "REPLY" => q[l].from # q[k].from
      BY <3>1 DEF Exchange
    <3>3. ASSUME NEW w \in CppWorker, a[w].id = q[k].from
          PROVE  a[w].at = "waiting" /\ WorkIn(a[w]) = {}
      BY <2>2, <3>1, <3>3 DEF Exchange
    <3> QED BY <3>2, <3>3 DEF AtRest
  <2> QED BY <2>1, <2>2
<1>2. ASSUME NEW k \in DOMAIN q, NEW l \in DOMAIN q
      PROVE  /\ q[k].kind = "READY" /\ q[l].kind = "READY" /\ q[k].from = q[l].from => k = l
             /\ q[k].kind = "REPLY" /\ q[l].kind = "REPLY" /\ q[k].from = q[l].from => k = l
             /\ q[k].kind = "READY" /\ q[l].kind = "REPLY" /\ q[k].from = q[l].from => q[k].from \in D2
  <2>1. /\ q[k].kind = "READY" /\ q[l].kind = "READY" /\ q[k].from = q[l].from => k = l
        /\ q[k].kind = "REPLY" /\ q[l].kind = "REPLY" /\ q[k].from = q[l].from => k = l
    BY DEF Exchange
  <2> QED BY <1>1, <2>1
<1>3. ASSUME NEW k \in DOMAIN q
      PROVE  /\ q[k].kind = "REPLY" => q[k].from \notin idle2 /\ AtRest(a, q[k].from)
             /\ q[k].kind = "READY" /\ q[k].from \notin D2 => AtRest(a, q[k].from)
  <2>1. q[k].kind = "REPLY" => q[k].from \notin idle2 /\ AtRest(a, q[k].from)
    BY DEF Exchange
  <2> QED BY <1>1, <2>1
<1>4. ASSUME NEW w \in CppWorker
      PROVE  /\ a[w].at = "busy" => WorkIn(a[w]) = {} /\ a[w].id \notin idle2
             /\ WorkIn(a[w]) # {} => a[w].id # 0 /\ a[w].id \notin idle2
             /\ \A j, k \in WorkIn(a[w]) : j = k
  BY DEF Exchange
<1> QED BY <1>2, <1>3, <1>4 DEF Exchange

\* The broker holds one more for idle, and knows it.
LEMMA ExchangeIdle ==
    ASSUME NEW q, NEW a, NEW D, NEW idle, Exchange(q, a, D, idle), NEW i, AtRest(a, i),
           \A k \in DOMAIN q : q[k].kind = "REPLY" => q[k].from # i
    PROVE  Exchange(q, a, D \cup {i}, idle \cup {i})
<1>1. ASSUME NEW k \in DOMAIN q, NEW l \in DOMAIN q
      PROVE  /\ q[k].kind = "READY" /\ q[l].kind = "READY" /\ q[k].from = q[l].from => k = l
             /\ q[k].kind = "REPLY" /\ q[l].kind = "REPLY" /\ q[k].from = q[l].from => k = l
             /\ q[k].kind = "READY" /\ q[l].kind = "REPLY" /\ q[k].from = q[l].from => q[k].from \in D \cup {i}
  BY DEF Exchange
<1>2. ASSUME NEW k \in DOMAIN q
      PROVE  /\ q[k].kind = "REPLY" => q[k].from \notin idle \cup {i} /\ AtRest(a, q[k].from)
             /\ q[k].kind = "READY" /\ q[k].from \notin D \cup {i} => AtRest(a, q[k].from)
  <2>1. /\ q[k].kind = "REPLY" => q[k].from \notin idle /\ AtRest(a, q[k].from)
        /\ q[k].kind = "READY" /\ q[k].from \notin D => AtRest(a, q[k].from)
    BY DEF Exchange
  <2> QED BY <2>1
<1>3. ASSUME NEW w \in CppWorker
      PROVE  /\ a[w].at = "busy" => WorkIn(a[w]) = {} /\ a[w].id \notin idle \cup {i}
             /\ WorkIn(a[w]) # {} => a[w].id # 0 /\ a[w].id \notin idle \cup {i}
             /\ \A j, k \in WorkIn(a[w]) : j = k
  <2>1. /\ a[w].at = "busy" => WorkIn(a[w]) = {} /\ a[w].id \notin idle
        /\ WorkIn(a[w]) # {} => a[w].id # 0 /\ a[w].id \notin idle
        /\ \A j, k \in WorkIn(a[w]) : j = k
    BY DEF Exchange
  <2>2. a[w].id = i => a[w].at = "waiting" /\ WorkIn(a[w]) = {}
    BY DEF AtRest
  <2> QED BY <2>1, <2>2
<1> QED BY <1>1, <1>2, <1>3 DEF Exchange

\* A worker is told to go, or an idle one is sent a request and is idle no more.
LEMMA ExchangeSent ==
    ASSUME NEW q, NEW a \in [CppWorker -> CppApi], NEW D, NEW idle, Exchange(q, a, D, idle),
           NEW i, NEW x \in 0 .. Astray,
           NEW idle2 \in SUBSET idle, x \in {DISCONNECT, Astray} \/ (i # 0 /\ i \in idle /\ i \in D /\ i \notin idle2)
    PROVE  Exchange(q, Mailed(a, i, x), D, idle2)
<1>0. PICK b : b = Mailed(a, i, x)
  OBVIOUS
<1>1. \A w \in CppWorker :
        /\ b[w].id = a[w].id /\ b[w].at = a[w].at
        /\ a[w].id # i \/ x \in {DISCONNECT, Astray} => WorkIn(b[w]) = WorkIn(a[w])
        /\ WorkIn(b[w]) \subseteq WorkIn(a[w]) \cup {Len(a[w].mail) + 1}
  <2>1. \A w \in CppWorker : b[w].id = a[w].id /\ b[w].at = a[w].at
    BY <1>0, MailedIs
  <2>2. \A w \in CppWorker : a[w].id # i \/ x \in {DISCONNECT, Astray} => WorkIn(b[w]) = WorkIn(a[w])
    BY <1>0, MailedIs
  <2>3. \A w \in CppWorker : WorkIn(b[w]) \subseteq WorkIn(a[w]) \cup {Len(a[w].mail) + 1}
    BY <1>0, MailedIs
  <2> QED BY <2>1, <2>2, <2>3
<1>2. ASSUME NEW j, AtRest(a, j), j # i \/ x \in {DISCONNECT, Astray}
      PROVE  AtRest(b, j)
  BY <1>1, <1>2 DEF AtRest
<1>3. ASSUME NEW k \in DOMAIN q, NEW l \in DOMAIN q
      PROVE  /\ q[k].kind = "READY" /\ q[l].kind = "READY" /\ q[k].from = q[l].from => k = l
             /\ q[k].kind = "REPLY" /\ q[l].kind = "REPLY" /\ q[k].from = q[l].from => k = l
             /\ q[k].kind = "READY" /\ q[l].kind = "REPLY" /\ q[k].from = q[l].from => q[k].from \in D
  BY DEF Exchange
<1>4. ASSUME NEW k \in DOMAIN q
      PROVE  /\ q[k].kind = "REPLY" => q[k].from \notin idle2 /\ AtRest(b, q[k].from)
             /\ q[k].kind = "READY" /\ q[k].from \notin D => AtRest(b, q[k].from)
  <2>1. /\ q[k].kind = "REPLY" => q[k].from \notin idle /\ AtRest(a, q[k].from)
        /\ q[k].kind = "READY" /\ q[k].from \notin D => AtRest(a, q[k].from)
    BY DEF Exchange
  <2> QED BY <1>2, <2>1
<1>5. ASSUME NEW w \in CppWorker
      PROVE  /\ b[w].at = "busy" => WorkIn(b[w]) = {} /\ b[w].id \notin idle2
             /\ WorkIn(b[w]) # {} => b[w].id # 0 /\ b[w].id \notin idle2
             /\ \A j, k \in WorkIn(b[w]) : j = k
  <2>1. /\ a[w].at = "busy" => WorkIn(a[w]) = {} /\ a[w].id \notin idle
        /\ WorkIn(a[w]) # {} => a[w].id # 0 /\ a[w].id \notin idle
        /\ \A j, k \in WorkIn(a[w]) : j = k
    BY DEF Exchange
  <2>2. CASE a[w].id # i \/ x \in {DISCONNECT, Astray}
    BY <1>1, <2>1, <2>2
  <2>3. CASE a[w].id = i /\ x \notin {DISCONNECT, Astray}
    BY <1>1, <2>1, <2>3
  <2> QED BY <2>2, <2>3
<1>6. Exchange(q, b, D, idle2)
  BY <1>3, <1>4, <1>5 DEF Exchange
<1> QED BY <1>0, <1>6

\* A message joins those in the socket: READY of a new connection, the reply of one
\* that is at work no more, or no step of an exchange.
LEMMA ExchangeAppend ==
    ASSUME NEW q \in Seq(CppMessage), NEW m \in CppMessage, NEW a, NEW D, NEW idle, Exchange(q, a, D, idle),
           \/ m.kind \notin {"READY", "REPLY"}
           \/ /\ m.kind = "READY" /\ AtRest(a, m.from)
              /\ \A k \in DOMAIN q : q[k].kind \in {"READY", "REPLY"} => q[k].from # m.from
           \/ /\ m.kind = "REPLY" /\ AtRest(a, m.from) /\ m.from \notin idle
              /\ \A k \in DOMAIN q : q[k].kind = "REPLY" => q[k].from # m.from
              /\ \A k \in DOMAIN q : q[k].kind = "READY" /\ q[k].from = m.from => m.from \in D
    PROVE  Exchange(Append(q, m), a, D, idle)
<1> DEFINE p == Append(q, m)
           l == Len(q)
<1>1. /\ DOMAIN q = 1 .. l /\ DOMAIN p = 1 .. l + 1
      /\ \A k \in 1 .. l : p[k] = q[k] /\ k \in 1 .. l + 1
      /\ p[l + 1] = m /\ l + 1 \in 1 .. l + 1
      /\ \A k \in 1 .. l + 1 : k \in 1 .. l \/ k = l + 1
  BY Appended
<1> HIDE DEF p, l
<1>2. ASSUME NEW k \in DOMAIN p, NEW j \in DOMAIN p
      PROVE  /\ p[k].kind = "READY" /\ p[j].kind = "READY" /\ p[k].from = p[j].from => k = j
             /\ p[k].kind = "REPLY" /\ p[j].kind = "REPLY" /\ p[k].from = p[j].from => k = j
             /\ p[k].kind = "READY" /\ p[j].kind = "REPLY" /\ p[k].from = p[j].from => p[k].from \in D
  <2>2. (k \in DOMAIN q \/ k = l + 1) /\ (j \in DOMAIN q \/ j = l + 1)
    BY <1>1
  <2>3. CASE k \in DOMAIN q /\ j \in DOMAIN q
    <3>1. p[k] = q[k] /\ p[j] = q[j]
      BY <1>1, <2>3
    <3> QED BY <2>3, <3>1 DEF Exchange
  <2>4. CASE k \in DOMAIN q /\ j = l + 1
    <3>1. p[k] = q[k] /\ p[j] = m
      BY <1>1, <2>4
    <3> QED BY <2>4, <3>1
  <2>5. CASE k = l + 1 /\ j \in DOMAIN q
    <3>1. p[k] = m /\ p[j] = q[j]
      BY <1>1, <2>5
    <3> QED BY <2>5, <3>1
  <2>6. CASE k = l + 1 /\ j = l + 1
    <3>1. p[k] = m /\ p[j] = m /\ k = j
      BY <1>1, <2>6
    <3> QED BY <3>1
  <2> QED BY <2>2, <2>3, <2>4, <2>5, <2>6
<1>3. ASSUME NEW k \in DOMAIN p
      PROVE  /\ p[k].kind = "REPLY" => p[k].from \notin idle /\ AtRest(a, p[k].from)
             /\ p[k].kind = "READY" /\ p[k].from \notin D => AtRest(a, p[k].from)
  <2>1. CASE k \in DOMAIN q
    <3>1. p[k] = q[k]
      BY <1>1, <2>1
    <3> QED BY <2>1, <3>1 DEF Exchange
  <2>2. CASE k = l + 1
    <3>1. p[k] = m
      BY <1>1, <2>2
    <3> QED BY <3>1
  <2> QED BY <1>1, <2>1, <2>2
<1>4. \A w \in CppWorker :
        /\ a[w].at = "busy" => WorkIn(a[w]) = {} /\ a[w].id \notin idle
        /\ WorkIn(a[w]) # {} => a[w].id # 0 /\ a[w].id \notin idle
        /\ \A j, k \in WorkIn(a[w]) : j = k
  BY DEF Exchange
<1>5. Exchange(p, a, D, idle)
  BY <1>2, <1>3, <1>4 DEF Exchange
<1> QED BY <1>5 DEF p

\* One worker changes.
LEMMA ExchangeWorker ==
    ASSUME NEW q, NEW a \in [CppWorker -> CppApi], NEW D, NEW idle, Exchange(q, a, D, idle),
           NEW w \in CppWorker, NEW e \in CppApi,
           \A k \in DOMAIN q : /\ q[k].kind = "REPLY" => q[k].from # e.id
                               /\ q[k].kind = "READY" /\ q[k].from = e.id => e.id \in D,
           e.at = "busy" => WorkIn(e) = {} /\ e.id \notin idle,
           WorkIn(e) # {} => e.id # 0 /\ e.id \notin idle,
           \A j, k \in WorkIn(e) : j = k
    PROVE  Exchange(q, [a EXCEPT ![w] = e], D, idle)
<1> DEFINE b == [a EXCEPT ![w] = e]
<1>1. \A v \in CppWorker : b[v] = IF v = w THEN e ELSE a[v]
  OBVIOUS
<1> HIDE DEF b
<1>2. ASSUME NEW k \in DOMAIN q, NEW l \in DOMAIN q
      PROVE  /\ q[k].kind = "READY" /\ q[l].kind = "READY" /\ q[k].from = q[l].from => k = l
             /\ q[k].kind = "REPLY" /\ q[l].kind = "REPLY" /\ q[k].from = q[l].from => k = l
             /\ q[k].kind = "READY" /\ q[l].kind = "REPLY" /\ q[k].from = q[l].from => q[k].from \in D
  BY DEF Exchange
<1>3. ASSUME NEW i, AtRest(a, i), i # e.id PROVE AtRest(b, i)
  BY <1>1, <1>3 DEF AtRest
<1>4. ASSUME NEW k \in DOMAIN q
      PROVE  /\ q[k].kind = "REPLY" => q[k].from \notin idle /\ AtRest(b, q[k].from)
             /\ q[k].kind = "READY" /\ q[k].from \notin D => AtRest(b, q[k].from)
  <2>1. /\ q[k].kind = "REPLY" => q[k].from \notin idle /\ AtRest(a, q[k].from)
        /\ q[k].kind = "READY" /\ q[k].from \notin D => AtRest(a, q[k].from)
    BY DEF Exchange
  <2> QED BY <1>3, <2>1
<1>5. ASSUME NEW v \in CppWorker
      PROVE  /\ b[v].at = "busy" => WorkIn(b[v]) = {} /\ b[v].id \notin idle
             /\ WorkIn(b[v]) # {} => b[v].id # 0 /\ b[v].id \notin idle
             /\ \A j, k \in WorkIn(b[v]) : j = k
  <2>1. CASE v = w
    BY <1>1, <2>1
  <2>2. CASE v # w
    BY <1>1, <2>2 DEF Exchange
  <2> QED BY <2>1, <2>2
<1>6. Exchange(q, b, D, idle)
  BY <1>2, <1>4, <1>5 DEF Exchange
<1> QED BY <1>6 DEF b

\* The broker reads a message, which leaves the others as they are.
LEMMA PeersTail ==
    ASSUME NEW q, NEW a, NEW d, NEW c, PeersAre(q, a, d, c), q # <<>>
    PROVE  PeersAre(Tail(q), a, d, c)
<1> DEFINE p == Tail(q)
<1>1. q \in Seq(CppMessage)
  BY DEF PeersAre
<1>2. p \in Seq(CppMessage) /\ \A k \in DOMAIN p : p[k] = q[k + 1] /\ k + 1 \in DOMAIN q
  <2>1. /\ p \in Seq(CppMessage) /\ DOMAIN q = 1 .. Len(q) /\ DOMAIN p = 1 .. Len(q) - 1
        /\ \A k \in 1 .. Len(q) - 1 : p[k] = q[k + 1] /\ k + 1 \in 1 .. Len(q)
    BY <1>1, Tailed
  <2> HIDE DEF p
  <2> QED BY <2>1
<1> HIDE DEF p
<1>3. ASSUME NEW k \in DOMAIN p
      PROVE  /\ p[k].kind \in {"READY", "HEARTBEAT"} => p[k].request = 0
             /\ p[k].kind \in {"READY", "HEARTBEAT", "REPLY"} => p[k].from \in Identity /\ Had(p[k].from, a, c)
             /\ p[k].kind \in {"REPLY", "echo", "mmi.service"} => p[k].request # 0
  BY <1>2 DEF PeersAre
<1>4. PeersAre(p, a, d, c)
  BY <1>2, <1>3 DEF PeersAre
<1> QED BY <1>4 DEF p

\* A worker is sent something.
LEMMA PeersSent ==
    ASSUME NEW q, NEW a, NEW d, NEW c, PeersAre(q, a, d, c), NEW i, NEW x \in 0 .. Astray
    PROVE  PeersAre(q, Mailed(a, i, x), d, c)
<1>0. PICK b : b = Mailed(a, i, x)
  OBVIOUS
<1>1. a \in [CppWorker -> CppApi]
  BY DEF PeersAre
<1>2. b \in [CppWorker -> CppApi]
  BY <1>0, <1>1, MailedIs
<1>3. \A w \in CppWorker : b[w].id = a[w].id /\ b[w].at = a[w].at /\ b[w].request = a[w].request
  BY <1>0, <1>1, MailedIs
<1>4. \A j : Had(j, a, c) => Had(j, b, c)
  BY <1>3 DEF Had
<1>5. ASSUME NEW k \in DOMAIN q
      PROVE  /\ q[k].kind \in {"READY", "HEARTBEAT"} => q[k].request = 0
             /\ q[k].kind \in {"READY", "HEARTBEAT", "REPLY"} => q[k].from \in Identity /\ Had(q[k].from, b, c)
             /\ q[k].kind \in {"REPLY", "echo", "mmi.service"} => q[k].request # 0
  BY <1>4 DEF PeersAre
<1>6. ASSUME NEW w \in CppWorker
      PROVE  /\ b[w].at \in {"new", "ended"} => b[w].id = 0
             /\ b[w].at = "busy" => b[w].id # 0
             /\ b[w].at = "busy" <=> b[w].request # 0
             /\ b[w].id \in 0 .. d[w]
  <2>1. /\ a[w].at \in {"new", "ended"} => a[w].id = 0
        /\ a[w].at = "busy" => a[w].id # 0
        /\ a[w].at = "busy" <=> a[w].request # 0
        /\ a[w].id \in 0 .. d[w]
    BY DEF PeersAre
  <2> QED BY <1>3, <2>1
<1>7. \A w, v \in CppWorker : b[w].id = b[v].id /\ b[w].id # 0 => w = v
  BY <1>3 DEF PeersAre
<1>8. PeersAre(q, b, d, c)
  BY <1>2, <1>5, <1>6, <1>7 DEF PeersAre
<1> QED BY <1>0, <1>8

\* A message joins those in the socket.
LEMMA PeersAppend ==
    ASSUME NEW q, NEW a, NEW d, NEW c, PeersAre(q, a, d, c), NEW m \in CppMessage,
           m.kind \in {"READY", "HEARTBEAT"} => m.request = 0,
           m.kind \in {"READY", "HEARTBEAT", "REPLY"} => m.from \in Identity /\ Had(m.from, a, c),
           m.kind \in {"REPLY", "echo", "mmi.service"} => m.request # 0
    PROVE  PeersAre(Append(q, m), a, d, c)
<1> DEFINE p == Append(q, m)
           l == Len(q)
<1>1. q \in Seq(CppMessage)
  BY DEF PeersAre
<1>2. /\ p \in Seq(CppMessage) /\ DOMAIN q = 1 .. l /\ DOMAIN p = 1 .. l + 1
      /\ \A k \in 1 .. l : p[k] = q[k] /\ k \in 1 .. l + 1
      /\ p[l + 1] = m
      /\ \A k \in 1 .. l + 1 : k \in 1 .. l \/ k = l + 1
  BY <1>1, Appended
<1> HIDE DEF p, l
<1>3. ASSUME NEW k \in DOMAIN p
      PROVE  /\ p[k].kind \in {"READY", "HEARTBEAT"} => p[k].request = 0
             /\ p[k].kind \in {"READY", "HEARTBEAT", "REPLY"} => p[k].from \in Identity /\ Had(p[k].from, a, c)
             /\ p[k].kind \in {"REPLY", "echo", "mmi.service"} => p[k].request # 0
  <2>1. CASE k \in DOMAIN q
    BY <1>2, <2>1 DEF PeersAre
  <2>2. CASE k = l + 1
    BY <1>2, <2>2
  <2> QED BY <1>2, <2>1, <2>2
<1>4. PeersAre(p, a, d, c)
  BY <1>2, <1>3 DEF PeersAre
<1> QED BY <1>4 DEF p

\* A worker changes its phase, or gets a new connection.
LEMMA PeersWorker ==
    ASSUME NEW q, NEW a, NEW d, NEW c, PeersAre(q, a, d, c),
           NEW w \in CppWorker, NEW e \in CppApi, NEW n \in 0 .. MaxSessions, NEW d2, d2 = [d EXCEPT ![w] = n],
           NEW c2 \in SUBSET Identity, c \subseteq c2, a[w].id \in {0, e.id} \cup c2,
           e.at \in {"new", "ended"} => e.id = 0,
           e.at = "busy" => e.id # 0,
           e.at = "busy" <=> e.request # 0,
           e.id \in 0 .. n,
           \A v \in CppWorker : v # w /\ e.id # 0 => a[v].id # e.id
    PROVE  PeersAre(q, [a EXCEPT ![w] = e], d2, c2)
<1> DEFINE b == [a EXCEPT ![w] = e]
<1>0. a \in [CppWorker -> CppApi] /\ d \in [CppWorker -> 0 .. MaxSessions]
  BY DEF PeersAre
<1>1. b \in [CppWorker -> CppApi] /\ \A v \in CppWorker : b[v] = IF v = w THEN e ELSE a[v]
  BY <1>0
<1> HIDE DEF b
<1>2. d2 \in [CppWorker -> 0 .. MaxSessions] /\ \A v \in CppWorker : d2[v] = IF v = w THEN n ELSE d[v]
  BY <1>0
<1>3. ASSUME NEW i \in Identity, Had(i, a, c) PROVE Had(i, b, c2)
  <2>1. i # 0
    BY DEF Identity
  <2>2. CASE i \in c
    BY <2>2 DEF Had
  <2>3. ASSUME NEW v \in CppWorker, a[v].id = i PROVE Had(i, b, c2)
    <3>1. CASE v = w
      <4>1. i = e.id \/ i \in c2
        BY <2>1, <2>3, <3>1
      <4> QED BY <1>1, <4>1 DEF Had
    <3>2. CASE v # w
      BY <1>1, <2>3, <3>2 DEF Had
    <3> QED BY <3>1, <3>2
  <2> QED BY <1>3, <2>2, <2>3 DEF Had
<1>4. ASSUME NEW k \in DOMAIN q
      PROVE  /\ q[k].kind \in {"READY", "HEARTBEAT"} => q[k].request = 0
             /\ q[k].kind \in {"READY", "HEARTBEAT", "REPLY"} => q[k].from \in Identity /\ Had(q[k].from, b, c2)
             /\ q[k].kind \in {"REPLY", "echo", "mmi.service"} => q[k].request # 0
  BY <1>3 DEF PeersAre
<1>5. ASSUME NEW v \in CppWorker
      PROVE  /\ b[v].at \in {"new", "ended"} => b[v].id = 0
             /\ b[v].at = "busy" => b[v].id # 0
             /\ b[v].at = "busy" <=> b[v].request # 0
             /\ b[v].id \in 0 .. d2[v]
  <2>1. CASE v = w
    BY <1>1, <1>2, <2>1
  <2>2. CASE v # w
    BY <1>1, <1>2, <2>2 DEF PeersAre
  <2> QED BY <2>1, <2>2
<1>6. \A u, v \in CppWorker : b[u].id = b[v].id /\ b[u].id # 0 => u = v
  BY <1>1 DEF PeersAre
<1>7. PeersAre(q, b, d2, c2)
  <2>1. q \in Seq(CppMessage)
    BY DEF PeersAre
  <2> QED BY <2>1, <1>1, <1>2, <1>4, <1>5, <1>6 DEF PeersAre
<1> QED BY <1>7 DEF b

\* The ROUTER lets go of an identity of which there is no message.
LEMMA PeersLetGo ==
    ASSUME NEW q, NEW a, NEW d, NEW c, PeersAre(q, a, d, c), NEW i, \A k \in DOMAIN q : q[k].from # i
    PROVE  PeersAre(q, a, d, c \ {i})
<1>1. \A j : j # i /\ Had(j, a, c) => Had(j, a, c \ {i})
  BY DEF Had
<1>2. ASSUME NEW k \in DOMAIN q
      PROVE  /\ q[k].kind \in {"READY", "HEARTBEAT"} => q[k].request = 0
             /\ q[k].kind \in {"READY", "HEARTBEAT", "REPLY"} => q[k].from \in Identity /\ Had(q[k].from, a, c \ {i})
             /\ q[k].kind \in {"REPLY", "echo", "mmi.service"} => q[k].request # 0
  BY <1>1 DEF PeersAre
<1> QED BY <1>2 DEF PeersAre

\* The ROUTER keeps an identity longer.
LEMMA PeersMore ==
    ASSUME NEW q, NEW a, NEW d, NEW c, PeersAre(q, a, d, c), NEW i \in Identity
    PROVE  PeersAre(q, a, d, c \cup {i})
<1>1. \A j : Had(j, a, c) => Had(j, a, c \cup {i})
  BY DEF Had
<1>2. ASSUME NEW k \in DOMAIN q
      PROVE  /\ q[k].kind \in {"READY", "HEARTBEAT"} => q[k].request = 0
             /\ q[k].kind \in {"READY", "HEARTBEAT", "REPLY"} => q[k].from \in Identity /\ Had(q[k].from, a, c \cup {i})
             /\ q[k].kind \in {"REPLY", "echo", "mmi.service"} => q[k].request # 0
  BY <1>1 DEF PeersAre
<1> QED BY <1>2 DEF PeersAre

----------------------------------------------------------------------------
\* The requests in the socket, without the first message.
LEMMA BoxTail ==
    ASSUME NEW q \in Seq(CppMessage), q # <<>>,
           \A k, l \in DOMAIN q : q[k].request = q[l].request /\ q[k].request # 0 => k = l
    PROVE  /\ Boxed(Tail(q)) = Boxed(q) \ {Head(q).request}
           /\ Head(q).request # 0 => Head(q).request \in Boxed(q)
           /\ \A k, l \in DOMAIN Tail(q) :
                Tail(q)[k].request = Tail(q)[l].request /\ Tail(q)[k].request # 0 => k = l
<1> DEFINE p == Tail(q)
<1>1. /\ Head(q) = q[1] /\ 1 \in DOMAIN q
      /\ \A k \in DOMAIN p : p[k] = q[k + 1] /\ k + 1 \in DOMAIN q /\ k \in Nat /\ k + 1 # 1
      /\ \A k \in DOMAIN q : k # 1 => k - 1 \in DOMAIN p /\ p[k - 1] = q[k]
  <2>1. /\ Head(q) = q[1] /\ 1 \in 1 .. Len(q) /\ DOMAIN q = 1 .. Len(q) /\ DOMAIN p = 1 .. Len(q) - 1
        /\ Len(q) \in Nat /\ \A k \in 1 .. Len(q) - 1 : p[k] = q[k + 1] /\ k + 1 \in 1 .. Len(q)
        /\ \A k \in 1 .. Len(q) : k # 1 => k - 1 \in 1 .. Len(q) - 1 /\ p[k - 1] = q[k]
    BY Tailed
  <2> HIDE DEF p
  <2> QED BY <2>1
<1> HIDE DEF p
<1>2. \A x \in Boxed(p) : x \in Boxed(q) \ {q[1].request}
  BY <1>1 DEF Boxed
<1>3. \A x \in Boxed(q) \ {q[1].request} : x \in Boxed(p)
  BY <1>1 DEF Boxed
<1>4. \A k, l \in DOMAIN p : p[k].request = p[l].request /\ p[k].request # 0 => k = l
  <2> SUFFICES ASSUME NEW k \in DOMAIN p, NEW l \in DOMAIN p, p[k].request = p[l].request, p[k].request # 0
               PROVE  k = l
    OBVIOUS
  <2>1. k + 1 = l + 1
    BY <1>1, SMTT(60)
  <2> QED BY <1>1, <2>1
<1>5. q[1].request # 0 => q[1].request \in Boxed(q)
  BY <1>1 DEF Boxed
<1> QED BY <1>1, <1>2, <1>3, <1>4, <1>5 DEF p

\* The requests in the socket, with one more message.
LEMMA BoxAppend ==
    ASSUME NEW q \in Seq(CppMessage), NEW m \in CppMessage, m.request \notin Boxed(q),
           \A k, l \in DOMAIN q : q[k].request = q[l].request /\ q[k].request # 0 => k = l
    PROVE  /\ Boxed(Append(q, m)) = Boxed(q) \cup ({m.request} \ {0})
           /\ \A k, l \in DOMAIN Append(q, m) :
                Append(q, m)[k].request = Append(q, m)[l].request /\ Append(q, m)[k].request # 0 => k = l
<1> DEFINE p == Append(q, m)
           n == Len(q)
<1>1. /\ DOMAIN q = 1 .. n /\ DOMAIN p = 1 .. n + 1
      /\ \A k \in 1 .. n : p[k] = q[k] /\ k \in 1 .. n + 1
      /\ p[n + 1] = m /\ n + 1 \in 1 .. n + 1
      /\ \A k \in 1 .. n + 1 : k \in 1 .. n \/ k = n + 1
  BY Appended
<1> HIDE DEF p, n
<1>2. \A x \in Boxed(p) : x \in Boxed(q) \cup ({m.request} \ {0})
  BY <1>1 DEF Boxed
<1>3. \A x \in Boxed(q) \cup ({m.request} \ {0}) : x \in Boxed(p)
  BY <1>1 DEF Boxed
<1>4. \A k, l \in DOMAIN p : p[k].request = p[l].request /\ p[k].request # 0 => k = l
  <2> SUFFICES ASSUME NEW k \in DOMAIN p, NEW l \in DOMAIN p, p[k].request = p[l].request, p[k].request # 0
               PROVE  k = l
    OBVIOUS
  <2>1. \A j \in DOMAIN q : q[j].request # 0 => q[j].request \in Boxed(q)
    BY DEF Boxed
  <2>2. (k \in DOMAIN q \/ k = n + 1) /\ (l \in DOMAIN q \/ l = n + 1)
    BY <1>1
  <2>3. CASE k \in DOMAIN q /\ l \in DOMAIN q
    BY <1>1, <2>3
  <2>4. CASE k \in DOMAIN q /\ l = n + 1
    BY <1>1, <2>1, <2>4
  <2>5. CASE k = n + 1 /\ l \in DOMAIN q
    BY <1>1, <2>1, <2>5
  <2> QED BY <2>2, <2>3, <2>4, <2>5
<1> QED BY <1>2, <1>3, <1>4 DEF p

\* A list that takes or loses an element, in terms of sets.
LEMMA ListTail ==
    ASSUME NEW q \in Seq(CppRequest), q # <<>>, Once(q)
    PROVE  /\ Tail(q) \in Seq(CppRequest) /\ Once(Tail(q)) /\ Head(q) \in CppRequest
           /\ Head(q) \in ToSet(q) /\ ToSet(Tail(q)) = ToSet(q) \ {Head(q)}
<1>1. /\ \A w : In(Tail(q), w) <=> In(q, w) /\ w # Head(q)
      /\ In(q, Head(q)) /\ Head(q) \in CppRequest /\ Once(Tail(q)) /\ Tail(q) \in Seq(CppRequest)
  BY TailIn
<1>2. \A p, w : w \in ToSet(p) <=> In(p, w)
  BY DEF ToSet, In
<1>3. ToSet(Tail(q)) = ToSet(q) \ {Head(q)}
  BY <1>1, <1>2
<1> QED BY <1>1, <1>2, <1>3

\* A list that takes an element that it does not have.
LEMMA ListAppend ==
    ASSUME NEW S, NEW q \in Seq(S), NEW x \in S, Once(q), x \notin ToSet(q)
    PROVE  Append(q, x) \in Seq(S) /\ Once(Append(q, x)) /\ ToSet(Append(q, x)) = ToSet(q) \cup {x}
<1>1. \A p, w : w \in ToSet(p) <=> In(p, w)
  BY DEF ToSet, In
<1>2. /\ \A w : In(Append(q, x), w) <=> In(q, w) \/ w = x
      /\ Once(q) /\ ~In(q, x) => Once(Append(q, x))
      /\ Append(q, x) \in Seq(S)
  BY AppendIn
<1>3. ToSet(Append(q, x)) = ToSet(q) \cup {x}
  BY <1>1, <1>2
<1> QED BY <1>1, <1>2, <1>3

----------------------------------------------------------------------------
\* A request that is in no place.
InNoPlace(x, q, requests, m, g, a) ==
    /\ x \notin Boxed(q) /\ x \notin ToSet(requests) /\ x \notin ToSet(m) /\ x \notin ToSet(g)
    /\ x \notin InHand(a) /\ x \notin Carried(a)

\* The request of the first message in the socket is in no other place.
LEMMA SpreadTail ==
    ASSUME NEW q \in Seq(CppMessage), q # <<>>, NEW re, NEW m, NEW g, NEW a, NEW n, Spread(q, re, m, g, a, n)
    PROVE  /\ Spread(Tail(q), re, m, g, a, n)
           /\ Head(q).request # 0 => Head(q).request \in 1 .. n /\ InNoPlace(Head(q).request, Tail(q), re, m, g, a)
<1> DEFINE x == Head(q).request
           p == Tail(q)
<1>1. /\ Boxed(p) = Boxed(q) \ {x}
      /\ x # 0 => x \in Boxed(q)
      /\ \A k, l \in DOMAIN p : p[k].request = p[l].request /\ p[k].request # 0 => k = l
  BY BoxTail DEF Spread
<1> HIDE DEF x, p
<1>2. Spread(p, re, m, g, a, n)
  <2>1. /\ Apart(Boxed(p), ToSet(re), ToSet(m), ToSet(g), InHand(a), Carried(a))
        /\ Boxed(p) \cup ToSet(re) \cup ToSet(m) \cup ToSet(g) \cup InHand(a) \cup Carried(a) \subseteq 1 .. n
    BY <1>1 DEF Spread, Apart
  <2> QED BY <1>1, <2>1 DEF Spread
<1>3. x # 0 => x \in 1 .. n /\ InNoPlace(x, p, re, m, g, a)
  BY <1>1 DEF Spread, Apart, InNoPlace
<1> QED BY <1>2, <1>3 DEF x, p

\* A message joins those in the socket, with a request that is in no place.
LEMMA SpreadAppend ==
    ASSUME NEW q \in Seq(CppMessage), NEW e \in CppMessage, NEW re, NEW m, NEW g, NEW a, NEW n,
           Spread(q, re, m, g, a, n), e.request = 0 \/ (e.request \in 1 .. n /\ InNoPlace(e.request, q, re, m, g, a))
    PROVE  Spread(Append(q, e), re, m, g, a, n)
<1> DEFINE x == e.request
           p == Append(q, e)
<1>1. x \notin Boxed(q)
  BY DEF InNoPlace, Boxed
<1>2. /\ Boxed(p) = Boxed(q) \cup ({x} \ {0})
      /\ \A k, l \in DOMAIN p : p[k].request = p[l].request /\ p[k].request # 0 => k = l
  BY <1>1, BoxAppend DEF Spread
<1> HIDE DEF p
<1>3. /\ Apart(Boxed(p), ToSet(re), ToSet(m), ToSet(g), InHand(a), Carried(a))
      /\ Boxed(p) \cup ToSet(re) \cup ToSet(m) \cup ToSet(g) \cup InHand(a) \cup Carried(a) \subseteq 1 .. n
  <2>1. CASE x = 0
    <3>1. Boxed(p) = Boxed(q)
      BY <1>2, <2>1
    <3> QED BY <3>1 DEF Spread
  <2>2. CASE x # 0
    <3>1. Boxed(p) = Boxed(q) \cup {x} /\ x \in 1 .. n /\ InNoPlace(x, q, re, m, g, a)
      BY <1>2, <2>2
    <3> HIDE DEF x
    <3> QED BY <3>1 DEF Spread, Apart, InNoPlace
  <2> QED BY <2>1, <2>2
<1>4. Spread(p, re, m, g, a, n)
  BY <1>2, <1>3 DEF Spread
<1> QED BY <1>4 DEF p

\* A request that is in no place joins those that wait.
LEMMA SpreadToRequests ==
    ASSUME NEW q, NEW re, NEW m, NEW g, NEW a, NEW n, Spread(q, re, m, g, a, n),
           NEW x \in CppRequest, x \in 1 .. n, InNoPlace(x, q, re, m, g, a)
    PROVE  Spread(q, Append(re, x), m, g, a, n)
<1> DEFINE p == Append(re, x)
<1>1. p \in Seq(CppRequest) /\ Once(p) /\ ToSet(p) = ToSet(re) \cup {x}
  BY ListAppend DEF Spread, InNoPlace
<1> HIDE DEF p
<1>2. /\ Apart(Boxed(q), ToSet(p), ToSet(m), ToSet(g), InHand(a), Carried(a))
      /\ Boxed(q) \cup ToSet(p) \cup ToSet(m) \cup ToSet(g) \cup InHand(a) \cup Carried(a) \subseteq 1 .. n
  BY <1>1 DEF Spread, Apart, InNoPlace
<1>3. Spread(q, p, m, g, a, n)
  BY <1>1, <1>2 DEF Spread
<1> QED BY <1>3 DEF p

\* A request that is in no place is answered.
LEMMA SpreadToMail ==
    ASSUME NEW q, NEW re, NEW m, NEW g, NEW a, NEW n, Spread(q, re, m, g, a, n),
           NEW x \in CppRequest, x \in 1 .. n, InNoPlace(x, q, re, m, g, a)
    PROVE  Spread(q, re, Append(m, x), g, a, n)
<1> DEFINE p == Append(m, x)
<1>1. p \in Seq(CppRequest) /\ Once(p) /\ ToSet(p) = ToSet(m) \cup {x}
  BY ListAppend DEF Spread, InNoPlace
<1> HIDE DEF p
<1>2. /\ Apart(Boxed(q), ToSet(re), ToSet(p), ToSet(g), InHand(a), Carried(a))
      /\ Boxed(q) \cup ToSet(re) \cup ToSet(p) \cup ToSet(g) \cup InHand(a) \cup Carried(a) \subseteq 1 .. n
  BY <1>1 DEF Spread, Apart, InNoPlace
<1>3. Spread(q, re, p, g, a, n)
  BY <1>1, <1>2 DEF Spread
<1> QED BY <1>3 DEF p

\* The first request that waits is in no other place.
LEMMA SpreadFromRequests ==
    ASSUME NEW q, NEW re, NEW m, NEW g, NEW a, NEW n, Spread(q, re, m, g, a, n), re # <<>>
    PROVE  /\ Spread(q, Tail(re), m, g, a, n) /\ Head(re) \in CppRequest /\ Head(re) \in 1 .. n
           /\ InNoPlace(Head(re), q, Tail(re), m, g, a)
<1> DEFINE p == Tail(re)
           x == Head(re)
<1>1. p \in Seq(CppRequest) /\ Once(p) /\ x \in CppRequest /\ x \in ToSet(re) /\ ToSet(p) = ToSet(re) \ {x}
  BY ListTail DEF Spread
<1> HIDE DEF p, x
<1>2. /\ Apart(Boxed(q), ToSet(p), ToSet(m), ToSet(g), InHand(a), Carried(a))
      /\ Boxed(q) \cup ToSet(p) \cup ToSet(m) \cup ToSet(g) \cup InHand(a) \cup Carried(a) \subseteq 1 .. n
  BY <1>1 DEF Spread, Apart
<1>3. Spread(q, p, m, g, a, n)
  BY <1>1, <1>2 DEF Spread
<1>4. x \in 1 .. n /\ InNoPlace(x, q, p, m, g, a)
  BY <1>1 DEF Spread, Apart, InNoPlace
<1> QED BY <1>1, <1>3, <1>4 DEF p, x

\* The client reads a reply.
LEMMA SpreadReceive ==
    ASSUME NEW q, NEW re, NEW m, NEW g, NEW a, NEW n, Spread(q, re, m, g, a, n), m # <<>>
    PROVE  Spread(q, re, Tail(m), Append(g, Head(m)), a, n)
<1> DEFINE p == Tail(m)
           x == Head(m)
           r == Append(g, x)
<1>1. p \in Seq(CppRequest) /\ Once(p) /\ x \in CppRequest /\ x \in ToSet(m) /\ ToSet(p) = ToSet(m) \ {x}
  BY ListTail DEF Spread
<1> HIDE DEF p, x
<1>2. x \notin ToSet(g)
  BY <1>1 DEF Spread, Apart
<1>3. r \in Seq(CppRequest) /\ Once(r) /\ ToSet(r) = ToSet(g) \cup {x}
  BY <1>1, <1>2, ListAppend DEF Spread
<1> HIDE DEF r
<1>4. /\ Apart(Boxed(q), ToSet(re), ToSet(p), ToSet(r), InHand(a), Carried(a))
      /\ Boxed(q) \cup ToSet(re) \cup ToSet(p) \cup ToSet(r) \cup InHand(a) \cup Carried(a) \subseteq 1 .. n
  BY <1>1, <1>3 DEF Spread, Apart
<1>5. Spread(q, re, p, r, a, n)
  BY <1>1, <1>3, <1>4 DEF Spread
<1> QED BY <1>5 DEF p, x, r

\* The client's next request is in no place yet.
LEMMA SpreadMore ==
    ASSUME NEW q, NEW re, NEW m, NEW g, NEW a, NEW n \in Nat, Spread(q, re, m, g, a, n)
    PROVE  Spread(q, re, m, g, a, n + 1) /\ InNoPlace(n + 1, q, re, m, g, a)
<1>1. n + 1 \notin 1 .. n /\ \A x \in 1 .. n : x \in 1 .. n + 1
  OBVIOUS
<1>2. Boxed(q) \cup ToSet(re) \cup ToSet(m) \cup ToSet(g) \cup InHand(a) \cup Carried(a) \subseteq 1 .. n
  BY DEF Spread
<1>3. Boxed(q) \cup ToSet(re) \cup ToSet(m) \cup ToSet(g) \cup InHand(a) \cup Carried(a) \subseteq 1 .. n + 1
  BY <1>1, <1>2
<1>4. InNoPlace(n + 1, q, re, m, g, a)
  BY <1>1, <1>2 DEF InNoPlace
<1>5. Spread(q, re, m, g, a, n + 1)
  BY <1>3 DEF Spread
<1> QED BY <1>4, <1>5

\* The requests in the workers' mail, one by one.
LEMMA CarriedIs ==
    ASSUME NEW a
    PROVE  \A y : y \in Carried(a) <=> \E w \in CppWorker : \E k \in WorkIn(a[w]) : a[w].mail[k] = y
<1> SUFFICES ASSUME NEW y
             PROVE  y \in Carried(a) <=> \E w \in CppWorker : \E k \in WorkIn(a[w]) : a[w].mail[k] = y
  OBVIOUS
<1>1. ASSUME y \in Carried(a) PROVE \E w \in CppWorker : \E k \in WorkIn(a[w]) : a[w].mail[k] = y
  <2>1. y \notin {DISCONNECT, Astray} /\ y \in UNION {ToSet(a[w].mail) : w \in CppWorker}
    BY <1>1 DEF Carried
  <2>2. PICK w \in CppWorker : y \in ToSet(a[w].mail)
    BY <2>1
  <2>3. PICK k \in DOMAIN a[w].mail : a[w].mail[k] = y
    BY <2>2 DEF ToSet
  <2>4. k \in WorkIn(a[w])
    BY <2>1, <2>3 DEF WorkIn
  <2> QED BY <2>3, <2>4
<1>2. ASSUME NEW w \in CppWorker, NEW k \in WorkIn(a[w]), a[w].mail[k] = y PROVE y \in Carried(a)
  <2>1. k \in DOMAIN a[w].mail /\ y \notin {DISCONNECT, Astray}
    BY <1>2 DEF WorkIn
  <2>2. y \in ToSet(a[w].mail)
    BY <1>2, <2>1 DEF ToSet
  <2>3. y \in UNION {ToSet(a[v].mail) : v \in CppWorker}
    BY <2>2
  <2> QED BY <2>1, <2>3 DEF Carried
<1> QED BY <1>1, <1>2

\* A worker is sent a request that is in no place, or told to go.
LEMMA SpreadMailed ==
    ASSUME NEW q, NEW re, NEW m, NEW g, NEW a \in [CppWorker -> CppApi], NEW n, Spread(q, re, m, g, a, n),
           NEW i \in Identity, \A w, v \in CppWorker : a[w].id = a[v].id /\ a[w].id # 0 => w = v,
           NEW x \in 0 .. Astray, x \in {DISCONNECT, Astray} \/ (x \in 1 .. n /\ InNoPlace(x, q, re, m, g, a))
    PROVE  Spread(q, re, m, g, Mailed(a, i, x), n)
<1> DEFINE none == {DISCONNECT, Astray}
<1>a. i # 0
  BY DEF Identity
<1>0. PICK b : b = Mailed(a, i, x)
  OBVIOUS
<1>1. \A w \in CppWorker : b[w].request = a[w].request
  BY <1>0, MailedIs
<1>2. \A w \in CppWorker : \A k \in WorkIn(b[w]) : (k \in WorkIn(a[w]) /\ b[w].mail[k] = a[w].mail[k])
                                                 \/ (a[w].id = i /\ b[w].mail[k] = x)
  BY <1>0, MailedIs
<1>3. \A w \in CppWorker : \A k \in WorkIn(b[w]) : b[w].mail[k] \notin none
  BY DEF WorkIn
<1>4. InHand(b) = InHand(a)
  BY <1>1 DEF InHand
<1>5. \A y \in Carried(b) : y \in Carried(a) \/ (y = x /\ x \notin none)
  <2>1. \A y : y \in Carried(a) <=> \E w \in CppWorker : \E k \in WorkIn(a[w]) : a[w].mail[k] = y
    BY CarriedIs
  <2>2. \A y : y \in Carried(b) <=> \E w \in CppWorker : \E k \in WorkIn(b[w]) : b[w].mail[k] = y
    BY CarriedIs
  <2> QED BY <1>2, <1>3, <2>1, <2>2
<1>6. ASSUME NEW w \in CppWorker, NEW v \in CppWorker, NEW k \in WorkIn(b[w]), NEW l \in WorkIn(b[v]),
             b[w].mail[k] = b[v].mail[l]
      PROVE  w = v
  <2>1. \A y : y \in Carried(a) <=> \E u \in CppWorker : \E j \in WorkIn(a[u]) : a[u].mail[j] = y
    BY CarriedIs
  <2>2. x \notin none => x \notin Carried(a)
    BY DEF InNoPlace
  <2>3. b[w].mail[k] \notin none
    BY <1>3
  <2>4. CASE k \in WorkIn(a[w]) /\ b[w].mail[k] = a[w].mail[k] /\ l \in WorkIn(a[v]) /\ b[v].mail[l] = a[v].mail[l]
    BY <1>6, <2>4 DEF Spread
  <2>5. CASE a[w].id = i /\ b[w].mail[k] = x /\ a[v].id = i /\ b[v].mail[l] = x
    BY <1>a, <2>5
  <2>6. CASE k \in WorkIn(a[w]) /\ b[w].mail[k] = a[w].mail[k] /\ a[v].id = i /\ b[v].mail[l] = x
    <3>1. a[w].mail[k] = x
      BY <1>6, <2>6
    <3> QED BY <2>1, <2>2, <2>3, <2>6, <3>1
  <2>7. CASE a[w].id = i /\ b[w].mail[k] = x /\ l \in WorkIn(a[v]) /\ b[v].mail[l] = a[v].mail[l]
    <3>1. a[v].mail[l] = x
      BY <1>6, <2>7
    <3> QED BY <1>6, <2>1, <2>2, <2>3, <2>7, <3>1
  <2> QED BY <1>2, <2>4, <2>5, <2>6, <2>7
<1>7. /\ Apart(Boxed(q), ToSet(re), ToSet(m), ToSet(g), InHand(b), Carried(b))
      /\ Boxed(q) \cup ToSet(re) \cup ToSet(m) \cup ToSet(g) \cup InHand(b) \cup Carried(b) \subseteq 1 .. n
  <2>1. CASE x \in none
    <3>1. \A y \in Carried(b) : y \in Carried(a)
      BY <1>5, <2>1
    <3> QED BY <1>4, <3>1 DEF Spread, Apart
  <2>2. CASE x \notin none
    <3>1. x \in 1 .. n /\ InNoPlace(x, q, re, m, g, a)
      BY <2>2
    <3>2. \A y \in Carried(b) : y \in Carried(a) \/ y = x
      BY <1>5
    <3> QED BY <1>4, <3>1, <3>2 DEF Spread, Apart, InNoPlace
  <2> QED BY <2>1, <2>2
<1>8. \A w, v \in CppWorker : b[w].request = b[v].request /\ b[w].request # 0 => w = v
  BY <1>1 DEF Spread
<1>9. Spread(q, re, m, g, b, n)
  BY <1>6, <1>7, <1>8 DEF Spread
<1> QED BY <1>0, <1>9

\* A worker leaves or loses what it has.
LEMMA SpreadWorker ==
    ASSUME NEW q, NEW re, NEW m, NEW g, NEW a \in [CppWorker -> CppApi], NEW n, Spread(q, re, m, g, a, n),
           NEW w \in CppWorker, NEW e \in CppApi, e.request \in {0, a[w].request},
           \A k \in WorkIn(e) : \E l \in WorkIn(a[w]) : e.mail[k] = a[w].mail[l]
    PROVE  /\ Spread(q, re, m, g, [a EXCEPT ![w] = e], n)
           /\ e.request = 0 /\ a[w].request # 0
                => a[w].request \in 1 .. n /\ InNoPlace(a[w].request, q, re, m, g, [a EXCEPT ![w] = e])
<1>0. PICK b : b = [a EXCEPT ![w] = e]
  OBVIOUS
<1>1. \A v \in CppWorker : b[v] = IF v = w THEN e ELSE a[v]
  BY <1>0
<1>2. \A y \in InHand(b) : y \in InHand(a)
  BY <1>1 DEF InHand
<1>3. \A v \in CppWorker : \A k \in WorkIn(b[v]) : \E l \in WorkIn(a[v]) : b[v].mail[k] = a[v].mail[l]
  BY <1>1
<1>4. \A y \in Carried(b) : y \in Carried(a)
  <2>1. \A y : y \in Carried(a) <=> \E v \in CppWorker : \E k \in WorkIn(a[v]) : a[v].mail[k] = y
    BY CarriedIs
  <2>2. \A y : y \in Carried(b) <=> \E v \in CppWorker : \E k \in WorkIn(b[v]) : b[v].mail[k] = y
    BY CarriedIs
  <2> QED BY <1>3, <2>1, <2>2
<1>5. \A u, v \in CppWorker : \A k \in WorkIn(b[u]), l \in WorkIn(b[v]) : b[u].mail[k] = b[v].mail[l] => u = v
  BY <1>3 DEF Spread
<1>6. \A u, v \in CppWorker : b[u].request = b[v].request /\ b[u].request # 0 => u = v
  BY <1>1 DEF Spread
<1>7. /\ Apart(Boxed(q), ToSet(re), ToSet(m), ToSet(g), InHand(b), Carried(b))
      /\ Boxed(q) \cup ToSet(re) \cup ToSet(m) \cup ToSet(g) \cup InHand(b) \cup Carried(b) \subseteq 1 .. n
  BY <1>2, <1>4 DEF Spread, Apart
<1>8. Spread(q, re, m, g, b, n)
  BY <1>5, <1>6, <1>7 DEF Spread
<1>9. ASSUME e.request = 0, a[w].request # 0 PROVE a[w].request \in 1 .. n /\ InNoPlace(a[w].request, q, re, m, g, b)
  <2>1. a[w].request \in InHand(a)
    BY <1>9 DEF InHand
  <2>2. a[w].request \notin InHand(b)
    <3>1. \A v \in CppWorker : a[v].request = a[w].request => v = w
      BY <1>9 DEF Spread
    <3> QED BY <1>1, <1>9, <3>1 DEF InHand
  <2> QED BY <1>4, <2>1, <2>2 DEF Spread, Apart, InNoPlace
<1> QED BY <1>0, <1>8, <1>9

\* A worker takes the request in its mail to work on it.
LEMMA SpreadHold ==
    ASSUME NEW q, NEW re, NEW m, NEW g, NEW a \in [CppWorker -> CppApi], NEW n, Spread(q, re, m, g, a, n),
           NEW w \in CppWorker, NEW e \in CppApi, NEW j \in WorkIn(a[w]),
           e.request = a[w].mail[j], WorkIn(e) = {}
    PROVE  Spread(q, re, m, g, [a EXCEPT ![w] = e], n)
<1>0. PICK b : b = [a EXCEPT ![w] = e]
  OBVIOUS
<1> DEFINE x == a[w].mail[j]
<1>1. \A v \in CppWorker : b[v] = IF v = w THEN e ELSE a[v]
  BY <1>0
<1>2. x \in Carried(a) /\ x # 0
  BY CarriedIs DEF WorkIn, DISCONNECT
<1>3. \A v \in CppWorker : \A l \in WorkIn(a[v]) : a[v].mail[l] = x => v = w
  BY DEF Spread
<1> HIDE DEF x
<1>4. e.request = x
  BY DEF x
<1>5. \A y \in InHand(b) : y \in InHand(a) \/ y = x
  BY <1>1, <1>4 DEF InHand
<1>6. \A y \in Carried(b) : y \in Carried(a) /\ y # x
  <2>1. \A y : y \in Carried(a) <=> \E v \in CppWorker : \E k \in WorkIn(a[v]) : a[v].mail[k] = y
    BY CarriedIs
  <2>2. \A y : y \in Carried(b) <=> \E v \in CppWorker : \E k \in WorkIn(b[v]) : b[v].mail[k] = y
    BY CarriedIs
  <2> QED BY <1>1, <1>3, <2>1, <2>2
<1>7. \A u, v \in CppWorker : \A k \in WorkIn(b[u]), l \in WorkIn(b[v]) : b[u].mail[k] = b[v].mail[l] => u = v
  BY <1>1 DEF Spread
<1>8. \A u, v \in CppWorker : b[u].request = b[v].request /\ b[u].request # 0 => u = v
  <2>1. x \notin InHand(a)
    BY <1>2 DEF Spread, Apart
  <2>2. \A v \in CppWorker : a[v].request # x
    BY <1>2, <2>1 DEF InHand
  <2> QED BY <1>1, <1>4, <2>2 DEF Spread
<1>9. /\ Apart(Boxed(q), ToSet(re), ToSet(m), ToSet(g), InHand(b), Carried(b))
      /\ Boxed(q) \cup ToSet(re) \cup ToSet(m) \cup ToSet(g) \cup InHand(b) \cup Carried(b) \subseteq 1 .. n
  BY <1>2, <1>5, <1>6 DEF Spread, Apart
<1>10. Spread(q, re, m, g, b, n)
  BY <1>7, <1>8, <1>9 DEF Spread
<1> QED BY <1>0, <1>10

\* Nothing is picked at no positions.
LEMMA PickedNone ==
    ASSUME NEW S, NEW q \in Seq(S)
    PROVE  Picked(q, {}) = <<>>
<1>1. {} \in SUBSET (DOMAIN q)
  OBVIOUS
<1>2. Picked(q, {}) \in Seq(S) /\ ToSet(Picked(q, {})) = {q[k] : k \in {}}
  BY <1>1, PickedIs
<1> DEFINE p == Picked(q, {})
<1> HIDE DEF p
<1>3. p \in Seq(S) /\ ToSet(p) = {}
  BY <1>2 DEF p
<1>4. DOMAIN p = {}
  BY <1>3 DEF ToSet
<1>5. Len(p) = 0
  BY <1>3, <1>4
<1> QED BY <1>3, <1>5 DEF p

\* The only element is picked at its position.
LEMMA PickedOnly ==
    ASSUME NEW x, NEW q, q = <<x>>
    PROVE  Picked(q, {1}) = q
<1>1. q \in Seq({x}) /\ DOMAIN q = {1} /\ Len(q) = 1 /\ q[1] = x
  OBVIOUS
<1>2. {1} \in SUBSET (DOMAIN q) /\ {q[k] : k \in {1}} = {x}
  BY <1>1
<1> DEFINE p == Picked(q, {1})
<1>3. p \in Seq({x}) /\ Len(p) <= Len(q) /\ ToSet(p) = {x}
  <2>1. Picked(q, {1}) \in Seq({x})
    BY <1>1, <1>2, PickedIs
  <2>2. Len(Picked(q, {1})) <= Len(q)
    BY <1>1, <1>2, PickedIs
  <2>3. ASSUME NEW r \in Seq({x}), NEW K \in SUBSET (DOMAIN r)
        PROVE  \A y : y \in ToSet(Picked(r, K)) <=> \E k \in K : y = r[k]
    <3>1. ToSet(Picked(r, K)) = {r[k] : k \in K}
      BY PickedIs
    <3> QED BY <3>1
  <2>4. \A y : y \in ToSet(Picked(q, {1})) <=> \E k \in {1} : y = q[k]
    BY <1>1, <1>2, <2>3
  <2>5. ToSet(Picked(q, {1})) = {x}
    BY <1>1, <2>4
  <2> QED BY <2>1, <2>2, <2>5
<1> HIDE DEF p
<1>4. p \in Seq({x}) /\ Len(p) <= 1 /\ ToSet(p) = {x} /\ Len(p) \in Nat
  BY <1>1, <1>3
<1>5. Len(p) # 0
  BY <1>4 DEF ToSet
<1>6. Len(p) = 1
  BY <1>4, <1>5
<1>7. p[1] = x
  BY <1>4, <1>6
<1>8. p = <<p[1]>>
  BY <1>4, <1>6
<1> QED BY <1>1, <1>7, <1>8 DEF p

\* What a handler has sent is in the mail of the worker whose connection it is.
LEMMA DeliverIs ==
    ASSUME NEW a \in [CppWorker -> CppApi], NEW b, NEW heard, Deliver(b, a, heard),
           mdcli \in {"new", "linked", "astray", "refused", "ended"}
    PROVE  /\ cpp' = [b EXCEPT !.out = <<>>] /\ UNCHANGED <<given, closing, asked, got>>
           /\ mdcli' \in {"new", "linked", "astray", "refused", "ended"}
           /\ b.out = <<>> => api' = a
           /\ \A i, x : b.out = <<<<i, x>>>> => api' = Mailed(a, i, x)
<1> DEFINE K(w)    == {k \in DOMAIN b.out : b.out[k][1] = a[w].id}
           mine(w) == Picked(b.out, K(w))
           more(w) == [k \in DOMAIN mine(w) |-> mine(w)[k][2]]
<1>1. api' = [w \in CppWorker |-> [a[w] EXCEPT !.mail = @ \o more(w)]]
  BY DEF Deliver
<1>2. \A w \in CppWorker : a[w].mail \in Seq(0 .. Astray) /\ a[w] \in CppApi
  BY ApiFields
<1>3. \A w \in CppWorker : a[w].mail \o <<>> = a[w].mail
  BY <1>2
<1>4. \A w \in CppWorker : [a[w] EXCEPT !.mail = a[w].mail] = a[w]
  BY <1>2 DEF CppApi
<1>5. \A w \in CppWorker : mine(w) = <<>> => [a[w] EXCEPT !.mail = @ \o more(w)] = a[w]
  <2> SUFFICES ASSUME NEW w \in CppWorker, mine(w) = <<>>
               PROVE  [a[w] EXCEPT !.mail = @ \o more(w)] = a[w]
    OBVIOUS
  <2>1. more(w) = <<>>
    <3>1. DOMAIN mine(w) = 1 .. 0
      OBVIOUS
    <3>2. more(w) = [k \in 1 .. 0 |-> mine(w)[k][2]]
      BY <3>1
    <3>3. [k \in 1 .. 0 |-> mine(w)[k][2]] = <<>>
      <4> HIDE DEF mine
      <4> QED OBVIOUS
    <3> QED BY <3>2, <3>3
  <2> HIDE DEF more
  <2> QED BY <1>3, <1>4, <2>1
<1>6. ASSUME b.out = <<>> PROVE api' = a
  <2>1. \A w \in CppWorker : mine(w) = <<>>
    <3>1. <<>> \in Seq(Int) /\ \A w \in CppWorker : K(w) = {}
      BY <1>6
    <3> HIDE DEF K
    <3>2. Picked(<<>>, {}) = <<>>
      BY <3>1, PickedNone
    <3> QED BY <1>6, <3>1, <3>2
  <2> HIDE DEF mine, more
  <2>2. api' = [w \in CppWorker |-> a[w]]
    BY <1>1, <1>5, <2>1
  <2> QED BY <2>2
<1>7. ASSUME NEW i, NEW x, b.out = <<<<i, x>>>> PROVE api' = Mailed(a, i, x)
  <2>1. DOMAIN b.out = {1} /\ b.out[1] = <<i, x>> /\ b.out[1][1] = i /\ b.out \in Seq({<<i, x>>})
    BY <1>7
  <2>2. ASSUME NEW w \in CppWorker, a[w].id = i
        PROVE  [a[w] EXCEPT !.mail = @ \o more(w)] = [a[w] EXCEPT !.mail = Append(@, x)]
    <3>1. K(w) = {1}
      BY <2>1, <2>2
    <3> HIDE DEF K
    <3>2. mine(w) = <<<<i, x>>>>
      BY <1>7, <3>1, PickedOnly
    <3> HIDE DEF mine
    <3>3. more(w) = <<x>>
      BY <3>2
    <3> HIDE DEF more
    <3>4. a[w].mail \o <<x>> = Append(a[w].mail, x)
      BY <1>2
    <3> QED BY <3>3, <3>4
  <2>3. ASSUME NEW w \in CppWorker, a[w].id # i
        PROVE  [a[w] EXCEPT !.mail = @ \o more(w)] = a[w]
    <3>1. K(w) = {}
      BY <2>1, <2>3
    <3> HIDE DEF K
    <3>2. mine(w) = <<>>
      BY <2>1, <3>1, PickedNone
    <3> HIDE DEF mine, more
    <3> QED BY <1>5, <3>2
  <2> HIDE DEF mine, more
  <2> QED BY <1>1, <2>2, <2>3 DEF Mailed
<1>8. mdcli' \in {"new", "linked", "astray", "refused", "ended"}
  BY DEF Deliver
<1>9. cpp' = [b EXCEPT !.out = <<>>] /\ UNCHANGED <<given, closing, asked, got>>
  BY DEF Deliver
<1> QED BY <1>6, <1>7, <1>8, <1>9

\* A worker whose identity the broker may know is waiting, or at work.
LEMMA PeersAwake ==
    ASSUME NEW q, NEW a, NEW d, NEW c, PeersAre(q, a, d, c), NEW D \in SUBSET Identity
    PROVE  \A w \in CppWorker : a[w].id \in D => a[w].at \in {"waiting", "busy"}
<1> SUFFICES ASSUME NEW w \in CppWorker, a[w].id \in D PROVE a[w].at \in {"waiting", "busy"}
  OBVIOUS
<1>1. a[w].id # 0
  BY DEF Identity
<1>2. a[w].at \in {"new", "waiting", "busy", "ended"}
  BY ApiFields DEF PeersAre
<1>3. a[w].at \in {"new", "ended"} => a[w].id = 0
  BY DEF PeersAre
<1> QED BY <1>1, <1>2, <1>3

\* A handler that sends a request to one of the idle, or nothing, where D are the connections
\* it may know, idle those it may hold for idle, and the requests those before it sends one.
LEMMA HandlerKeeps ==
    ASSUME NEW q, NEW a, NEW heard, NEW D \in SUBSET Identity, NEW idle \in SUBSET D, NEW requests, NEW m, CppInv,
           PeersAre(q, a, given, closing), Exchange(q, a, D, idle), Spread(q, requests, m, got, a, asked),
           NEW b, Deliver(b, a, heard), Coherent(b), NoneWaits(b), SendsFirst(requests, D, idle, b),
           inbox' = q, mail' = m
    PROVE  CppInv'
<1>1. a \in [CppWorker -> CppApi] /\ \A w, v \in CppWorker : a[w].id = a[v].id /\ a[w].id # 0 => w = v
  BY DEF PeersAre
<1>2. asked \in 0 .. MaxRequests /\ mdcli \in {"new", "linked", "astray", "refused", "ended"}
  BY DEF CppInv
<1>3. /\ cpp' = [b EXCEPT !.out = <<>>] /\ given' = given /\ closing' = closing /\ asked' = asked /\ got' = got
      /\ mdcli' \in {"new", "linked", "astray", "refused", "ended"}
      /\ b.out = <<>> => api' = a
      /\ \A i, x : b.out = <<<<i, x>>>> => api' = Mailed(a, i, x)
  BY <1>1, <1>2, DeliverIs
<1>4. /\ Coherent(cpp') /\ NoneWaits(cpp') /\ cpp'.out = <<>> /\ cpp'.requests = b.requests
      /\ cpp'.idle = b.idle /\ cpp'.workers = b.workers
  BY <1>3, OutEmptied
<1>5. /\ DOMAIN b.workers \in SUBSET D /\ D \ DOMAIN b.workers \subseteq idle
      /\ \A w \in CppWorker : a[w].id \in D => a[w].at \in {"waiting", "busy"}
  BY PeersAwake DEF SendsFirst
<1>6. CASE b.out = <<>> /\ b.requests = requests /\ b.idle \subseteq idle
  <2>1. Exchange(q, a, DOMAIN b.workers, b.idle)
    BY <1>5, <1>6, ExchangeLess
  <2> QED BY <1>2, <1>3, <1>4, <1>6, <2>1 DEF CppInv
<1>7. ASSUME NEW i \in idle, i \in DOMAIN b.workers, requests # <<>>, b.requests = Tail(requests),
             b.out = <<<<i, Head(requests)>>>>, b.idle \subseteq idle \ {i}
      PROVE  CppInv'
  <2> DEFINE x == Head(requests)
  <2>1. /\ Spread(q, Tail(requests), m, got, a, asked) /\ x \in CppRequest /\ x \in 1 .. asked
        /\ InNoPlace(x, q, Tail(requests), m, got, a)
    BY <1>7, SpreadFromRequests
  <2>2. api' = Mailed(a, i, x)
    BY <1>3, <1>7
  <2> HIDE DEF x
  <2>3. x \in 0 .. Astray /\ i \in Identity /\ i # 0
    BY <2>1, CppAssumption DEF CppRequest, Astray, Identity
  <2>4. Spread(q, Tail(requests), m, got, Mailed(a, i, x), asked)
    BY <1>1, <2>1, <2>3, SpreadMailed
  <2>5. PeersAre(q, Mailed(a, i, x), given, closing)
    BY <2>3, PeersSent
  <2>6. Exchange(q, a, DOMAIN b.workers, idle)
    BY <1>5, ExchangeLess
  <2>7. b.idle \in SUBSET idle /\ i \notin b.idle
    BY <1>7
  <2>8. Exchange(q, Mailed(a, i, x), DOMAIN b.workers, b.idle)
    BY <1>1, <1>7, <2>3, <2>6, <2>7, ExchangeSent
  <2> QED BY <1>2, <1>3, <1>4, <1>7, <2>2, <2>4, <2>5, <2>8 DEF CppInv
<1> QED BY <1>6, <1>7 DEF SendsFirst

\* A handler that answers DISCONNECT and changes nothing else.
LEMMA RefusalKeeps ==
    ASSUME NEW q, NEW a, NEW heard, NEW m, CppInv, PeersAre(q, a, given, closing), NEW i \in Identity,
           NEW b, Deliver(b, a, heard), Coherent(b), NoneWaits(b), b.out = <<<<i, DISCONNECT>>>>,
           Exchange(q, a, DOMAIN b.workers, b.idle), Spread(q, b.requests, m, got, a, asked),
           inbox' = q, mail' = m
    PROVE  CppInv'
<1>1. a \in [CppWorker -> CppApi] /\ \A w, v \in CppWorker : a[w].id = a[v].id /\ a[w].id # 0 => w = v
  BY DEF PeersAre
<1>2. asked \in 0 .. MaxRequests /\ mdcli \in {"new", "linked", "astray", "refused", "ended"}
  BY DEF CppInv
<1>3. /\ cpp' = [b EXCEPT !.out = <<>>] /\ given' = given /\ closing' = closing /\ asked' = asked /\ got' = got
      /\ mdcli' \in {"new", "linked", "astray", "refused", "ended"}
      /\ api' = Mailed(a, i, DISCONNECT)
  BY <1>1, <1>2, DeliverIs
<1>4. /\ Coherent(cpp') /\ NoneWaits(cpp') /\ cpp'.out = <<>> /\ cpp'.requests = b.requests
      /\ cpp'.idle = b.idle /\ cpp'.workers = b.workers
  BY <1>3, OutEmptied
<1>5. DISCONNECT \in 0 .. Astray
  BY CppAssumption DEF DISCONNECT, Astray
<1>6. Spread(q, b.requests, m, got, Mailed(a, i, DISCONNECT), asked)
  BY <1>1, <1>5, SpreadMailed
<1>7. PeersAre(q, Mailed(a, i, DISCONNECT), given, closing)
  BY <1>5, PeersSent
<1>8. b.idle \in SUBSET b.idle
  OBVIOUS
<1>9. Exchange(q, Mailed(a, i, DISCONNECT), DOMAIN b.workers, b.idle)
  BY <1>1, <1>5, <1>8, ExchangeSent
<1> QED BY <1>2, <1>3, <1>4, <1>6, <1>7, <1>9 DEF CppInv

\* What the broker knows of the message it is about to handle.
LEMMA ReceivedIs ==
    ASSUME CppInv, inbox # <<>>
    PROVE  LET e == Head(inbox) IN
           /\ inbox \in Seq(CppMessage) /\ 1 \in DOMAIN inbox /\ inbox[1] = e /\ e \in CppMessage
           /\ e.kind \in {"READY", "HEARTBEAT", "REPLY"} => e.from \in Identity
           /\ e.kind \in {"REPLY", "echo", "mmi.service"} =>
                /\ e.request \in CppRequest /\ e.request \in 1 .. asked
                /\ InNoPlace(e.request, Tail(inbox), cpp.requests, mail, got, api)
           /\ Spread(Tail(inbox), cpp.requests, mail, got, api, asked)
           /\ PeersAre(Tail(inbox), api, given, closing)
           /\ Exchange(Tail(inbox), api, DOMAIN cpp.workers, cpp.idle)
<1> DEFINE e == Head(inbox)
<1>1. inbox \in Seq(CppMessage)
  BY DEF CppInv, PeersAre
<1>2. 1 \in DOMAIN inbox /\ inbox[1] = e /\ e \in CppMessage
  BY <1>1
<1> HIDE DEF e
<1>3. /\ e.kind \in {"READY", "HEARTBEAT", "REPLY"} => e.from \in Identity
      /\ e.kind \in {"REPLY", "echo", "mmi.service"} => e.request # 0
  BY <1>2 DEF CppInv, PeersAre
<1>4. /\ Spread(Tail(inbox), cpp.requests, mail, got, api, asked)
      /\ e.request # 0 => e.request \in 1 .. asked /\ InNoPlace(e.request, Tail(inbox), cpp.requests, mail, got, api)
  BY <1>1, SpreadTail DEF CppInv, e
<1>5. \A n \in 1 .. asked : n \in CppRequest
  BY CppAssumption DEF CppInv, CppRequest
<1>6. PeersAre(Tail(inbox), api, given, closing)
  BY PeersTail DEF CppInv
<1>7. Exchange(Tail(inbox), api, DOMAIN cpp.workers, cpp.idle)
  BY <1>1, ExchangeTail DEF CppInv
<1> QED BY <1>1, <1>2, <1>3, <1>4, <1>5, <1>6, <1>7 DEF e

\* READY makes a worker known and idle, or is of a process that has come back.
LEMMA OnReadyStep ==
    ASSUME CppInv, OnReady
    PROVE  CppInv'
<1> DEFINE i == Head(inbox).from
           b == Ready(cpp, i)
           D == DOMAIN cpp.workers
<1>1. Head(inbox).kind = "READY" /\ inbox # <<>> /\ inbox' = Tail(inbox) /\ mail' = mail /\ Deliver(b, api, {})
  BY DEF OnReady, Received
<1>2. /\ Coherent(cpp) /\ NoneWaits(cpp) /\ cpp.out = <<>> /\ D \in SUBSET Identity /\ cpp.idle \subseteq D
  BY BrokerFields DEF CppInv, Coherent
<1>3. /\ inbox \in Seq(CppMessage) /\ i \in Identity
      /\ Spread(Tail(inbox), cpp.requests, mail, got, api, asked)
      /\ PeersAre(Tail(inbox), api, given, closing)
      /\ Exchange(Tail(inbox), api, D, cpp.idle)
  BY <1>1, ReceivedIs
<1>4. /\ \A k \in DOMAIN Tail(inbox) : Tail(inbox)[k].kind = "READY" => Tail(inbox)[k].from # i
      /\ i \notin D => /\ AtRest(api, i)
                       /\ \A k \in DOMAIN Tail(inbox) : Tail(inbox)[k].kind = "REPLY" => Tail(inbox)[k].from # i
  <2>1. Exchange(inbox, api, D, cpp.idle)
    BY DEF CppInv
  <2> HIDE DEF D
  <2> QED BY <1>1, <1>3, <2>1, ExchangeHead
<1>5. CASE i \in D
  <2>1. /\ Coherent(b) /\ NoneWaits(b) /\ b.out = <<<<i, DISCONNECT>>>>
        /\ b.requests = cpp.requests /\ DOMAIN b.workers = D \ {i} /\ b.idle = cpp.idle \ {i}
    <3> HIDE DEF i
    <3> QED BY <1>2, <1>5, ReadyAgainIs
  <2> HIDE DEF b, i, D
  <2>2. DOMAIN b.workers \in SUBSET D /\ b.idle \in SUBSET cpp.idle /\ D \ DOMAIN b.workers \subseteq {i}
    BY <2>1
  <2>3. \A w \in CppWorker : api[w].id \in D => api[w].at \in {"waiting", "busy"}
    BY <1>2, <1>3, PeersAwake
  <2>4. Exchange(Tail(inbox), api, DOMAIN b.workers, b.idle)
    BY <1>3, <1>4, <2>2, <2>3, ExchangeLess
  <2>5. Spread(Tail(inbox), b.requests, mail, got, api, asked)
    BY <1>3, <2>1
  <2> QED BY <1>1, <1>3, <2>1, <2>4, <2>5, RefusalKeeps
<1>6. CASE i \notin D
  <2>1. Exchange(Tail(inbox), api, D \cup {i}, cpp.idle \cup {i})
    <3> HIDE DEF i, D
    <3> QED BY <1>3, <1>4, <1>6, ExchangeIdle
  <2>2. Coherent(b) /\ NoneWaits(b) /\ SendsFirst(cpp.requests, D \cup {i}, cpp.idle \cup {i}, b)
    <3> HIDE DEF i
    <3> QED BY <1>2, <1>3, <1>6, ReadyIs
  <2> HIDE DEF b, i, D
  <2>3. D \cup {i} \in SUBSET Identity /\ cpp.idle \cup {i} \in SUBSET (D \cup {i})
    BY <1>2, <1>3
  <2> QED BY <1>1, <1>3, <2>1, <2>2, <2>3, HandlerKeeps
<1> QED BY <1>5, <1>6

\* A reply to the client is in its mail, or with nobody; a worker that has the client's
\* identity is sent what it does not understand.
LEMMA MisledKeeps ==
    ASSUME NEW q, NEW re, NEW n \in CppRequest, NEW m, m = Mail(n), NEW D, NEW idle, NEW known \in BOOLEAN,
           NEW a, a = IF known THEN Misled ELSE api, NEW r, r = IF known THEN m ELSE mail,
           PeersAre(q, api, given, closing), Exchange(q, api, D, idle), Spread(q, re, mail, got, api, asked),
           n \in 1 .. asked, InNoPlace(n, q, re, mail, got, api)
    PROVE  PeersAre(q, a, given, closing) /\ Exchange(q, a, D, idle) /\ Spread(q, re, r, got, a, asked)
<1>1. Astray \in 0 .. Astray /\ First \in Identity
  BY CppAssumption DEF Astray, First, Identity
<1>2. api \in [CppWorker -> CppApi] /\ \A w, v \in CppWorker : api[w].id = api[v].id /\ api[w].id # 0 => w = v
  BY DEF PeersAre
<1>3. PeersAre(q, Misled, given, closing)
  BY <1>1, PeersSent DEF Misled
<1>4. idle \in SUBSET idle
  OBVIOUS
<1>5. Exchange(q, Misled, D, idle)
  BY <1>1, <1>2, <1>4, ExchangeSent DEF Misled
<1>6. Spread(q, re, m, got, api, asked)
  <2>1. Spread(q, re, Append(mail, n), got, api, asked)
    BY SpreadToMail
  <2> QED BY <2>1 DEF Mail
<1>7. Spread(q, re, m, got, Misled, asked)
  BY <1>1, <1>2, <1>6, SpreadMailed DEF Misled
<1> QED BY <1>3, <1>5, <1>7

\* A reply goes to the client's identity and its worker is idle, or the worker is unknown.
LEMMA OnReplyStep ==
    ASSUME CppInv, OnReply
    PROVE  CppInv'
<1> DEFINE i == Head(inbox).from
           n == Head(inbox).request
           D == DOMAIN cpp.workers
           known == i \in D
           q == Tail(inbox)
<1>1. PICK a, b, m : /\ a = (IF known THEN Misled ELSE api) /\ b = Reply(cpp, i) /\ m = (IF known THEN Mail(n) ELSE mail)
                     /\ Head(inbox).kind = "REPLY" /\ inbox # <<>> /\ inbox' = q /\ mail' = m /\ Deliver(b, a, {})
  BY DEF OnReply, Received
<1>2. /\ Coherent(cpp) /\ NoneWaits(cpp) /\ cpp.out = <<>> /\ D \in SUBSET Identity /\ cpp.idle \subseteq D
  BY BrokerFields DEF CppInv, Coherent
<1>3. /\ inbox \in Seq(CppMessage) /\ i \in Identity
      /\ Spread(q, cpp.requests, mail, got, api, asked)
      /\ n \in CppRequest /\ n \in 1 .. asked
      /\ InNoPlace(n, q, cpp.requests, mail, got, api)
      /\ PeersAre(q, api, given, closing)
      /\ Exchange(q, api, D, cpp.idle)
  BY <1>1, ReceivedIs
<1>4. /\ \A k \in DOMAIN q : q[k].kind = "REPLY" => q[k].from # i
      /\ i \notin cpp.idle /\ AtRest(api, i)
  <2>1. Exchange(inbox, api, D, cpp.idle)
    BY DEF CppInv
  <2> HIDE DEF D
  <2> QED BY <1>1, <1>3, <2>1, ExchangeHead
<1> HIDE DEF i, n, D, q
<1>5. CASE ~known
  <2>1. a = api /\ m = mail /\ b = Refuse(cpp, i)
    BY <1>1, <1>5 DEF Reply, D
  <2>2. /\ Coherent(b) /\ NoneWaits(b) /\ b.out = <<<<i, DISCONNECT>>>>
        /\ b.requests = cpp.requests /\ b.workers = cpp.workers /\ b.idle = cpp.idle
    BY <1>2, <1>3, <2>1, RefuseIs
  <2>3. Exchange(q, a, DOMAIN b.workers, b.idle) /\ Spread(q, b.requests, m, got, a, asked)
        /\ PeersAre(q, a, given, closing)
    BY <1>3, <2>1, <2>2 DEF D
  <2> QED BY <1>1, <1>3, <2>2, <2>3, RefusalKeeps
<1>6. CASE known
  <2>1. a = Misled /\ m = Mail(n) /\ b = WorkerWaiting(cpp, i) /\ i \in D
    BY <1>1, <1>6 DEF Reply, D
  <2>2. Exchange(q, api, D \cup {i}, cpp.idle \cup {i})
    BY <1>3, <1>4, ExchangeIdle
  <2>3. D \cup {i} = D
    BY <2>1
  <2>4. Exchange(q, api, D, cpp.idle \cup {i})
    BY <2>2, <2>3
  <2>5. /\ PeersAre(q, a, given, closing) /\ Exchange(q, a, D, cpp.idle \cup {i})
        /\ Spread(q, cpp.requests, m, got, a, asked)
    BY <1>3, <2>1, <2>4, MisledKeeps
  <2>6. Coherent(b) /\ NoneWaits(b) /\ SendsFirst(cpp.requests, D, cpp.idle \cup {i}, b)
    BY <1>2, <1>4, <2>1, WaitingIs DEF D
  <2>7. cpp.idle \cup {i} \in SUBSET D
    BY <1>2, <2>1
  <2> QED BY <1>1, <1>2, <2>5, <2>6, <2>7, HandlerKeeps
<1> QED BY <1>5, <1>6

\* A request waits, or is sent to an idle worker.
LEMMA OnRequestStep ==
    ASSUME CppInv, OnRequest
    PROVE  CppInv'
<1> DEFINE n == Head(inbox).request
           b == ClientRequest(cpp, n)
           requests == Append(cpp.requests, n)
<1>1. Head(inbox).kind = "echo" /\ inbox # <<>> /\ inbox' = Tail(inbox) /\ mail' = mail /\ Deliver(b, api, {})
  BY DEF OnRequest, Received
<1>2. /\ Coherent(cpp) /\ NoneWaits(cpp) /\ cpp.out = <<>>
      /\ DOMAIN cpp.workers \in SUBSET Identity /\ cpp.idle \in SUBSET (DOMAIN cpp.workers)
  BY BrokerFields DEF CppInv, Coherent
<1>3. /\ Spread(Tail(inbox), cpp.requests, mail, got, api, asked)
      /\ n \in CppRequest /\ n \in 1 .. asked
      /\ InNoPlace(n, Tail(inbox), cpp.requests, mail, got, api)
      /\ PeersAre(Tail(inbox), api, given, closing)
      /\ Exchange(Tail(inbox), api, DOMAIN cpp.workers, cpp.idle)
  BY <1>1, ReceivedIs
<1> HIDE DEF n
<1>4. Spread(Tail(inbox), requests, mail, got, api, asked)
  BY <1>3, SpreadToRequests
<1>5. Coherent(b) /\ NoneWaits(b) /\ SendsFirst(requests, DOMAIN cpp.workers, cpp.idle, b)
  BY <1>2, <1>3, RequestIs
<1> HIDE DEF b, requests
<1> QED BY <1>1, <1>2, <1>3, <1>4, <1>5, HandlerKeeps

\* A handler that sends nothing and changes neither the list nor the requests.
LEMMA QuietKeeps ==
    ASSUME CppInv, NEW q, NEW a, NEW heard, NEW m, PeersAre(q, a, given, closing),
           Exchange(q, a, DOMAIN cpp.workers, cpp.idle), Spread(q, cpp.requests, m, got, a, asked),
           NEW b, Deliver(b, a, heard), Coherent(b), NoneWaits(b), b.out = <<>>, b.requests = cpp.requests,
           b.idle \subseteq cpp.idle, DOMAIN b.workers \subseteq DOMAIN cpp.workers,
           DOMAIN cpp.workers \ DOMAIN b.workers \subseteq cpp.idle, inbox' = q, mail' = m
    PROVE  CppInv'
<1>1. DOMAIN cpp.workers \in SUBSET Identity /\ cpp.idle \in SUBSET (DOMAIN cpp.workers)
  BY BrokerFields DEF CppInv, Coherent
<1>2. SendsFirst(cpp.requests, DOMAIN cpp.workers, cpp.idle, b)
  BY DEF SendsFirst
<1> QED BY <1>1, <1>2, HandlerKeeps

\* A heartbeat changes a date, or is of an unknown worker.
LEMMA OnHeartbeatStep ==
    ASSUME CppInv, OnHeartbeat
    PROVE  CppInv'
<1> DEFINE i == Head(inbox).from
<1>1. Head(inbox).kind = "HEARTBEAT" /\ inbox # <<>> /\ inbox' = Tail(inbox) /\ mail' = mail
      /\ Deliver(Heartbeat(cpp, i), api, {})
  BY DEF OnHeartbeat, Received
<1>2. /\ Coherent(cpp) /\ NoneWaits(cpp) /\ cpp.out = <<>>
  BY DEF CppInv
<1>3. /\ i \in Identity
      /\ Spread(Tail(inbox), cpp.requests, mail, got, api, asked)
      /\ PeersAre(Tail(inbox), api, given, closing)
      /\ Exchange(Tail(inbox), api, DOMAIN cpp.workers, cpp.idle)
  BY <1>1, ReceivedIs
<1> HIDE DEF i
<1>4. CASE i \notin DOMAIN cpp.workers
  <2> DEFINE b == Refuse(cpp, i)
  <2>1. Deliver(b, api, {})
    BY <1>1, <1>4 DEF Heartbeat
  <2>2. /\ Coherent(b) /\ NoneWaits(b) /\ b.out = <<<<i, DISCONNECT>>>>
        /\ b.requests = cpp.requests /\ b.workers = cpp.workers /\ b.idle = cpp.idle
    BY <1>2, <1>3, RefuseIs
  <2> HIDE DEF b
  <2>3. Exchange(Tail(inbox), api, DOMAIN b.workers, b.idle) /\ Spread(Tail(inbox), b.requests, mail, got, api, asked)
    BY <1>3, <2>2
  <2> QED BY <1>1, <1>3, <2>1, <2>2, <2>3, RefusalKeeps
<1>5. CASE i \in DOMAIN cpp.workers
  <2> DEFINE wo == [cpp.workers EXCEPT ![i] = Expiry]
             b  == [cpp EXCEPT !.workers = wo]
  <2>1. wo \in [DOMAIN cpp.workers -> 0 .. Expiry]
    <3>1. cpp.workers \in [DOMAIN cpp.workers -> 0 .. Expiry] /\ Expiry \in 0 .. Expiry
      BY <1>2, BrokerFields, CppAssumption DEF Coherent
    <3> QED BY <3>1
  <2>2. Heartbeat(cpp, i) = b
    BY <1>5 DEF Heartbeat
  <2> HIDE DEF wo
  <2>3. /\ Coherent(b) /\ b.requests = cpp.requests /\ b.list = cpp.list /\ b.out = cpp.out
        /\ b.idle = cpp.idle /\ DOMAIN b.workers = DOMAIN cpp.workers
    BY <1>2, <2>1, DatesChange
  <2> HIDE DEF b
  <2>4. NoneWaits(b)
    BY <1>2, <2>3 DEF NoneWaits
  <2> QED BY <1>1, <1>2, <1>3, <2>2, <2>3, <2>4, QuietKeeps
<1> QED BY <1>4, <1>5

\* The broker answers the client itself, or ends.
LEMMA OnInternalStep ==
    ASSUME CppInv, OnInternal
    PROVE  CppInv'
<1> DEFINE n == Head(inbox).request
<1>1. PICK b, a, m : /\ b = Internal(cpp) /\ a = (IF cpp.service THEN Misled ELSE api)
                     /\ m = (IF cpp.service THEN Mail(n) ELSE mail)
                     /\ Head(inbox).kind = "mmi.service" /\ inbox # <<>> /\ inbox' = Tail(inbox) /\ mail' = m
                     /\ Deliver(b, a, {})
  BY DEF OnInternal, Received
<1>2. /\ Coherent(cpp) /\ NoneWaits(cpp) /\ cpp.out = <<>> /\ cpp.service \in BOOLEAN
  BY BrokerFields DEF CppInv, Coherent
<1>3. /\ Spread(Tail(inbox), cpp.requests, mail, got, api, asked)
      /\ n \in CppRequest /\ n \in 1 .. asked
      /\ InNoPlace(n, Tail(inbox), cpp.requests, mail, got, api)
      /\ PeersAre(Tail(inbox), api, given, closing)
      /\ Exchange(Tail(inbox), api, DOMAIN cpp.workers, cpp.idle)
  BY <1>1, ReceivedIs
<1> HIDE DEF n
<1>4. /\ PeersAre(Tail(inbox), a, given, closing) /\ Exchange(Tail(inbox), a, DOMAIN cpp.workers, cpp.idle)
      /\ Spread(Tail(inbox), cpp.requests, m, got, a, asked)
  <2>1. CASE cpp.service
    <3>1. a = Misled /\ m = Mail(n)
      BY <1>1, <2>1
    <3> QED BY <1>3, <3>1, MisledKeeps
  <2>2. CASE ~cpp.service
    <3>1. a = api /\ m = mail
      BY <1>1, <2>2
    <3> QED BY <1>3, <3>1
  <2> QED BY <2>1, <2>2
<1>5. /\ Coherent(b) /\ b.requests = cpp.requests /\ b.list = cpp.list /\ b.out = <<>>
      /\ b.idle = cpp.idle /\ b.workers = cpp.workers
  <2>1. CASE cpp.service
    BY <1>1, <1>2, <2>1 DEF Internal
  <2>2. CASE ~cpp.service
    <3>1. /\ cpp \in CppBroker /\ Once(cpp.list) /\ ToSet(cpp.list) = cpp.idle /\ cpp.idle \subseteq DOMAIN cpp.workers
          /\ cpp.count = Cardinality(DOMAIN cpp.workers)
      BY <1>2 DEF Coherent
    <3>2. b = [cpp EXCEPT !.running = FALSE]
      BY <1>1, <2>2 DEF Internal
    <3>3. /\ b \in CppBroker /\ b.requests = cpp.requests /\ b.list = cpp.list /\ b.out = cpp.out
          /\ b.idle = cpp.idle /\ b.workers = cpp.workers /\ b.count = cpp.count
      BY <3>1, <3>2 DEF CppBroker
    <3> QED BY <1>2, <3>1, <3>3 DEF Coherent
  <2> QED BY <2>1, <2>2
<1>6. NoneWaits(b)
  BY <1>2, <1>5 DEF NoneWaits
<1> QED BY <1>1, <1>4, <1>5, <1>6, QuietKeeps

\* Idle workers expire.
LEMMA OnTimerStep ==
    ASSUME CppInv, OnTimer
    PROVE  CppInv'
<1> DEFINE b == PurgeWorkers(cpp)
           heard == b.idle
<1>1. inbox' = inbox /\ mail' = mail /\ Deliver(b, api, heard)
  BY DEF OnTimer
<1>2. /\ Coherent(cpp) /\ NoneWaits(cpp) /\ cpp.out = <<>>
      /\ PeersAre(inbox, api, given, closing)
      /\ Exchange(inbox, api, DOMAIN cpp.workers, cpp.idle)
      /\ Spread(inbox, cpp.requests, mail, got, api, asked)
  BY DEF CppInv
<1>3. /\ Coherent(b) /\ b.idle \subseteq cpp.idle /\ DOMAIN b.workers \subseteq DOMAIN cpp.workers
      /\ DOMAIN cpp.workers \ DOMAIN b.workers \subseteq cpp.idle
      /\ Len(b.list) <= Len(cpp.list) /\ b.requests = cpp.requests /\ b.out = cpp.out
  BY <1>2, PurgeIs
<1> HIDE DEF b, heard
<1>4. NoneWaits(b)
  BY <1>2, <1>3, FewerWait
<1> QED BY <1>1, <1>2, <1>3, <1>4, QuietKeeps

\* Time passes.
LEMMA CppTickStep ==
    ASSUME CppInv, CppTick
    PROVE  CppInv'
<1> DEFINE wo == [i \in DOMAIN cpp.workers |-> IF cpp.workers[i] = 0 THEN 0 ELSE cpp.workers[i] - 1]
           b  == [cpp EXCEPT !.workers = wo]
<1>1. cpp' = b /\ UNCHANGED <<inbox, api, given, closing, mdcli, asked, mail, got>>
  BY DEF CppTick
<1>2. /\ Coherent(cpp) /\ NoneWaits(cpp) /\ cpp.out = <<>> /\ asked \in 0 .. MaxRequests
      /\ mdcli \in {"new", "linked", "astray", "refused", "ended"}
      /\ PeersAre(inbox, api, given, closing)
      /\ Exchange(inbox, api, DOMAIN cpp.workers, cpp.idle)
      /\ Spread(inbox, cpp.requests, mail, got, api, asked)
  BY DEF CppInv
<1>3. wo \in [DOMAIN cpp.workers -> 0 .. Expiry]
  <2>1. cpp.workers \in [DOMAIN cpp.workers -> 0 .. Expiry] /\ Expiry \in Nat
    BY <1>2, BrokerFields, CppAssumption DEF Coherent
  <2>2. \A i \in DOMAIN cpp.workers : (IF cpp.workers[i] = 0 THEN 0 ELSE cpp.workers[i] - 1) \in 0 .. Expiry
    BY <2>1
  <2> QED BY <2>2
<1> HIDE DEF wo
<1>4. /\ Coherent(b) /\ b.requests = cpp.requests /\ b.list = cpp.list /\ b.out = cpp.out
      /\ b.idle = cpp.idle /\ DOMAIN b.workers = DOMAIN cpp.workers
  BY <1>2, <1>3, DatesChange
<1> HIDE DEF b
<1>5. NoneWaits(b)
  BY <1>2, <1>4 DEF NoneWaits
<1> QED BY <1>1, <1>2, <1>4, <1>5 DEF CppInv

\* What a worker's step relies on.
LEMMA WorkerIs ==
    ASSUME CppInv, NEW w \in CppWorker
    PROVE  /\ api \in [CppWorker -> CppApi] /\ api[w] \in CppApi /\ inbox \in Seq(CppMessage)
           /\ MaxSessions \in Nat /\ MaxRequests \in Nat /\ asked \in 0 .. MaxRequests
           /\ given \in [CppWorker -> 0 .. MaxSessions] /\ given[w] \in 0 .. MaxSessions /\ closing \subseteq Identity
           /\ api[w].id \in 0 .. given[w] /\ OwnId(w) \subseteq Identity
           /\ api[w].at = "busy" => api[w].id # 0
           /\ api[w].at = "busy" <=> api[w].request # 0
           /\ \A v \in CppWorker : v # w /\ api[w].id # 0 => api[v].id # api[w].id
           /\ \A k \in DOMAIN inbox : inbox[k].kind \in {"READY", "REPLY"} =>
                inbox[k].from \in Identity /\ Had(inbox[k].from, api, closing)
           /\ PeersAre(inbox, api, given, closing)
           /\ Exchange(inbox, api, DOMAIN cpp.workers, cpp.idle)
           /\ Spread(inbox, cpp.requests, mail, got, api, asked)
<1>1. /\ api \in [CppWorker -> CppApi] /\ inbox \in Seq(CppMessage) /\ asked \in 0 .. MaxRequests
      /\ given \in [CppWorker -> 0 .. MaxSessions] /\ closing \subseteq Identity
  BY DEF CppInv, PeersAre
<1>2. /\ api[w].id \in 0 .. given[w]
      /\ api[w].at = "busy" => api[w].id # 0
      /\ api[w].at = "busy" <=> api[w].request # 0
      /\ \A v \in CppWorker : v # w /\ api[w].id # 0 => api[v].id # api[w].id
  BY DEF CppInv, PeersAre
<1>3. \A k \in DOMAIN inbox : inbox[k].kind \in {"READY", "REPLY"} =>
        inbox[k].from \in Identity /\ Had(inbox[k].from, api, closing)
  BY DEF CppInv, PeersAre
<1>4. OwnId(w) \subseteq Identity
  <2>1. api[w].id \in 0 .. MaxSessions /\ MaxSessions \in Nat
    BY <1>1, ApiFields, CppAssumption
  <2> QED BY <2>1 DEF OwnId, Identity
<1>5. /\ PeersAre(inbox, api, given, closing)
      /\ Exchange(inbox, api, DOMAIN cpp.workers, cpp.idle)
      /\ Spread(inbox, cpp.requests, mail, got, api, asked)
  BY DEF CppInv
<1> QED BY <1>1, <1>2, <1>3, <1>4, <1>5, CppAssumption

\* A record of such fields is a message.
LEMMA MessageIs ==
    ASSUME NEW i \in 0 .. MaxSessions, NEW k \in {"READY", "REPLY", "HEARTBEAT", "echo", "mmi.service"},
           NEW n \in 0 .. MaxRequests
    PROVE  [from |-> i, kind |-> k, request |-> n] \in CppMessage
  BY DEF CppMessage

\* A worker connects anew: the ROUTER has no other connection and no message of the
\* identity it comes with, or refuses it.
LEMMA ConnectStep ==
    ASSUME CppInv, NEW w \in CppWorker, NEW n \in Nat \ {0}, Connect(w, n)
    PROVE  CppInv'
<1> DEFINE D == DOMAIN cpp.workers
<1>1. PICK i, e, a, d, c :
        /\ i = (IF InUse(n) THEN 0 ELSE n) /\ e = [id |-> i, at |-> "waiting", request |-> 0, mail |-> <<>>]
        /\ a = [api EXCEPT ![w] = e] /\ d = [given EXCEPT ![w] = n] /\ c = closing \cup OwnId(w)
        /\ n <= MaxSessions /\ given' = d /\ closing' = c /\ api' = a
        /\ inbox' = (IF i = 0 THEN inbox ELSE Append(inbox, [from |-> i, kind |-> "READY", request |-> 0]))
        /\ UNCHANGED <<cpp, mdcli, asked, mail, got>>
  BY DEF Connect, ToBroker
<1>2. /\ api \in [CppWorker -> CppApi] /\ api[w] \in CppApi /\ inbox \in Seq(CppMessage)
      /\ MaxSessions \in Nat /\ MaxRequests \in Nat
      /\ closing \subseteq Identity /\ OwnId(w) \subseteq Identity
      /\ \A k \in DOMAIN inbox : inbox[k].kind \in {"READY", "REPLY"} =>
           inbox[k].from \in Identity /\ Had(inbox[k].from, api, closing)
      /\ PeersAre(inbox, api, given, closing)
      /\ Exchange(inbox, api, D, cpp.idle)
      /\ Spread(inbox, cpp.requests, mail, got, api, asked)
  BY WorkerIs
<1>3. /\ n \in 0 .. MaxSessions /\ i \in 0 .. MaxSessions /\ i \in 0 .. n /\ 0 \in 0 .. MaxRequests
      /\ i # 0 => i \in Identity /\ i = n /\ ~InUse(n)
  BY <1>1, <1>2 DEF Identity
<1>4. e \in CppApi /\ e.id = i /\ e.at = "waiting" /\ e.request = 0 /\ e.mail = <<>> /\ WorkIn(e) = {}
  <2>1. <<>> \in Seq(0 .. Astray)
    OBVIOUS
  <2>2. e \in CppApi
    BY <1>1, <1>3, <2>1, ApiMade
  <2> QED BY <1>1, <2>2 DEF WorkIn
<1>5. \A v \in CppWorker : a[v] = IF v = w THEN e ELSE api[v]
  BY <1>1, <1>2
<1>6. /\ i # 0 => ~Had(i, api, closing)
      /\ \A v \in CppWorker : i # 0 => api[v].id # i
  BY <1>3 DEF InUse, Had
<1>7. \A k \in DOMAIN inbox : inbox[k].kind \in {"READY", "REPLY"} => inbox[k].from # i
  <2>1. 0 \notin Identity
    BY DEF Identity
  <2> QED BY <1>2, <1>6, <2>1
<1> HIDE DEF D
<1>8. PeersAre(inbox, a, d, c)
  <2>1. c \in SUBSET Identity /\ closing \subseteq c /\ api[w].id \in {0, e.id} \cup c
    BY <1>1, <1>2 DEF OwnId
  <2>2. d = [given EXCEPT ![w] = n] /\ a = [api EXCEPT ![w] = e]
    BY <1>1
  <2>3. /\ e.at \in {"new", "ended"} => e.id = 0
        /\ e.at = "busy" => e.id # 0
        /\ e.at = "busy" <=> e.request # 0
        /\ e.id \in 0 .. n
        /\ \A v \in CppWorker : v # w /\ e.id # 0 => api[v].id # e.id
    BY <1>3, <1>4, <1>6
  <2> QED BY <1>2, <1>3, <1>4, <2>1, <2>2, <2>3, PeersWorker
<1>9. Exchange(inbox, a, D, cpp.idle)
  <2>1. a = [api EXCEPT ![w] = e]
    BY <1>1
  <2> QED BY <1>2, <1>4, <1>7, <2>1, ExchangeWorker
<1>10. Spread(inbox, cpp.requests, mail, got, a, asked)
  <2>1. a = [api EXCEPT ![w] = e]
    BY <1>1
  <2> QED BY <1>2, <1>4, <2>1, SpreadWorker
<1>11. CASE i = 0
  <2>1. inbox' = inbox
    BY <1>1, <1>11
  <2> QED BY <1>1, <1>8, <1>9, <1>10, <2>1 DEF CppInv, D
<1>12. CASE i # 0
  <2> DEFINE m == [from |-> i, kind |-> "READY", request |-> 0]
  <2>1. inbox' = Append(inbox, m)
    BY <1>1, <1>12
  <2>2. m \in CppMessage /\ m.from = i /\ m.kind = "READY" /\ m.request = 0
    BY <1>3, MessageIs
  <2> HIDE DEF m
  <2>3. Had(i, a, c) /\ AtRest(a, i)
    <3>1. a[w].id = i
      BY <1>4, <1>5
    <3>2. \A v \in CppWorker : a[v].id = i => a[v].at = "waiting" /\ WorkIn(a[v]) = {}
      BY <1>4, <1>5, <1>6, <1>12
    <3> QED BY <3>1, <3>2 DEF Had, AtRest
  <2>4. PeersAre(Append(inbox, m), a, d, c)
    BY <1>3, <1>8, <1>12, <2>2, <2>3, PeersAppend
  <2>5. Exchange(Append(inbox, m), a, D, cpp.idle)
    BY <1>2, <1>7, <1>9, <2>2, <2>3, ExchangeAppend
  <2>6. Spread(Append(inbox, m), cpp.requests, mail, got, a, asked)
    BY <1>2, <1>10, <2>2, SpreadAppend
  <2> QED BY <1>1, <2>1, <2>4, <2>5, <2>6 DEF CppInv, D
<1> QED BY <1>11, <1>12

\* A worker ends, with whatever it has.
LEMMA InterruptedStep ==
    ASSUME CppInv, NEW w \in CppWorker, Interrupted(w)
    PROVE  CppInv'
<1> DEFINE D == DOMAIN cpp.workers
<1>1. PICK e, a, c : /\ e = [id |-> 0, at |-> "ended", request |-> 0, mail |-> <<>>] /\ a = [api EXCEPT ![w] = e]
                     /\ c = closing \cup OwnId(w) /\ api' = a /\ closing' = c
                     /\ UNCHANGED <<cpp, inbox, given, mdcli, asked, mail, got>>
  BY DEF Interrupted
<1>2. /\ api \in [CppWorker -> CppApi] /\ api[w] \in CppApi /\ inbox \in Seq(CppMessage)
      /\ MaxSessions \in Nat /\ MaxRequests \in Nat /\ given[w] \in 0 .. MaxSessions
      /\ given \in [CppWorker -> 0 .. MaxSessions]
      /\ closing \subseteq Identity /\ OwnId(w) \subseteq Identity
      /\ \A k \in DOMAIN inbox : inbox[k].kind \in {"READY", "REPLY"} => inbox[k].from \in Identity
      /\ PeersAre(inbox, api, given, closing)
      /\ Exchange(inbox, api, D, cpp.idle)
      /\ Spread(inbox, cpp.requests, mail, got, api, asked)
  BY WorkerIs
<1>3. 0 \in 0 .. MaxRequests /\ 0 \in 0 .. MaxSessions /\ 0 \in 0 .. given[w] /\ 0 \notin Identity
  BY <1>2 DEF Identity
<1>4. e \in CppApi /\ e.id = 0 /\ e.at = "ended" /\ e.request = 0 /\ e.mail = <<>> /\ WorkIn(e) = {}
  <2>1. <<>> \in Seq(0 .. Astray)
    OBVIOUS
  <2>2. e \in CppApi
    BY <1>1, <1>3, <2>1, ApiMade
  <2> QED BY <1>1, <2>2 DEF WorkIn
<1> HIDE DEF D
<1>5. PeersAre(inbox, a, given, c)
  <2>1. c \in SUBSET Identity /\ closing \subseteq c /\ api[w].id \in {0, e.id} \cup c
    BY <1>1, <1>2 DEF OwnId
  <2>2. given = [given EXCEPT ![w] = given[w]] /\ a = [api EXCEPT ![w] = e]
    BY <1>1, <1>2
  <2>3. /\ e.at \in {"new", "ended"} => e.id = 0
        /\ e.at = "busy" => e.id # 0
        /\ e.at = "busy" <=> e.request # 0
        /\ e.id \in 0 .. given[w]
        /\ \A v \in CppWorker : v # w /\ e.id # 0 => api[v].id # e.id
    BY <1>3, <1>4
  <2> QED BY <1>2, <1>4, <2>1, <2>2, <2>3, PeersWorker
<1>6. Exchange(inbox, a, D, cpp.idle)
  <2>1. \A k \in DOMAIN inbox : inbox[k].kind \in {"READY", "REPLY"} => inbox[k].from # e.id
    BY <1>2, <1>3, <1>4
  <2>2. a = [api EXCEPT ![w] = e]
    BY <1>1
  <2> QED BY <1>2, <1>4, <2>1, <2>2, ExchangeWorker
<1>7. Spread(inbox, cpp.requests, mail, got, a, asked)
  <2>1. a = [api EXCEPT ![w] = e]
    BY <1>1
  <2> QED BY <1>2, <1>4, <2>1, SpreadWorker
<1> QED BY <1>1, <1>5, <1>6, <1>7 DEF CppInv, D

\* A worker takes its request from its mail.
LEMMA GetRequestStep ==
    ASSUME CppInv, NEW w \in CppWorker, GetRequest(w)
    PROVE  CppInv'
<1> DEFINE q == api[w].mail
           x == Head(q)
           e == [id |-> api[w].id, at |-> "busy", request |-> x, mail |-> Tail(q)]
           D == DOMAIN cpp.workers
           a == [api EXCEPT ![w] = e]
<1>1. /\ api[w].at = "waiting" /\ q # <<>> /\ x \in CppRequest
      /\ UNCHANGED <<cpp, inbox, given, closing, mdcli, asked, mail, got>>
  BY DEF GetRequest
<1>2. /\ api \in [CppWorker -> CppApi] /\ api[w] \in CppApi /\ inbox \in Seq(CppMessage)
      /\ MaxRequests \in Nat /\ given[w] \in 0 .. MaxSessions /\ given \in [CppWorker -> 0 .. MaxSessions]
      /\ api[w].id \in 0 .. given[w] /\ closing \subseteq Identity
      /\ \A v \in CppWorker : v # w /\ api[w].id # 0 => api[v].id # api[w].id
      /\ PeersAre(inbox, api, given, closing)
      /\ Exchange(inbox, api, D, cpp.idle)
      /\ Spread(inbox, cpp.requests, mail, got, api, asked)
  BY <1>1, WorkerIs
<1>3. /\ q \in Seq(0 .. Astray) /\ api[w].id \in 0 .. MaxSessions
      /\ api[w] = [id |-> api[w].id, at |-> api[w].at, request |-> api[w].request, mail |-> q]
  BY <1>2, ApiFields
<1>4. api' = a
  <2>1. api' = [api EXCEPT ![w].at = "busy", ![w].request = x, ![w].mail = Tail(@)]
    BY DEF GetRequest
  <2> HIDE DEF x
  <2>2. api' = [api EXCEPT ![w] = [[[api[w] EXCEPT !.at = "busy"] EXCEPT !.request = x] EXCEPT !.mail = Tail(@)]]
    BY <1>2, <2>1
  <2>3. PICK c1, c2 : c1 = [api[w] EXCEPT !.at = "busy"] /\ c2 = [c1 EXCEPT !.request = x]
    OBVIOUS
  <2>4. c1 = [id |-> api[w].id, at |-> "busy", request |-> api[w].request, mail |-> q]
    <3> HIDE DEF q
    <3> QED BY <1>3, <2>3
  <2>5. c2 = [id |-> api[w].id, at |-> "busy", request |-> x, mail |-> q]
    BY <2>3, <2>4
  <2>6. [c2 EXCEPT !.mail = Tail(@)] = e
    <3> DEFINE i == api[w].id
               r == Tail(q)
    <3>1. c2.mail = q
      BY <2>5
    <3>2. [c2 EXCEPT !.mail = Tail(@)] = [c2 EXCEPT !.mail = r]
      BY <3>1
    <3>3. e = [id |-> i, at |-> "busy", request |-> x, mail |-> r]
      OBVIOUS
    <3>4. c2 = [id |-> i, at |-> "busy", request |-> x, mail |-> q]
      BY <2>5
    <3> HIDE DEF q, r, i, e
    <3>5. [c2 EXCEPT !.mail = r] = e
      BY <3>3, <3>4
    <3> QED BY <3>2, <3>5
  <2>7. api' = [api EXCEPT ![w] = [c2 EXCEPT !.mail = Tail(@)]]
    BY <2>2, <2>3
  <2> QED BY <2>6, <2>7
<1>5. /\ Head(q) = q[1] /\ 1 \in DOMAIN q /\ Tail(q) \in Seq(0 .. Astray)
      /\ \A k \in DOMAIN Tail(q) : Tail(q)[k] = q[k + 1] /\ k + 1 \in DOMAIN q /\ k + 1 # 1
  <2> HIDE DEF q
  <2>1. /\ Tail(q) \in Seq(0 .. Astray) /\ Head(q) = q[1] /\ 1 \in 1 .. Len(q)
        /\ DOMAIN q = 1 .. Len(q) /\ DOMAIN Tail(q) = 1 .. Len(q) - 1 /\ Len(q) \in Nat
        /\ \A k \in 1 .. Len(q) - 1 : Tail(q)[k] = q[k + 1] /\ k + 1 \in 1 .. Len(q)
    BY <1>1, <1>3, Tailed
  <2>2. \A k \in 1 .. Len(q) - 1 : k + 1 # 1
    BY <2>1
  <2> QED BY <2>1, <2>2
<1>6. e \in CppApi /\ e.id = api[w].id /\ e.at = "busy" /\ e.request = x /\ e.mail = Tail(q)
  <2>1. e \in CppApi
    <3>1. x \in 0 .. MaxRequests
      BY <1>1, <1>2 DEF CppRequest
    <3> HIDE DEF q, x
    <3> QED BY <1>3, <1>5, <3>1, ApiMade
  <2> QED BY <2>1
<1>a. x # 0 /\ x \notin {DISCONNECT, Astray}
  BY <1>1, <1>2 DEF CppRequest, DISCONNECT, Astray
<1>7. 1 \in WorkIn(api[w])
  BY <1>1, <1>5, <1>a DEF WorkIn
<1>8. api[w].id # 0 /\ api[w].id \notin cpp.idle /\ \A k \in WorkIn(api[w]) : k = 1
  BY <1>2, <1>7 DEF Exchange
<1>9. \A k \in DOMAIN inbox : /\ inbox[k].kind = "REPLY" => inbox[k].from # api[w].id
                              /\ inbox[k].kind = "READY" /\ inbox[k].from = api[w].id => api[w].id \in D
  <2>1. ~AtRest(api, api[w].id)
    BY <1>7 DEF AtRest
  <2> HIDE DEF D
  <2> QED BY <1>2, <2>1 DEF Exchange
<1>10. WorkIn(e) = {}
  <2>1. \A k \in WorkIn(e) : k \in DOMAIN Tail(q) /\ Tail(q)[k] \notin {DISCONNECT, Astray}
    BY <1>6 DEF WorkIn
  <2>2. \A k \in WorkIn(e) : k + 1 \in WorkIn(api[w]) /\ k + 1 # 1
    BY <1>5, <2>1 DEF WorkIn
  <2> QED BY <1>8, <2>2
<1>11. e.request = api[w].mail[1] /\ given = [given EXCEPT ![w] = given[w]] /\ api[w].id \in {0, e.id} \cup closing
  BY <1>2, <1>5, <1>6
<1> HIDE DEF q, x, e, D
<1>12. PeersAre(inbox, a, given, closing)
  BY <1>2, <1>6, <1>8, <1>a, <1>11, PeersWorker
<1>13. Exchange(inbox, a, D, cpp.idle)
  <2>1. \A k \in DOMAIN inbox : /\ inbox[k].kind = "REPLY" => inbox[k].from # e.id
                                /\ inbox[k].kind = "READY" /\ inbox[k].from = e.id => e.id \in D
    BY <1>6, <1>9
  <2>2. /\ e.at = "busy" => WorkIn(e) = {} /\ e.id \notin cpp.idle
        /\ WorkIn(e) # {} => e.id # 0 /\ e.id \notin cpp.idle
        /\ \A j, k \in WorkIn(e) : j = k
    BY <1>6, <1>8, <1>10
  <2>3. api \in [CppWorker -> CppApi] /\ Exchange(inbox, api, D, cpp.idle) /\ e \in CppApi
    BY <1>2, <1>6
  <2> QED BY <2>1, <2>2, <2>3, ExchangeWorker
<1>14. Spread(inbox, cpp.requests, mail, got, a, asked)
  BY <1>2, <1>6, <1>7, <1>10, <1>11, SpreadHold
<1> HIDE DEF a
<1> QED BY <1>1, <1>4, <1>12, <1>13, <1>14 DEF CppInv, D

\* A worker answers.
LEMMA SendReplyStep ==
    ASSUME CppInv, NEW w \in CppWorker, SendReply(w)
    PROVE  CppInv'
<1> DEFINE i == api[w].id
           n == api[w].request
           e == [id |-> i, at |-> "waiting", request |-> 0, mail |-> api[w].mail]
           m == [from |-> i, kind |-> "REPLY", request |-> n]
           D == DOMAIN cpp.workers
           a == [api EXCEPT ![w] = e]
<1>1. /\ api[w].at = "busy" /\ inbox' = Append(inbox, m)
      /\ UNCHANGED <<cpp, given, closing, mdcli, asked, mail, got>>
  BY DEF SendReply, ToBroker
<1>2. /\ api \in [CppWorker -> CppApi] /\ api[w] \in CppApi /\ inbox \in Seq(CppMessage)
      /\ MaxSessions \in Nat /\ MaxRequests \in Nat /\ given[w] \in 0 .. MaxSessions
      /\ given \in [CppWorker -> 0 .. MaxSessions] /\ closing \subseteq Identity
      /\ i \in 0 .. given[w] /\ i # 0 /\ n # 0
      /\ \A v \in CppWorker : v # w /\ i # 0 => api[v].id # i
      /\ PeersAre(inbox, api, given, closing)
      /\ Exchange(inbox, api, D, cpp.idle)
      /\ Spread(inbox, cpp.requests, mail, got, api, asked)
  BY <1>1, WorkerIs
<1>3. /\ api[w].mail \in Seq(0 .. Astray) /\ i \in 0 .. MaxSessions /\ n \in 0 .. MaxRequests
      /\ api[w] = [id |-> i, at |-> api[w].at, request |-> n, mail |-> api[w].mail]
  BY <1>2, ApiFields
<1>4. api' = a
  <2>1. api' = [api EXCEPT ![w].at = "waiting", ![w].request = 0]
    BY DEF SendReply
  <2>2. api' = [api EXCEPT ![w] = [[api[w] EXCEPT !.at = "waiting"] EXCEPT !.request = 0]]
    BY <1>2, <2>1
  <2>3. PICK c : c = [api[w] EXCEPT !.at = "waiting"]
    OBVIOUS
  <2> HIDE DEF i, n
  <2>4. c = [id |-> i, at |-> "waiting", request |-> n, mail |-> api[w].mail]
    BY <1>3, <2>3
  <2>5. [c EXCEPT !.request = 0] = e
    BY <2>4
  <2> QED BY <2>2, <2>3, <2>5
<1>5. e \in CppApi /\ e.id = i /\ e.at = "waiting" /\ e.request = 0 /\ e.mail = api[w].mail
  <2>1. e \in CppApi
    <3>1. 0 \in 0 .. MaxRequests
      BY <1>2
    <3> HIDE DEF i
    <3> QED BY <1>3, <3>1, ApiMade
  <2> QED BY <2>1
<1>6. m \in CppMessage /\ m.from = i /\ m.kind = "REPLY" /\ m.request = n
  BY <1>3, MessageIs
<1>7. WorkIn(api[w]) = {} /\ i \notin cpp.idle
  BY <1>1, <1>2 DEF Exchange
<1>8. WorkIn(e) = {}
  <2>1. WorkIn(e) = WorkIn(api[w])
    BY <1>5 DEF WorkIn
  <2> QED BY <1>7, <2>1
<1>9. /\ \A k \in DOMAIN inbox : inbox[k].kind = "REPLY" => inbox[k].from # i
      /\ \A k \in DOMAIN inbox : inbox[k].kind = "READY" /\ inbox[k].from = i => i \in D
  <2>1. ~AtRest(api, i)
    BY <1>1 DEF AtRest
  <2> HIDE DEF i, D
  <2> QED BY <1>2, <2>1 DEF Exchange
<1>10. i \in Identity
  <2> HIDE DEF i
  <2> QED BY <1>2 DEF Identity
<1> HIDE DEF i, n, e, m, D
<1>11. \A v \in CppWorker : a[v] = IF v = w THEN e ELSE api[v]
  BY <1>2
<1>12. PeersAre(inbox, a, given, closing)
  <2>1. given = [given EXCEPT ![w] = given[w]]
    BY <1>2
  <2>2. api[w].id \in {0, e.id} \cup closing
    BY <1>5 DEF i
  <2>3. /\ e.at \in {"new", "ended"} => e.id = 0
        /\ e.at = "busy" => e.id # 0
        /\ e.at = "busy" <=> e.request # 0
        /\ e.id \in 0 .. given[w]
        /\ \A v \in CppWorker : v # w /\ e.id # 0 => api[v].id # e.id
    BY <1>2, <1>5
  <2> QED BY <1>2, <1>5, <2>1, <2>2, <2>3, PeersWorker
<1>13. Exchange(inbox, a, D, cpp.idle)
  <2>1. \A k \in DOMAIN inbox : /\ inbox[k].kind = "REPLY" => inbox[k].from # e.id
                                /\ inbox[k].kind = "READY" /\ inbox[k].from = e.id => e.id \in D
    BY <1>5, <1>9
  <2> QED BY <1>2, <1>5, <1>8, <2>1, ExchangeWorker
<1>14. Spread(inbox, cpp.requests, mail, got, a, asked) /\ n \in 1 .. asked
       /\ InNoPlace(n, inbox, cpp.requests, mail, got, a)
  BY <1>2, <1>5, <1>8, SpreadWorker DEF n
<1> HIDE DEF a
<1>15. PeersAre(Append(inbox, m), a, given, closing)
  <2>1. Had(i, a, closing)
    BY <1>5, <1>11 DEF Had
  <2> QED BY <1>2, <1>6, <1>10, <1>12, <2>1, PeersAppend
<1>16. Exchange(Append(inbox, m), a, D, cpp.idle)
  <2>1. AtRest(a, i)
    BY <1>2, <1>5, <1>8, <1>11 DEF AtRest
  <2> QED BY <1>2, <1>6, <1>7, <1>9, <1>13, <2>1, ExchangeAppend
<1>17. Spread(Append(inbox, m), cpp.requests, mail, got, a, asked)
  BY <1>2, <1>6, <1>14, SpreadAppend
<1> QED BY <1>1, <1>4, <1>15, <1>16, <1>17 DEF CppInv, D

\* A worker says that it is there.
LEMMA SendHeartbeatStep ==
    ASSUME CppInv, NEW w \in CppWorker, SendHeartbeat(w)
    PROVE  CppInv'
<1> DEFINE i == api[w].id
           m == [from |-> i, kind |-> "HEARTBEAT", request |-> 0]
           D == DOMAIN cpp.workers
<1>1. /\ i # 0 /\ inbox' = Append(inbox, m)
      /\ UNCHANGED <<cpp, api, given, closing, mdcli, asked, mail, got>>
  BY DEF SendHeartbeat, ToBroker
<1>2. /\ api[w] \in CppApi /\ inbox \in Seq(CppMessage) /\ MaxRequests \in Nat /\ OwnId(w) \subseteq Identity
      /\ PeersAre(inbox, api, given, closing)
      /\ Exchange(inbox, api, D, cpp.idle)
      /\ Spread(inbox, cpp.requests, mail, got, api, asked)
  BY WorkerIs
<1>3. i \in Identity /\ Had(i, api, closing)
  BY <1>1, <1>2 DEF OwnId, Had
<1>4. m \in CppMessage /\ m.from = i /\ m.kind = "HEARTBEAT" /\ m.request = 0
  <2>1. i \in 0 .. MaxSessions /\ 0 \in 0 .. MaxRequests
    BY <1>2, ApiFields
  <2> QED BY <2>1, MessageIs
<1> HIDE DEF i, m, D
<1>5. PeersAre(Append(inbox, m), api, given, closing)
  BY <1>2, <1>3, <1>4, PeersAppend
<1>6. Exchange(Append(inbox, m), api, D, cpp.idle)
  BY <1>2, <1>4, ExchangeAppend
<1>7. Spread(Append(inbox, m), cpp.requests, mail, got, api, asked)
  BY <1>2, <1>4, SpreadAppend
<1> QED BY <1>1, <1>5, <1>6, <1>7 DEF CppInv, D

\* The ROUTER sees the end of a connection.
LEMMA LetGoStep ==
    ASSUME CppInv, NEW i, LetGo(i)
    PROVE  CppInv'
<1>1. /\ \A k \in DOMAIN inbox : inbox[k].from # i
      /\ closing' = closing \ {i}
      /\ UNCHANGED <<cpp, inbox, api, given, mdcli, asked, mail, got>>
  BY DEF LetGo
<1>2. PeersAre(inbox, api, given, closing \ {i})
  BY <1>1, PeersLetGo DEF CppInv
<1> QED BY <1>1, <1>2 DEF CppInv

\* The client opens its connection.
LEMMA CppOpenStep ==
    ASSUME CppInv, CppOpen
    PROVE  CppInv'
<1>1. mdcli' \in {"linked", "refused"} /\ UNCHANGED <<cpp, inbox, api, given, closing, asked, mail, got>>
  BY DEF CppOpen
<1> QED BY <1>1 DEF CppInv

\* The client ends, and the ROUTER keeps the identity that it had.
LEMMA CppAbandonStep ==
    ASSUME CppInv, CppAbandon
    PROVE  CppInv'
<1>1. /\ mdcli' = "ended"
      /\ closing' = closing \/ closing' = closing \cup {First}
      /\ UNCHANGED <<cpp, inbox, api, given, asked, mail, got>>
  BY DEF CppAbandon
<1>2. First \in Identity
  BY CppAssumption DEF First, Identity
<1>3. PeersAre(inbox, api, given, closing')
  <2>1. PeersAre(inbox, api, given, closing) /\ PeersAre(inbox, api, given, closing \cup {First})
    BY <1>2, PeersMore DEF CppInv
  <2> QED BY <1>1, <2>1
<1> QED BY <1>1, <1>3 DEF CppInv

\* The client sends a request.
LEMMA CppSendStep ==
    ASSUME CppInv, CppSend
    PROVE  CppInv'
<1> DEFINE n == asked + 1
           D == DOMAIN cpp.workers
<1>1. PICK k \in {"echo", "mmi.service"} :
        /\ asked < MaxRequests /\ asked' = n
        /\ inbox' = inbox \/ inbox' = Append(inbox, [from |-> First, kind |-> k, request |-> n])
        /\ UNCHANGED <<cpp, api, given, closing, mdcli, mail, got>>
  BY DEF CppSend, ToBroker
<1> DEFINE m == [from |-> First, kind |-> k, request |-> n]
<1>2. /\ inbox \in Seq(CppMessage) /\ asked \in 0 .. MaxRequests /\ MaxRequests \in Nat
      /\ PeersAre(inbox, api, given, closing)
      /\ Exchange(inbox, api, D, cpp.idle)
      /\ Spread(inbox, cpp.requests, mail, got, api, asked)
  BY CppAssumption DEF CppInv, PeersAre
<1>3. n \in 0 .. MaxRequests /\ n # 0 /\ n \in 1 .. n /\ asked \in Nat
  BY <1>1, <1>2
<1>4. m \in CppMessage /\ m.kind \in {"echo", "mmi.service"} /\ m.request = n
  <2>1. First \in 0 .. MaxSessions
    BY CppAssumption DEF First
  <2> HIDE DEF n
  <2> QED BY <1>3, <2>1, MessageIs
<1>5. Spread(inbox, cpp.requests, mail, got, api, n) /\ InNoPlace(n, inbox, cpp.requests, mail, got, api)
  BY <1>2, <1>3, SpreadMore
<1> HIDE DEF n, D
<1>6. inbox' = inbox \/ inbox' = Append(inbox, m)
  BY <1>1
<1> HIDE DEF m
<1>7. PeersAre(Append(inbox, m), api, given, closing)
  BY <1>2, <1>3, <1>4, PeersAppend
<1>8. Exchange(Append(inbox, m), api, D, cpp.idle)
  BY <1>2, <1>4, ExchangeAppend
<1>9. Spread(Append(inbox, m), cpp.requests, mail, got, api, n)
  BY <1>2, <1>3, <1>4, <1>5, SpreadAppend
<1>10. /\ PeersAre(inbox', api, given, closing)
       /\ Exchange(inbox', api, D, cpp.idle)
       /\ Spread(inbox', cpp.requests, mail, got, api, n)
  BY <1>2, <1>5, <1>6, <1>7, <1>8, <1>9
<1> QED BY <1>1, <1>3, <1>10 DEF CppInv, D

\* The client reads a reply.
LEMMA CppReceiveStep ==
    ASSUME CppInv, CppReceive
    PROVE  CppInv'
<1>1. /\ mail # <<>> /\ got' = Append(got, Head(mail)) /\ mail' = Tail(mail)
      /\ UNCHANGED <<cpp, inbox, api, given, closing, mdcli, asked>>
  BY DEF CppReceive
<1>2. Spread(inbox, cpp.requests, Tail(mail), Append(got, Head(mail)), api, asked)
  BY <1>1, SpreadReceive DEF CppInv
<1> QED BY <1>1, <1>2 DEF CppInv

\* In the beginning nobody is known and nothing is anywhere.
LEMMA CppBegins ==
    ASSUME CppInit
    PROVE  CppInv
<1>1. MaxRequests \in Nat /\ MaxSessions \in Nat /\ Expiry \in Nat
  BY CppAssumption
<1>2. Coherent(cpp) /\ NoneWaits(cpp) /\ cpp.out = <<>> /\ cpp.requests = <<>> /\ cpp.idle = {}
      /\ DOMAIN cpp.workers = {}
  <2> DEFINE wo == [i \in {} |-> 0]
  <2>1. wo \in [{} -> 0 .. Expiry] /\ DOMAIN wo = {}
    OBVIOUS
  <2>2. cpp = [running |-> TRUE, service |-> FALSE, requests |-> <<>>, list |-> <<>>,
               count |-> 0, workers |-> wo, idle |-> {}, out |-> <<>>]
    BY DEF CppInit
  <2> HIDE DEF wo
  <2>3. /\ <<>> \in Seq(CppRequest) /\ <<>> \in Seq(Identity) /\ <<>> \in Seq(Identity \X (0 .. MaxRequests))
        /\ {} \in SUBSET Identity
    OBVIOUS
  <2>4. cpp \in CppBroker
    <3>1. wo \in UNION {[W -> 0 .. Expiry] : W \in SUBSET Identity}
      BY <2>1, <2>3
    <3> QED BY <2>2, <2>3, <3>1 DEF CppBroker
  <2>5. Once(<<>>) /\ ToSet(<<>>) = {} /\ Cardinality({}) = 0
    BY FS_EmptySet DEF Once, ToSet
  <2> QED BY <2>1, <2>2, <2>4, <2>5 DEF Coherent, NoneWaits
<1>3. /\ inbox = <<>> /\ given = [w \in CppWorker |-> 0] /\ closing = {} /\ mdcli = "new" /\ asked = 0
      /\ mail = <<>> /\ got = <<>>
      /\ api = [w \in CppWorker |-> [id |-> 0, at |-> "new", request |-> 0, mail |-> <<>>]]
  BY DEF CppInit
<1>4. \A w \in CppWorker : /\ api[w] \in CppApi /\ api[w].id = 0 /\ api[w].at = "new"
                           /\ api[w].request = 0 /\ api[w].mail = <<>> /\ WorkIn(api[w]) = {}
  <2> DEFINE e == [id |-> 0, at |-> "new", request |-> 0, mail |-> <<>>]
  <2>1. 0 \in 0 .. MaxSessions /\ 0 \in 0 .. MaxRequests /\ <<>> \in Seq(0 .. Astray)
    BY <1>1
  <2>2. e \in CppApi
    BY <2>1, ApiMade
  <2>3. e.id = 0 /\ e.at = "new" /\ e.request = 0 /\ e.mail = <<>> /\ WorkIn(e) = {}
    BY DEF WorkIn
  <2> HIDE DEF e
  <2>4. \A w \in CppWorker : api[w] = e
    BY <1>3 DEF e
  <2> QED BY <2>2, <2>3, <2>4
<1>5. api \in [CppWorker -> CppApi]
  BY <1>3, <1>4
<1>6. PeersAre(inbox, api, given, closing)
  BY <1>1, <1>2, <1>3, <1>4, <1>5 DEF PeersAre
<1>7. Exchange(inbox, api, DOMAIN cpp.workers, cpp.idle)
  BY <1>2, <1>3, <1>4 DEF Exchange
<1>8. Spread(inbox, cpp.requests, mail, got, api, asked)
  <2>1. Boxed(inbox) = {} /\ ToSet(cpp.requests) = {} /\ ToSet(mail) = {} /\ ToSet(got) = {}
    BY <1>2, <1>3 DEF Boxed, ToSet
  <2>2. InHand(api) = {}
    BY <1>4 DEF InHand
  <2>3. Carried(api) = {}
    BY <1>4, CarriedIs
  <2>4. Once(cpp.requests) /\ Once(mail) /\ Once(got)
    BY <1>2, <1>3 DEF Once
  <2>5. Apart(Boxed(inbox), ToSet(cpp.requests), ToSet(mail), ToSet(got), InHand(api), Carried(api))
    BY <2>1, <2>2, <2>3 DEF Apart
  <2>6. Boxed(inbox) \cup ToSet(cpp.requests) \cup ToSet(mail) \cup ToSet(got)
          \cup InHand(api) \cup Carried(api) \subseteq 1 .. asked
    BY <2>1, <2>2, <2>3
  <2>7. cpp.requests \in Seq(CppRequest) /\ mail \in Seq(CppRequest) /\ got \in Seq(CppRequest)
    BY <1>2, <1>3
  <2>8. \A k, l \in DOMAIN inbox : inbox[k].request = inbox[l].request /\ inbox[k].request # 0 => k = l
    BY <1>3
  <2>9. \A w, v \in CppWorker : api[w].request = api[v].request /\ api[w].request # 0 => w = v
    BY <1>4
  <2>10. \A w, v \in CppWorker : \A k \in WorkIn(api[w]), l \in WorkIn(api[v]) :
           api[w].mail[k] = api[v].mail[l] => w = v
    BY <1>4
  <2> QED BY <2>4, <2>5, <2>6, <2>7, <2>8, <2>9, <2>10 DEF Spread
<1> QED BY <1>1, <1>2, <1>3, <1>6, <1>7, <1>8 DEF CppInv

\* Every step keeps the invariant.
LEMMA CppInvStep ==
    ASSUME CppInv, [CppNext]_cppVars
    PROVE  CppInv'
<1>1. CASE OnReady \/ OnReply \/ OnHeartbeat \/ OnRequest \/ OnInternal \/ OnTimer \/ CppTick
  BY <1>1, OnReadyStep, OnReplyStep, OnHeartbeatStep, OnRequestStep, OnInternalStep, OnTimerStep, CppTickStep
<1>2. ASSUME NEW w \in CppWorker, Start(w) \/ Disconnected(w) \/ Silent(w)
      PROVE  CppInv'
  <2>1. CASE Start(w)
    <3>1. Connect(w, First) /\ First \in Nat \ {0}
      BY <2>1 DEF Start, First
    <3> QED BY <3>1, ConnectStep
  <2>2. CASE Disconnected(w) \/ Silent(w)
    <3> DEFINE n == given[w] + 1
    <3>1. Connect(w, n)
      BY <2>2 DEF Disconnected, Silent
    <3>2. n \in Nat \ {0}
      BY WorkerIs
    <3> HIDE DEF n
    <3> QED BY <3>1, <3>2, ConnectStep
  <2> QED BY <1>2, <2>1, <2>2
<1>3. ASSUME NEW w \in CppWorker, Interrupted(w) \/ GetRequest(w) \/ SendReply(w) \/ SendHeartbeat(w)
      PROVE  CppInv'
  BY <1>3, InterruptedStep, GetRequestStep, SendReplyStep, SendHeartbeatStep
<1>4. CASE CppOpen \/ CppSend \/ CppReceive \/ CppAbandon
  BY <1>4, CppOpenStep, CppSendStep, CppReceiveStep, CppAbandonStep
<1>5. CASE \E i \in Identity : LetGo(i)
  BY <1>5, LetGoStep
<1>6. CASE UNCHANGED cppVars
  BY <1>6 DEF cppVars, CppInv
<1> QED BY <1>1, <1>2, <1>3, <1>4, <1>5, <1>6 DEF CppNext

\* A set whose elements are equal has one at most.
LEMMA AtMostOne ==
    ASSUME NEW S, \A x, y \in S : x = y
    PROVE  Cardinality(S) \in {0, 1} /\ (Cardinality(S) # 0 => S # {})
<1>1. CASE S = {}
  BY <1>1, FS_EmptySet
<1>2. CASE S # {}
  <2>1. PICK x \in S : S = {x}
    BY <1>2
  <2> QED BY <1>2, <2>1, FS_Singleton
<1> QED BY <1>1, <1>2

\* Places that are apart count a request once.
LEMMA PlacesBounded ==
    ASSUME CppInv, NEW n \in CppRequest
    PROVE  Places(n) <= 1
<1> DEFINE boxed == {k \in DOMAIN inbox : inbox[k].request = n}
           at(s) == {k \in DOMAIN s : s[k] = n}
           holders  == {w \in CppWorker : api[w].request = n}
           carry == {w \in CppWorker : \E k \in DOMAIN api[w].mail : api[w].mail[k] = n}
<1>1. Spread(inbox, cpp.requests, mail, got, api, asked) /\ n # 0
  BY DEF CppInv, CppRequest
<1>2. Cardinality(boxed) \in {0, 1} /\ (Cardinality(boxed) # 0 => n \in Boxed(inbox))
  <2>1. \A k, l \in boxed : k = l
    BY <1>1 DEF Spread
  <2>2. boxed # {} => n \in Boxed(inbox)
    BY <1>1 DEF Boxed
  <2> HIDE DEF boxed
  <2> QED BY <2>1, <2>2, AtMostOne
<1>3. ASSUME NEW s, Once(s)
      PROVE  Cardinality(at(s)) \in {0, 1} /\ (Cardinality(at(s)) # 0 => n \in ToSet(s))
  <2>1. \A k, l \in at(s) : k = l
    BY <1>3 DEF Once
  <2>2. at(s) # {} => n \in ToSet(s)
    BY DEF ToSet
  <2> HIDE DEF at
  <2> QED BY <2>1, <2>2, AtMostOne
<1>4. Cardinality(holders) \in {0, 1} /\ (Cardinality(holders) # 0 => n \in InHand(api))
  <2>1. \A w, v \in holders : w = v
    BY <1>1 DEF Spread
  <2>2. holders # {} => n \in InHand(api)
    BY <1>1 DEF InHand
  <2> HIDE DEF holders
  <2> QED BY <2>1, <2>2, AtMostOne
<1>5. Cardinality(carry) \in {0, 1} /\ (Cardinality(carry) # 0 => n \in Carried(api))
  <2>1. \A w \in CppWorker : \A k \in DOMAIN api[w].mail : api[w].mail[k] = n => k \in WorkIn(api[w])
    <3>1. n \notin {DISCONNECT, Astray}
      BY CppAssumption DEF CppRequest, DISCONNECT, Astray
    <3> QED BY <3>1 DEF WorkIn
  <2>2. \A w, v \in carry : w = v
    BY <1>1, <2>1 DEF Spread
  <2>3. carry # {} => n \in Carried(api)
    BY <2>1, CarriedIs
  <2> HIDE DEF carry
  <2> QED BY <2>2, <2>3, AtMostOne
<1>6. /\ Cardinality(at(cpp.requests)) \in {0, 1} /\ (Cardinality(at(cpp.requests)) # 0 => n \in ToSet(cpp.requests))
      /\ Cardinality(at(mail)) \in {0, 1} /\ (Cardinality(at(mail)) # 0 => n \in ToSet(mail))
      /\ Cardinality(at(got)) \in {0, 1} /\ (Cardinality(at(got)) # 0 => n \in ToSet(got))
  <2> HIDE DEF at
  <2> QED BY <1>1, <1>3 DEF Spread
<1>7. Places(n) = Cardinality(boxed) + Cardinality(at(cpp.requests)) + Cardinality(at(mail))
                  + Cardinality(at(got)) + Cardinality(holders) + Cardinality(carry)
  BY DEF Places
<1>8. Apart(Boxed(inbox), ToSet(cpp.requests), ToSet(mail), ToSet(got), InHand(api), Carried(api))
  BY <1>1 DEF Spread
<1> HIDE DEF boxed, at, holders, carry
<1>9. ASSUME NEW a \in {0, 1}, NEW b \in {0, 1}, NEW c \in {0, 1}, NEW d \in {0, 1}, NEW e \in {0, 1}, NEW f \in {0, 1},
             a # 0 => b = 0 /\ c = 0 /\ d = 0 /\ e = 0 /\ f = 0,
             b # 0 => c = 0 /\ d = 0 /\ e = 0 /\ f = 0, c # 0 => d = 0 /\ e = 0 /\ f = 0,
             d # 0 => e = 0 /\ f = 0, e # 0 => f = 0
      PROVE  a + b + c + d + e + f <= 1
  BY <1>9
<1>10. /\ n \in Boxed(inbox) => n \notin ToSet(cpp.requests) /\ n \notin ToSet(mail) /\ n \notin ToSet(got)
                                /\ n \notin InHand(api) /\ n \notin Carried(api)
       /\ n \in ToSet(cpp.requests) => n \notin ToSet(mail) /\ n \notin ToSet(got)
                                /\ n \notin InHand(api) /\ n \notin Carried(api)
       /\ n \in ToSet(mail) => n \notin ToSet(got) /\ n \notin InHand(api) /\ n \notin Carried(api)
       /\ n \in ToSet(got) => n \notin InHand(api) /\ n \notin Carried(api)
       /\ n \in InHand(api) => n \notin Carried(api)
  BY <1>8 DEF Apart
<1> QED BY <1>2, <1>4, <1>5, <1>6, <1>7, <1>9, <1>10

\* The invariant has all that the run checks.
LEMMA CppInvMeans == CppInv => CppTypeOK /\ CppSound
<1> SUFFICES ASSUME CppInv PROVE CppTypeOK /\ CppSound
  OBVIOUS
<1>1. /\ Coherent(cpp) /\ NoneWaits(cpp) /\ cpp.out = <<>> /\ asked \in 0 .. MaxRequests
      /\ mdcli \in {"new", "linked", "astray", "refused", "ended"} /\ PeersAre(inbox, api, given, closing)
      /\ Exchange(inbox, api, DOMAIN cpp.workers, cpp.idle)
  BY DEF CppInv
<1>2. /\ cpp.running \in BOOLEAN /\ cpp.service \in BOOLEAN /\ cpp.requests \in Seq(CppRequest)
      /\ cpp.list \in Seq(Identity) /\ cpp.workers \in [DOMAIN cpp.workers -> 0 .. Expiry]
      /\ DOMAIN cpp.workers \subseteq Identity
  BY <1>1, BrokerFields DEF Coherent
<1>3. Once(cpp.list) /\ ToSet(cpp.list) = cpp.idle /\ cpp.idle \subseteq DOMAIN cpp.workers
      /\ cpp.count = Cardinality(DOMAIN cpp.workers)
  BY <1>1 DEF Coherent
<1>4. CppTypeOK
  <2>1. Range(cpp.workers) \subseteq 0 .. Expiry
    BY <1>2 DEF Range
  <2>2. \A w \in CppWorker : api[w].at \in {"new", "waiting", "busy", "ended"} /\ api[w].id \in 0 .. given[w]
    <3>1. \A w \in CppWorker : api[w] \in CppApi
      BY <1>1 DEF PeersAre
    <3> QED BY <3>1, ApiFields, WorkerIs
  <2> QED BY <1>1, <1>2, <1>3, <2>1, <2>2 DEF CppTypeOK, PeersAre
<1>5. CppSound
  <2>1. Len(cpp.list) = Cardinality(cpp.idle)
    BY <1>2, <1>3, OnceLong
  <2>2. ASSUME NEW w \in CppWorker, api[w].at = "busy"
        PROVE  api[w].id \notin cpp.idle /\ ToSet(api[w].mail) \cap CppRequest = {}
    <3>1. api[w].id \notin cpp.idle /\ WorkIn(api[w]) = {}
      BY <1>1, <2>2 DEF Exchange
    <3>2. \A n \in CppRequest : n \notin {DISCONNECT, Astray}
      BY CppAssumption DEF CppRequest, DISCONNECT, Astray
    <3>3. \A k \in DOMAIN api[w].mail : api[w].mail[k] \notin CppRequest
      BY <3>1, <3>2 DEF WorkIn
    <3> QED BY <3>1, <3>3 DEF ToSet
  <2>3. \A n \in CppRequest : Places(n) <= 1
    BY PlacesBounded
  <2> QED BY <1>1, <1>3, <2>1, <2>2, <2>3 DEF CppSound, NoneWaits
<1> QED BY <1>4, <1>5

\* The broker's structures agree with one another, a worker at work is not idle, and no
\* request is in two places, for any number of processes that all draw the same identities
\* and come back under those the broker knows (mdbroker.cpp:153-301, zhelpers.hpp:158-166).
THEOREM CppIsSound == CppSpec => [](CppTypeOK /\ CppSound)
<1>1. CppInit => CppInv
  BY CppBegins
<1>2. CppInv /\ [CppNext]_cppVars => CppInv'
  BY CppInvStep
<1> QED BY <1>1, <1>2, CppInvMeans, PTL DEF CppSpec

=============================================================================
