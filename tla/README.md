# Verification of the ZeroMQ messaging patterns

The repository collects messaging systems built on ZeroMQ. This directory holds
TLA+ specifications of the ones with logic of their own, TLC configurations that
model-check them, and proofs that TLAPS checks.

1. [Inventory](#1-inventory): what the repository holds
2. [What is modelled](#2-what-is-modelled): modules, state, actions, and the code
3. [What the checks and the proofs show](#3-what-the-checks-and-the-proofs-show)
4. [Plan](#4-plan): what comes next, and in which order
5. [What is not modelled](#5-what-is-not-modelled)

## 1. Inventory

| Part | Code | State it keeps | Operations | Hard parts | What makes it correct |
|---|---|---|---|---|---|
| Majordomo broker | `MMI/mdbroker.c` (identical copies in `majordomo2/`, `TitanicPattern/`) | hash of services, hash of workers, broker-wide waiting list, per service a request queue, a waiting list and a worker count, `heartbeat_at` | READY, REPLY, HEARTBEAT, DISCONNECT, client request, `mmi.service`, purge, dispatch, heartbeat round | two lists of raw pointers that must agree; who starts a dispatch; expiry order; restart | lists and counts agree, no request waits beside an idle worker, one permission to work per worker |
| Majordomo worker | `MMI/mdwrkapi.c`, `MMI/mdworker.c` | socket, `liveness`, `heartbeat_at`, `reply_to` | connect, receive loop, reconnect | false alarms, reconnect races, lost requests | no false alarm, registered again after any restart |
| Majordomo client | `MMI/mdcliapi.c` | socket, retries | `mdcli_send` | late replies, REQ lock-step after an abandoned call | a reply answers the call it is returned for |
| Asynchronous client | `MMI/mdcliapi2.c` | socket | send, receive | replies out of order | replies are matched to services |
| Majordomo in C++ | `majordomo/*.cpp`, `*.hpp` | as above, and the identities that each process draws | as above | identities come from a `random()` that nobody seeds: a process that comes back has the identity of the one before, and clients and workers the same ones | as above |
| Titanic | `TitanicPattern/titanic.c` | request and reply files, queue file, pipe between threads | request, reply, close threads; dispatcher | crash between file steps, close racing dispatch, re-dispatch | an acknowledged request is dispatched and its reply can be fetched |
| Binary Star | `clones/bstar.c` | `state`, `event`, `peer_expiry` | publish state, receive state, voter | two actives, no active, client requests before a fail-over | never two actives, always one in the end |
| Clone server | `clones/cloneserver6.c` | `kvmap`, `sequence`, `pending`, active or passive | collector, snapshots, flush, subscriber, state changes | client and peer streams in either order, fail-over, snapshot without a timeout | the passive map is the active's at the same sequence |
| Clone client | `clones/clone.c` | servers, `cur_server`, state, `sequence`, `requests` | set, get, connect, snapshot, update, fail over | updates during a snapshot, refused requests | the map converges to the server's |
| Key-value messages | `clones/kvmsg.c` | frames, properties | encode, decode, store, duplicate | property sizes | a copy is the message |
| Load balancer | `load_balancer/lb_broker.c`, `load_balancer_2/load_balancer.c` | `worker_queue`, `available_workers`, `client_nbr` | READY, reply, request | polling the frontend only when a worker is ready; a fixed array | array bounds, no request lost or handed out twice, ends when all are answered |
| Full cluster | `FullClusterSimulation/full_cluster.c` | `local_capacity`, `cloud_capacity`, worker list | route to worker or cloud, publish capacity | capacity of other brokers is stale, sleeping without capacity | requests keep one place, replies find their client |
| Cluster prototypes | `local_cluster_pool/`, `DistributedComputing/` | parts of the full cluster | state flow, local and cloud flow | as above | as above |
| NOM server | `MyModels/nom_server.c` (copy in `models/`) | client table, state, `heartbeat_at`, `expires` | the client state machine, ticks | internal events, timers of many clients | one reply per event, silence is noticed |
| UDP discovery | `udpDiscovery/interface.c` | peer table, `expires_at` | beacon, reap, ping | leave and join races | JOINED and LEFT alternate |
| Router to REQ | `Router_broker_Req_worker/router2request.c` | `workers_fired`, end time | hand out work, fire | termination | every worker is fired once, then main ends |
| Asynchronous client program | `MMI/mdclient2.c` | two counters | 100000 sends, then as many receives | pipes of limited room on both ways | it ends, and its count of replies is honest |
| Message classes | `models/mdp_worker.c`, `models/mdp_client.c`, `majordomo/zmsg.hpp` | the fields of a message | set, send, receive | optional frames, fields that look like others | what is sent is what is read |
| File transfer | `file/fileIO.c` | offset and count | fetch a chunk | a signed 32-bit offset made from text | the file comes over whole |
| Patterns | `ROUTER_DEALER/`, `client-broker-server/`, `hello_server/`, `ventilator_worker_sink/`, `Espresso/`, `z_pool/`, `weather_station/`, `extended-pub-sub/`, `multisocket_reader/`, `extended-multisocket-poller/` | envelopes, counts, subscriptions | one loop each | fairness between sockets, late joiners | replies find their client, batches end, no stream starves another |

How they interact: clients and workers talk to a Majordomo broker over its one
ROUTER socket, and are known to it by the identity of their connection only.
Titanic is three workers and a client of a Majordomo broker, joined by a pipe
and by files. A Clone server runs inside the Binary Star reactor, which calls
its handlers when the state changes; Clone clients publish to both servers and
follow one. The brokers of a full cluster publish their capacity to each other
and route requests over ROUTER sockets. The rest are single processes, or
small groups that are started together.

`PROJECT.json` lists every component with its files, and the hazards of the
code, each at its line, with the properties that cover it.

## 2. What is modelled

### ZeroMQ

libzmq is not part of the repository. `MDNet` and the variables of the other
modules state what the code relies on: messages of one connection keep their
order and are not duplicated, a multi-part message arrives whole, a ROUTER drops
without an error what it cannot route, a PUB drops what has no subscriber, a
socket that is destroyed loses what was sent to it and some of what it had not
yet transmitted, and every new socket of a peer is a new identity. The last holds
where a program leaves its identity to libzmq, as those of Majordomo in C do. The
C++ ones set their own, and `MajordomoCpp` has the identities that they draw.

### Majordomo

| Module | Models | Correspondence |
|---|---|---|
| `MDNet` | the broker's ROUTER socket and its peers' sockets | an identity is `<<peer, session>>`; `toBroker`, `toPeer` are the channels; message records keep command, service, return address and a tag for the body |
| `MDBroker` | `mdbroker.c` | `known` is `broker->workers`, `waiting` `broker->waiting`, `swaiting[s]`, `requests[s]`, `nworkers[s]` the fields of `service_t`; `service[i]` is `worker->service`; `brokerPc` and `current` are the place in the main loop |
| `MDWorker` | `mdwrkapi.c`, `mdworker.c` | one action per way through the loop of `mdwrk_recv`: request, heartbeat or disconnect received, poll timed out, broker given up, reconnect; `held` is the request in the application with its `reply_to` |
| `MDClient` | `mdcliapi.c` | one action per way through `mdcli_send`: call, reply, retry, abandon; `outstanding` is the lock-step of the REQ socket |
| `Majordomo` | the whole | interleaves the three with faults |
| `MDHeartbeat` | the clocks of broker and workers | refines each step of `Majordomo` with timers that count down |

A turn of the broker's loop is several steps. The handler runs as one
(`BrokerMessageIn`), then `brokerPc` leads through the purge, one worker at a
time, the dispatch loop, one request at a time, and back to the poll: the
tail of a handler always follows its head. Peers step only while the broker
polls; in between the broker only appends to channels, and a peer's step
commutes with that. Services are created on demand with empty lists, so every
name has its entry from the start. In `Majordomo` time is choice: a poll may
time out, a heartbeat may be due, a worker may count as expired whenever the
code could find it so. `MDHeartbeat` replaces these choices by clocks; where
the code compares a millisecond clock at the boundary, some with `>` and some
with `>=`, both outcomes are kept.

### Load balancer

`LoadBalancer` models `lb_broker.c`: `client_task` and `worker_task` as threads
with one action per send or receive, and `main` with one action for the poll and
one per branch of the two handlers. The poll chooses which of the readable
sockets it reports and remembers the frontend in `revents`, because the code
uses that result after the backend's handler has run. `worker_queue` is the
array together with `available_workers`. `Exit` is the end of `main`, after which no
thread runs. `load_balancer_2/load_balancer.c` is the same program.
The random identities that `s_set_id` makes are taken to be distinct.

### Binary Star

`BStar` is the table of `s_execute_fsm`: `NextState` and `Refused` are its state
change and its return value for every state and event. `BinaryStar` is the pair
of reactors: `Start` (`bstar_new`, `bstar_start`), `SendState`, `RecvState` and
`Request` are the handlers, `Crash` ends a process, `Tick` passes time. A reactor
whose handler returns -1 ends (`fatal`). Published states travel with an age, so
that a stale state can arrive after its sender has changed or died. After a
start of either server the two subscriptions are made anew, which takes up to
`MaxConnect` ticks and loses what is published meanwhile.

### Clone

| Module | Models | Correspondence |
|---|---|---|
| `KVMsg` | what servers and agents need of `kvmsg.c` | a message is its key, sequence, uuid, whether it has a body, and its ttl as zero, relative, absolute or lost (`kvmsg_dup` counts properties where the encoder counts bytes, so a copy loses them) |
| `CloneNet` | the sockets | a DEALER, a SUB and a PUB connect each in its own time: `subs` are the subscriptions that have come to a server, `pubs` the agents whose PUB has a server's; `ask` and `snap` are the two ways of a snapshot, `out` what a server has published, `updates` what an agent has. What is published before a subscription has come is lost; a DEALER keeps its requests |
| `CloneServer` | `cloneserver6.c` on the table of `BStar` | `kvmap`, `sequence`, `pending` as in the code; one action for every handler and timer: `Collector`, `Snapshot`, `Flush`, `Hugz`, `RecvState` with `NewActive` and the passive side of it, `Voter`, `Subscriber`. The snapshot of a passive server, which blocks inside the reactor, is `AskPeer`, `SnapshotLoaded`, with nothing else enabled in between |
| `CloneAgent` | the agent thread of `clone.c` | one action per message and state: SET, snapshot parts and end, update, HUGZ, silence, fail-over; `Subscribe` is the arrival of a subscription, and `Set` chooses which further servers its PUB has reached by then |
| `Clone` | servers and agents | the composition; `log` is the sequence of updates that the active servers have numbered |
| `ReplicatedMap` | what the pattern promises | one log; a server's table is what a prefix of it makes; only a server with the whole log, or one that takes over, adds to it |
| `CloneApp` | both sides of the pipe in `clone.c` | SUBTREE, CONNECT, SET, GET in a queue between application and agent, the pool of two servers; here a server is silent or sends anything; `pushed` is what was sent to it, not what it got |
| `KVMessage` | the class of `kvmsg.c` with its frames | numbers as digits, set and read of every field, the five frames, their order after frames that are no message; the properties of a copy are written past their frame (`kvmsg.c:47-55`), which is a choice of outcomes (`PropsFrames`, `Overrun`) |

`Clone!Implements` maps the servers to `ReplicatedMap`: `table` is `kvmap` by
uuid, `upto` is `sequence`. Two things break the promise in the code, and a
server that meets them is `tainted` and has no table in the abstract system from
then on: a flush on a passive server (it holds relative ttls, which are always
past), and a message of a process that is gone which arrives with the snapshot
of the next. A third thing is a peer that dies while a server waits for its snapshot,
which leaves that server waiting for good, and so without a table.
In the run `clone` a behaviour ends where a server is tainted (`CONSTRAINT Claimed`), and
also where an agent gives its server up while the script is a value that expires. There
the subscription of a server comes late with that script only, and when no other is
late; the proofs have no such bounds.

An agent that gets its snapshot before its subscription has come to the server
(`clone.c:144-149` connects the two sockets one after the other, and neither waits for the
other) never hears of what the server publishes in between, and takes what comes
later, as that has greater numbers. The model does this, and `AgentAgrees` is not
claimed of such an agent: it is not in `synced`.
Time is abstract: `peer_expiry` may have passed whenever the peer does not run as the active
or passive server, and at no other time, which is what `BinaryStar` shows with clocks; and an agent's
SERVER_TTL passes when the server can send it nothing.

### Titanic

`Titanic` models `titanic.c` with the four threads, `ticlient.c`, and what it
needs of the worker and client APIs. `req` and `rep` are the files of a uuid,
each missing, half written or whole; `queue` is the queue file, `pipe` the
messages between the threads. Each thread has one action between two points
where another thread, or a crash, can see a difference: `RequestSave`,
`RequestPipe`, `RequestAnswer` are `titanic_request`; `Poll`, `Look`, `NoAnswer`,
`AnswerCame`, `OpenReply`, `SaveReply`, `Mark` the dispatcher. `Crash` loses the
pipe and all that the threads hold, and leaves the files. A client retries and
gives up, so that Titanic sees a call twice and after a later one.

### Full cluster and its stages

`FullCluster` models `full_cluster.c`: for each broker the five sockets
(`localfe`, `localbe`, `cloudfe`, `cloudbe`, `statefe`), the list of workers, the
two capacities, one step per turn of the primary loop and of the loop over
clients (`Read`, `Taken`, `Polled`). A message has the route it came by, to which
every ROUTER adds and from which it takes. A broker in `Late` is connected by
its peers some time after the start, and what is sent to it before is lost.

`StateFlow` models `state-flow-prototype.c`: the name of a broker is sent to its
SUB socket, so that its peers read the numbers it publishes two by two. `Parted`
models the programs of `DistributedComputing/Parted`: `memcpy` stands for
`memcmp`, so that no reply reaches a client. `local_cluster_pool/` and the other
prototypes are in section 5.

### Other programs

`Programs` puts the programs that stand alone side by side: `program` says which
one a behaviour runs, and the others stay in their initial state.

| Module | Code | State and actions |
|---|---|---|
| `NomServer` | `nom_server.c` (`models/`, and a copy in `MyModels/`) | `session` is the state of every client, `due` its `heartbeat_at`; `Execute` is `client_execute`, with the event that a state's action raises; `EnterPoll` computes the tickless timer, `Wake` is the turn after it; `Bind` and `Destroy` are the caller |
| `NomServer`, second part | `nom_server_test` | the script of the test as its own process against an agent that is in time |
| `Discovery` | `interface.c`, `udplib.c` | `peers` is the table with `expires_at`; a turn reads a beacon, sends its own, reaps |
| `RouterToReq` | `router2request.c` | `workers_fired`, the time limit, the workers' loop |
| `MajordomoCpp` | `mdbroker.cpp`, `mdwrkapi.hpp`, `mdcliapi2.hpp`, `s_set_id` of `zhelpers.hpp`, and their programs | the broker is a record with the map of workers, the idle set and the list of the service; one action per command, the timer, the worker API and the client; workers draw identities and come back under those they had |
| `AsyncClient` | `mdcliapi2.c`, `mdclient2.c` | the two loops of the program, pipes of `PipeRoom` messages |
| `MDPCodec` | `mdp_worker.c`, `mdp_client.c` | setters, send, receive, the exchanges of the self-tests, and frames of another peer; of the id's frame the receiver looks at the first byte only, so that a text which begins with it is taken for it (`Begins`) |
| `ZMsg` | `zmsg.hpp` | parts as strings of which an identity has a special form; wrap, unwrap, send, receive |
| `FileTransfer` | `fileIO.c` | offset as text, `atoi` into an `int` of `2 * Half` values, chunks |
| `RequestReply` | `hello_server`, `ROUTER_DEALER`, `client-broker-server` | envelopes; the broker's own loop and `zmq_proxy` |
| `PushPull` | `ventilator_worker_sink` | tasks in pipes and at workers, the sink's count |
| `Feeds` | weather programs, pollers | sockets with subscriptions and a high-water mark, one reader at a time |
| `Feeds`, second part | `espresso.c` | subscriptions that travel through the proxy, the listener |

Data is abstracted to what the properties tell apart; the places where that
matters: in `MajordomoCpp` there is the one service of the programs, echo, and the
answer of `mmi.service` is 200 or 404 whatever it counts, because `m_workers` is
never initialised; broker heartbeats are left out, since the worker's patience
is a choice. An identity there is the number of the draw that made it, since nobody seeds
`random()` and so the first, the second and so on are the same in every process: a
worker that is started again registers under the identity of the one before, the
client has that of the first worker, and two workers cannot be connected under one
(`Connect`, `CppOpen`). Of the ROUTER this assumes that it refuses a connection under an identity
that it has, and keeps the identity of a closed connection until it has seen the end
of it, behind the messages that came before (`LetGo`). A message may then come to a process
it was not meant for, which ends that process by an assertion. In `ZMsg` identities are text set by `s_set_id` or the 17 bytes of
libzmq 2. In `KVMessage` a sequence number is `Digits` digits of `Base` values for
eight bytes. In `Feeds` a message is its topic and its number.

## 3. What the checks and the proofs show

### Runs

| Run | Shows | Bounds and why they are enough |
|---|---|---|
| `md_safe` | `ListsAgree`, `WorkerCount`, `WorkConserving`, `OnePermission`, `NoDuplicate`, `TypeOK` | Two workers of one service, so that a list has an order and a worker can hide behind another; a client that sends twice, so that a request can be queued while another is worked on; two sockets per peer, so that every peer can reconnect; one fault out of crash, departure, expiry, restart of the broker, broker given up by a worker |
| `md_calls` | `ReplyMatches`; `QueueDrains` under fairness | Two calls with one retry each, so that a reply of an earlier attempt and of an earlier call can be late; management requests in between; no faults, because a worker that dies with a request loses it |
| `md_assert` | the assertion at `mdcliapi.c:142` fails | an application that goes on using its session after `mdcli_send` returned NULL |
| `md_reserved` | a worker registers under a reserved name | one worker, one reserved name |
| `hb_alive` | `NoFalseAlarm`, `NoFalsePurge` | Intervals of three ticks, liveness three on both sides as in the code, messages that take up to a tick, two workers and a client: two sides that look at their timers once per poll, at any offset to each other |
| `hb_recover` | `Recovery` under fairness, `ClockTypeOK` | one restart of the broker or one crash, two workers, four sockets each |
| `hb_purge` | `PurgeComplete` fails: the purge stops before a dead worker | two workers, one crash |
| `lb` | `RoomInQueue`, `QueueSound`, `WorkerAvailable`, `OneHolder`, `EndsAnswered`, `Serves`, `TypeOK` | three clients and two workers: more requests than workers and a full queue; the proofs cover every number |
| `bs` | `NoSplitBrain`, `NoFatal`, `Settles`, `TypeOK` | a heartbeat of three ticks, one tick of delay and one to connect, three crashes: enough for a fail-over, a fail-back and a crash during either |
| `clone` | the refinement `Implements`; `NothingLost`, `AgentAgrees`, `TypeOK` | one crash, one fail-over of the agent, one key, and as scripts two permanent values, so that one replaces the other, or one that expires; sockets that connect in any order, with the exception above; 409,913 states |
| `clone_pending` | `FreshTakeover` fails: a takeover puts an old value over a newer one | two values of one key, one crash |
| `programs` | the properties of the stand-alone programs, below | below |

Every number that is not in the code is a bound and is marked `BOUND` where it
is declared. `MaxSession` ends the retries of a client and the reconnects of a
worker, `MaxInFlight` keeps heartbeats from filling a channel, `MaxFaults` and
`MaxCrashes` are budgets.

`NoSplitBrain` is claimed, and proved, where `Timely` holds: two delays are
shorter than a heartbeat, and a delay and a connection together not longer than
one. That a heartbeat arrives before two of them are missed is not enough. With a
heartbeat of four ticks and a delay of two TLC finds two active servers: an
active primary crashes and is started again while its last state is on its way.
The backup publishes that it is a backup, reads that late state and turns
passive; the new primary publishes that it is a primary, reads that its peer is a
backup and turns active; then the passive backup reads that its peer is a primary,
which to it means a restart, and turns active too. `Timely` is exact in the cases tried:
with (heartbeat, delay, connection) of (2, 1, 0), (3, 2, 0), (4, 2, 0), (3, 1, 3) and
(2, 0, 3) the property fails, with (1, 0, 1), (2, 0, 2), (3, 0, 3), (3, 1, 2),
(4, 1, 3) and (5, 2, 3) it holds.

`ListsAgree` compares the lists of Majordomo by what they hold and by who stands
before whom, so that the order is part of it. `NoDuplicate` is said of a client's
socket: of all its calls, not only of equal ones, one exchange is under way.

`lb` and `programs` may end without deadlock being an error: the programs end.
In `clone` it is the bounds that end a behaviour, and a passive server that
waits for the snapshot of a peer that has died.

### The properties of `programs`

| Property | Program | What it says | Bounds |
|---|---|---|---|
| `Kept` | Titanic | a uuid that was acknowledged has its request on disk, and a reply or a place in the queue, until it is closed; not so a request that a crash catches in the pipe | one client, a call and a retry, two crashes; 10,120 states. Alone with three attempts and two crashes, 92,732 states; with two clients, two attempts and a crash, 9,337,108 |
| `Processed` | Titanic | only what has a whole reply is marked processed | as above |
| `NoFatalError` | Titanic | no client is told of an unknown request, and the assertion on the reply file holds | as above |
| `TasksKept` | full cluster | a request is in one place, wherever it was sent | two brokers, a client and a worker each, one broker late, whose client may give up; 91,961 states. Alone with two clients that may give up, 179,617 states, and one of them sending twice, 585,782 |
| `WorkersListed` | full cluster | the capacity is the length of the list, and a worker is idle, heard of or at work | as above |
| `CppSound` | C++ broker | the three structures that point to a worker agree, also where a process comes back under an identity that the broker knows; no request beside an idle worker; a worker at work is not idle and has no other request; no request twice | one worker of two identities, started again at will, two requests. Alone with two workers of two identities, 694,469 states; with one of three, 2,303,809 |
| `CodecsAgree` | codecs, `zmsg.hpp`, `kvmsg.c` | what is sent is what is read, and of another make only what would be sent as the same frames, up to what is not looked at: frames at the end, and what follows the first byte of an id | two texts, all message types, all socket types |
| `PatternsSound` | file, request-reply, ventilator, readers, Espresso, asynchronous client, NOM test | the promise of each | two to three of everything that is repeated |
| `PartedListed` | Parted | a worker is in one place and never given a second request | two clients, two workers |
| `AppSound` | `clone.c` as an application sees it | a GET gives the last value set, the pool is that of the first two CONNECTs, each of its servers is sent what was set after its own, a silent server is asked twice at most | one key, two servers, three commands; 8,714 states. Alone with two keys and four commands, 110,419 states |
| `NoFalseLeave` | discovery | a peer that is alive never leaves a table | one beacon missed in a row, one tick late, a restart |
| `Served` | all with a loop | what is owed is given | as above |
| `TypeOK` | the six largest | | |

`NoFalseLeave` needs (MaxMissed + 1) (PING_INTERVAL + MaxLate) + MaxLate <
PEER_EXPIRY. The code has an interval of one second and an expiry of five, so
that it bears three missed beacons and not four.

What the statements exempt, and why: requests that a crash catches in the pipe of
Titanic (`Kept`, `Served`): the client was given a uuid, and nobody will dispatch
it. A Clone agent that a server's update has passed by between its snapshot and its
subscription (`AgentAgrees`). Copies of messages with properties (`CodecsAgree`). What an
agent's PUB has dropped (`AppSound`). Requests that a broker of the cluster sends to a peer that is not connected
(`lost`). Clients of the NOM agent while it is in a poll without a timeout, which
the wrap of an unsigned difference at `nom_server.c:399` leads to. A NOM test
that was itself slower than a heartbeat. An application's GET after a server has
written the key. A part of `zmsg.hpp` that looks like an identity but is not
hexadecimal, and the five-byte identities of later libzmq, which the programs do
not use since they set their own. A state flow in which all brokers wait for
each other's second message. Replies that the asynchronous client leaves unread
until the pipe is full: the ROUTER drops what comes then. So `Served` says nothing of
the worst outcomes of some hazards in `PROJECT.json`: brokers of a state flow that all wait, a
request lost in the pipe, the endless poll of the NOM agent. They are real, and
the hazards' notes say so.

### Four disagreements

- `mdcliapi.c:142` asserts that a reply names the service called. After
  `mdcli_send` has given up on a call the socket still owes its reply; the next
  call takes it for its own, and the assertion fails (`md_assert`).
- `mdbroker.c:147` tests for reserved service names, as its comment says, in
  the identity of the sender, so it never refuses one (`md_reserved`).
- `mdbroker.c:238` says that the purge deletes any idle worker whose time is
  up, because the list is ordered from oldest to most recent. A heartbeat moves
  a worker's expiry but not its place, so a live worker at the head hides a dead
  one (`hb_purge`).
- `cloneserver6.c:307-308` says that the pending list is applied at a takeover to
  bring the map up to date. On the list are also updates that the old active
  server had published, and that wait for the client's own copy; an older value
  is then written over a newer one, with a newer number (`clone_pending`).

Seen while reading, and part of the models as the code has it: a snapshot that is
asked of a peer that dies blocks a passive server for good; two snapshot requests
that a passive server drops leave an agent that never asks it again; a key that
is set anew leaves its copy stale until the message is sent (`kvmsg.c`); the
codecs of `models/` put client and body in two frames where `mdbroker.c` has an
empty one between them; z_pool's subscriptions contain a zero byte and match
nothing; one inner loop of `multisocket_reader` compares where it should assign
and never ends; the C++ broker ends by an exception when `mmi.service` asks for a
service that was never named.

### Fairness

`md_calls`: the broker's thread runs (weak fairness of `BrokerStep`), its ROUTER
socket reads its connections in turn (strong fairness per connection, since the
poll is left and entered again), and workers answer. Clients promise nothing.
`hb_recover`: processes act when their timers or messages make them and time
goes on, one weak fairness of the next-state relation. `lb`: every thread runs.
`bs`: reactors run, time passes, a server that is down is started again and
clients go on sending requests to both servers. Without the last there is no
fail-over: it is the request that triggers it (`bstar.c:137`).
`programs`: every thread and loop of the program that was started runs, polls
end, and workers work (weak fairness, one per loop). Strong fairness once: a
service that Titanic's dispatcher asks again and again answers, for each request.
Nobody has to send, to connect, to crash or to press a key. In the cluster the
bursts of the clients are finite: `full_cluster.c:254` takes from its own clients
first, and a stream of them would starve the cloud.

### Proofs

`MajordomoProofs` proves, for every set of clients, workers and services and
every value of the bounds, `Spec => []TypeOK` and `Spec => []WorkConserving`.
The inductive invariant `IInv` adds to these what handlers rely on without a
test: a known worker has a service (`REPLY` and the deletion follow the
pointer), a dispatch has a target, a worker in its application holds a request,
a client that waits has made a call. `WorkConserving` alone is not inductive: a
deletion shortens the waiting list of the deleted worker's service, and it is
`KnownHaveService` that says which one. The lemmas go component by component:
network, broker handlers, worker, client, faults.

The second part of the module proves `ListsAgree`, `WorkerCount` and `OnePermission`,
by one invariant, `PlacesInv`, since none of them is inductive without the others.
That a READY or a REPLY may append a worker to both lists rests on its not being in
them, and that is known only because its permission to work is one token: in a READY
or REPLY under way, in the waiting list, in a REQUEST under way or in the hands of
its application (`Permit`). A token cannot be made anew because a new session
starts with empty channels (`SocketsInOrder`) and because workers send what workers
send (`Roles`). The count of a service is the size of the set of its workers, where
a registration adds a member and a deletion takes one.

The third part proves `NoDuplicate` and `ReplyMatches` by `RepliesInv`, on top of
`PlacesInv`. An exchange of a client's socket is in one place: the ROUTER's queue,
the service's queue, the worker's channel or application, the way back, or the
client's channel; whatever a step does to it is to take it from one list and put it
at the end of another. A reply in the client's channel then answers the call
that waits, if the client opens a new socket after a call it gave up:
`RepliesMatch` has `~KeepSession` as its hypothesis, and `md_assert` shows why.

`HeartbeatProofs` is about the clocks. `SafeInv`, the conjunction of the three invariants
above, holds of `TimedSpec` as well: a timed step is an untimed one with what the
clocks add, or is none of it, apart from the purge and the step in which a worker gives
its broker up, which the clocks allow in other states than the untimed choice does
(`TimedSafety`, `TimedReplies`). `ClockTypeOK` bounds the clocks themselves.

`NobodyGivenUp` and `NobodyPurged` prove `NoFalseAlarm` and `NoFalsePurge` where `Timely`
holds: nothing fails, twice (interval + delay) is less than what a worker bears, and
two intervals and a delay are less than what the broker bears. The code meets it with
room to spare: both sides bear three intervals of 2500 ms (`mdbroker.c:10-12`,
`mdwrkapi.c:7`, `:96`), so that delays up to a second are covered. Two intervals and not
one, because both sides look at `heartbeat_at` once per poll, and a poll that is begun
just before it is due lasts another interval. `AliveInv` says, for each worker, when the next
message is going to be read: `BrokerDue` and `Delay` bound the time until a heartbeat is sent
and until one under way is taken, and what the receiver has left is never less
than that. `Timely` cannot be relaxed to an equality. With (interval, worker's liveness,
broker's liveness, delay) of (2, 3, 3, 1), (1, 3, 3, 1) and (2, 2, 3, 0) TLC finds a false
alarm, with (1, 4, 3, 1) and (2, 3, 2, 0) a false purge; (1, 5, 4, 1) passes with
1,164,796 states. `AliveInv` itself was checked by TLC on `hb_alive`: 158,161 states.

`LoadBalancerProofs` proves all six invariants of the load balancer for any
number of clients and workers. The invariant says that a worker is in one phase
of its exchange at a time (`WorkerPhases`), that a request found by the last
poll has a worker to go to (`FrontWorkers`), that a request is in one place
(`RequestPlaces`), and that `client_nbr` is the number of unanswered clients
(`Counted`). The bound on the queue follows by the pigeonhole principle: the
queue is injective and the worker that speaks is not in it.

`BrokersProofs` is about Titanic and the full cluster. It proves the types of Titanic, `Processed`, `Kept` and `NoFatalError`
for any number of clients, attempts and crashes. What makes `Processed` and `Kept` inductive is that no two
entries of the queue file are one request (`OnceOK`: a uuid is new when
`titanic_request` takes it, and goes through the pipe once), so that the entry
whose reply is being rewritten is never one that is marked already. Around it
stand what each thread may rely on: a call names only uuids that a client was told
(`CallsOK`), a request file goes only when its client has asked for that
(`ClosedOK`), a uuid that was answered is in the pipe, in the queue or lost by a
crash (`ThreadsOK`, `Located`), and a reply is written before its entry is about
to be marked (`DispatchOK`). The invariant was checked by TLC first, with two
clients of two attempts and a crash: 9,337,108 states.

`NoFatalError` needs more, as a client that times out leaves its calls behind, and
Titanic still answers them. `Callers` adds that the call a client waits for is the
last of its calls in the line of that service (`OneCall`), that a uuid is known to
the client it was given to and to no other (`OwnersOK`), and so that no reply is
asked for once its request is closed (`OpenOK`): when a client closes a request, its
last question for the reply has been answered, and those before it are used up.
Calls are made, given up and answered alike, as `Follows` says, and the three facts
are shown once for it. TLC checked `Callers` with two clients of two
attempts: 899,456 states.

`BinaryStarProofs` proves `TypeOK` for all values of the constants, and
`NoSplitBrain` and `NoFatal` where `Timely` holds. The invariant `PairInv` is a
table of what a server's state says about its peer and about what is on its way
to it. Published states are in order of age (`Sequenced`); those that name a role
were sent by a process that had it (`ToldActive`, `ToldPassive`, `ToldStart`);
and `Fresh` bounds the time until a server that is up is heard again, which is what
keeps `peer_expiry` from passing while an active peer lives. The invariant
was checked with TLC to be inductive, from every state that satisfies it, for
heartbeats of one to three ticks.

`BrokersProofs` also proves `TasksKept`, `WorkersListed` and the types of the full
cluster, for any number of brokers, clients and workers; that no client is ever
`aborted`, which the types say, is the assertion of `client_task` on the reply it
reads. The invariant, `ClusterInv`, adds what a route says about where its request
may be (`Placed`: one with the client's name alone is at the client's broker, one
with a broker's name before it is at another, and only the task its client is at
is under way) and the same promise for clients that have given up, whose replies
still arrive (`Clients`). Without the first a reply might be handed to the wrong
broker, where it is dropped; without the second the step of a request that nobody
waits for says nothing. Whatever a step does to the requests is one of four things,
and each has one lemma: to pass one from the head of one list to the end of
another (`PassInv`), to drop one (`DropKeeps`), to put a new one into a list
(`PutKeeps`), or nothing (`StillInv`). A worker's name goes round likewise, from
its message to the list and from the list to work (`Ranks`). `ClusterAssumption`
has what the argument needs of identities: a broker's name is no client's, and
READY is no request. TLC checked the invariant first: 299,990 states with a
client that sends twice.

`ProgramsProofs` is about programs of `Programs`, each for its own specification. The first
is Parted, with `PartedListed`: that every worker is in one place
says, for the invariant, that nobody is twice in the list or in the broker's socket,
that no worker is in both, and that a worker waits exactly when it is in one of them
or has a request on its way to it (`OnePlace`); and `CapacityOK` that the broker reads
clients only with a worker in its list, so that it never takes the head of an empty one.

The second is the discovery of peers. `NobodyLeftFalsely` proves `NoFalseLeave`, for any number of nodes,
restarts, missed beacons and times, where `Timely` holds: (MaxMissed + 1)
(PING_INTERVAL + MaxLate) + MaxLate < PEER_EXPIRY. With the times of `interface.c`, 1000 ms
and 5000 ms, it says how many beacons in a row may be missed: two if none is half a
second late, three if none is a fifth of a second late. The invariant `Fresh` says of two
nodes that know each other that what is left of the peer's time is more than the time until a beacon of it is
read: one that waits in the socket already, or else the next that is due and may not be
missed any more (`Covered`). That a peer is the node that has its UUID rests on
`NodesTyped`: a UUID is new with every start, so that no table and no beacon has one
which a later start will take (`Given`).

The third is the application of the clone agent, with `AppSound`, for any number of
commands, servers and keys. Its invariant relates what the agent has taken from the pipe to
what the application put into it: the pipe is the end of the list of all commands (`Queued`), a
value that the application waits for is of its last command (`Waited`), the agent's copy has the
last value that was set among the commands that it took (`Copied`), and the pool is that of
the first two connections among them, with what was pushed to each (`Pooled`).

The fourth is the C++ broker with its workers and its client: `CppIsSound` proves `CppSound`
for any number of workers, identities and requests and any expiry. A worker of this
broker is in three structures, the map of all workers, the set of idle ones and the list
of the service, which the code changes one by one: `Coherent` says that the list is the
idle set, each once, and that the idle ones are in the map. That the list holds nobody
twice needs more than the broker. A worker that is idle must not be put into the list by a
second READY or REPLY, and it is the worker that sees to this: `Exchange` says that an
identity has spoken, is idle, was sent a request or is that of a worker at work, and no two of
these. It is said of an identity and not of a process, as a process that comes back is taken for the one
before: while the broker knows that one, it may hand the identity a request, and have its REPLY,
with a READY of the new process still in the queue, which then only has the worker deleted. Of an
identity that it does not know, a READY is all that there is (`AtRest`). The ROUTER's part is `PeersAre`: what a
worker has sent is from an identity that is connected, or closed and not yet let go (`Had`), so no
REPLY of one process can come after another has its identity. That no request is in two places is `Spread`, of the six places that
a request can be in: the broker's socket, the service's queue, a worker's mail or
hands, the client's socket or what it has read. The dispatch loop is a function of the number of
turns; with `NoneWaits`, that no request waited beside an idle worker when the handler
began, it takes one turn at most (`DispatchIs`), and so no induction is needed.

`PatternsProofs` is about the small programs, and then about all of them. Each part of
`PatternsSound` has an invariant and a theorem of its own, for any number of whatever is
repeated in the program:

| Theorem | What makes it inductive |
|---|---|
| `FireTyped` | `Dismissed`: a worker is at the desk once and only while it waits without an answer, and `workers_fired` is the number of those that were told to go |
| `NomAgentTyped` | what `Execute` makes of each state and message (`ExecuteIs`), so that who is ready was told more than WTF |
| `SelfTestIsSound` | `Stage`: between two lines nothing is under way but heartbeats, and these only after an interval of silence (`Rests`); a line's answer comes after no heartbeat unless the test was slow (`Sending`, `Answered`); the last line waits longer than the heartbeat that is due (`Listens`). `InTime` has the agent's side |
| `BatchesComplete` | the tasks in pipes, in hands and in results are as many as were sent and are not confirmed; they are counted as a set of numbered pieces, as a sum over the workers would be a recursion |
| `FileComesWhole` | the client has full chunks from the start of the file and the server stands where they end (`Fetching`, `Coming`), or it has all and the last chunk was not full (`Fetched`); an offset is exact though `atoi` reads one beyond `Half` as a negative number, as the file has fewer bytes than an unsigned number has values |
| `NoReplyTwice` | a request that was sent is in one of six places and in no other (`OnlyThere`): the two pipes, the workers, what the program has read, what found no room and what went with its worker |
| `HeardInOrder` | what a socket's reader has heard and what the socket holds are one list (`Stream`), rising in the source's numbers, and complete but for what came to a full socket (`passed`) |
| `EachItsReply` | the requests at all the stops of the way (`Stations`: frontend, the workers' queues and hands, answers, the clients' sockets) are those that clients wait for, each at one stop in one place (`Spreads`) |
| `AllIsOverheard` | the subscriber asks for four things one after the other, of which the proxy knows the first few and the publisher some of those (`Knows`); what is on its way was drawn after all that passed the proxy (`Newer`), and until the subscriber leaves it has all that was overheard (`Relayed`) |

`OneReply` and `EspressoSound` were given forms without a sum or a filter: `OneReply`
names the stop and the place of the request a client waits for, and `EspressoSound` says of
the listener's list its order, that it has no gap, and that the subscriber's is within it,
which is more than it said as a filter.

A behaviour of `Programs` is then one of each program's own specification (`EachItsOwn`):
the step of one leaves the variables of the others alone, the self-test being
the only program that shares variables with another. So `PatternsAreSound` proves
`PatternsSound`, `ProgramsTyped` proves `TypeOK`, and `ProgramsKeepTheirs` all the other
invariants of the run but `CodecsAgree`, of the very specification the run checks, less
its fairness.

`CloneProofs` is about the servers and agents of Clone, for any number of agents, keys,
values, crashes and fail-overs: `TypeOK`, the refinement `Implements`, `NothingLost` and
`AgentAgrees`.

The refinement rests on `ServerInv`, which is stated of `log`, all that the active servers
have numbered. A table that counts is what the first `sequence` entries of the log make
(`CopyOf`); the active server has all of the log; what is queued from the active server to
the other is a piece of the log that begins within the reader's part of it and goes
on to its end (`StreamOf`); a snapshot under way is a prefix of the log, beyond which the queue goes
on (`SnapFrom`). Around it stand which states, connections and requests go together
(`RolesOf`, `AskOf`). With this each handler is a step of `ReplicatedMap` or none: a message of the peer is `Advance`,
a snapshot is one `Advance` over many entries, the active server's writes and expiries and
the list that is applied at a fail-over are `TakeOver` or additions by the one that has
the whole log, and whatever costs a server its table is `Forget`. A server that
takes over need not have read all that its peer published: `TakeOver` cuts the log off
where the new active server goes on.

`NothingLost` is about uuids: each that was sent to a server which runs is in its
part of the log, on its list of what is pending, or still in the socket from its
agent (`Kept`). The step to look at is `Pended`: an update comes to a passive server twice, from
the client and from the active server, in either order; the first copy is put on the list,
and the second takes it off. What may not happen is that an update is taken off the list
when neither copy was applied. So a uuid is in the sockets of clients once
(`OneOf`), and what is both in a socket and on the list came from the active server
first, and is in the part of the log that the server has. TLC checked the conjunction of these
invariants on `clone` first, when agents' sockets still connected in one step.

`AgentAgrees` rests on `Agents`. While a server is active, has a table that counts and
is connected to an agent whose socket holds nothing of an earlier process (`Live`), what
it has published and the agent has not read is the log from some position on, and the
agent's number is not behind that position (`LiveStream`, `ReaderOK`); before the agent is
active, no snapshot on its way ends behind it (`SnapsOK`). So the update an agent reads
is the next one of the log, or one that its table has. What the agent's table says of a key is
the log's value up to the agent's number, or an update of its own application that the
log has not got up to there (`Good`, `Own`). For the latter one must know that the uuid
stands for no other key (`KeyOf`), or the update might come back and leave the agent with
neither value: the invariant follows each uuid through sockets, lists and the log (`Seen`). A
snapshot either brings the key's value or leaves alone what was there, which must
then be good (`Brings`, `Leaves`): that is why what an agent keeps of an
earlier server does no harm. A server that dies ends
`Live`, and with it what is said of its queues; its agents are synced no more.
`Live` says nothing of subscriptions: where none has come, the queue is empty and stands at the
end of the log (`LiveStream`). What a server publishes then (`Misses`) costs the agent its place in
`synced`, or, with a snapshot still on its way, the pair its queues (`leftover`), from which
no agent is synced.

`Stored`, the effect of a list of messages on a table, is written as a closed form (the
last message of a key decides) because recursion is out of the prover's reach; that
it is what storing them one by one gives is an `ASSUME` of `MCClone`, which TLC
evaluates over all lists of its values up to a length.

The assumptions are the named `ASSUME`s of the modules, which TLC evaluates in
every run. Only model-checked are:

- every liveness property, which is out of the prover's reach;
- `CodecsAgree`: that the digits of a number give the number again, and that the size of
  a frame is that of its properties, are statements about folds over lists of any
  length, which need an induction that the provers cannot be given.

## 4. Plan

Done: the Majordomo broker with its worker and client and its clocks, the load
balancer, the Binary Star reactor, the Clone pattern with its abstract
specification, Titanic, the full cluster, the programs that stand alone; proofs
of every safety property that the passing runs check but `CodecsAgree`.

Left: `CodecsAgree`, once a prover takes induction over lists, and liveness.

## 5. What is not modelled

- The bytes of messages beyond the message classes above, and invalid messages. Most
  are dropped without a change of state. Not so in the Majordomo broker: a worker command
  that it does not know is of a worker that `s_worker_require` has just made
  (`mdbroker.c:141`, `:184-187`), which stays on without a service, and a REPLY of it
  would then follow the null pointer. The worker API sends no such command.
- Interrupts and orderly shutdown, which end a process, except where a program
  is about its end.
- Memory: allocation failure and ownership. Where the code holds a raw pointer
  in two lists, the lists are modelled and their agreement is an invariant.
- `DistributedComputing2/local-and-cloud-flow.c`: nothing is ever exchanged. Its workers receive first on
  a REQ socket, which is an error and ends them; its clients connect the context
  where a socket belongs; its broker polls `localfe` and reads `localbe`.
- `local_cluster_pool/peering1.c` and `extended-multisocket-poller/poller-2/delhi-update.c`
  do not compile; `peering1.c` would moreover never end its multipart message.
  `local_cluster_pool/local_and_cloud_flow.c` is an empty file.
- `SYNC_PUB_SUB`: the publisher that the subscriber waits for is not in the
  repository.
- `udpping1` to `udpping3`, earlier stages of `interface.c` and users of its
  library, without a peer table.
- Raw sockets, strings and versions: single library calls without state that
  outlives a message.
- Vendored bindings (`zmq.hpp`, `zhelpers`), of which only `s_set_id` is modelled (in
  `MajordomoCpp`), and the copies of `mdbroker.c`,
  `mdcliapi.c` and `mdwrkapi.c` in `majordomo2/` and `TitanicPattern/`, which are
  the code that `MMI/` has.
- Subtrees of the Clone servers (the agents of `Clone` ask for all), the dump of
  a `kvmsg` and its self-test.
