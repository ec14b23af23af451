------------------------------ MODULE CloneApp ------------------------------
(***************************************************************************)
(* The two sides of clones/clone.c: the functions that an application      *)
(* calls put commands in a pipe, and the agent thread takes them between   *)
(* its other work.  The modules Clone and CloneAgent have what the agent   *)
(* and the servers do with updates; here a server is silent or sends       *)
(* anything, and the matter is what the application may rely on.           *)
(***************************************************************************)
EXTENDS Integers, Sequences, FiniteSets, SequencesExt

CONSTANTS AppKey,
          Endpoint,     \* servers the application may connect to
          MaxCommands   \* bound: commands of the application

ASSUME AppAssumption == MaxCommands \in Nat

NoValue == 0            \* the empty string; a value is the number of its command
SERVER_MAX == 2

VARIABLES commands,     \* ghost: every command of the application, in order
          control,      \* those the agent has not taken
          getting,      \* whether the application waits for a value
          values,       \* the values that came back through the pipe
          subtree,
          pool,         \* the agent's servers
          agentState,   \* "INITIAL", "SYNCING", "ACTIVE"
          cur_server,
          copy,         \* the agent's table
          foreign,      \* ghost: keys that a server has written since the application did
          pushed,       \* ghost: per server of the pool, the values sent to it
          unheard       \* ghost: per server of the pool, requests since it was heard

appVars == <<commands, control, getting, values, subtree, pool, agentState, cur_server, copy, foreign,
             pushed, unheard>>

AppInit ==
    /\ commands = <<>> /\ control = <<>> /\ values = <<>> /\ pool = <<>>
    /\ getting = FALSE
    /\ subtree = ""
    /\ agentState = "INITIAL"
    /\ cur_server = 1
    /\ copy = [k \in AppKey |-> NoValue]
    /\ foreign = {}
    /\ pushed = <<>> /\ unheard = <<>>

----------------------------------------------------------------------------
(* The application. *)

AppCommand == [command : {"SUBTREE"}, arg : {"/client/"}] \cup [command : {"CONNECT"}, arg : Endpoint]
           \cup [command : {"SET", "GET"}, arg : AppKey]

\* clone_subtree, clone_connect, clone_set, and clone_get, which waits.
AppCall ==
    /\ ~getting /\ Len(commands) < MaxCommands
    /\ \E c \in AppCommand :
         /\ commands' = Append(commands, c)
         /\ control' = Append(control, [command |-> c.command, arg |-> c.arg, value |-> Len(commands) + 1])
         /\ getting' = (c.command = "GET")
    /\ UNCHANGED <<values, subtree, pool, agentState, cur_server, copy, foreign, pushed, unheard>>

AppGot ==
    /\ getting /\ values # <<>>
    /\ getting' = FALSE
    /\ values' = Tail(values)
    /\ UNCHANGED <<commands, control, subtree, pool, agentState, cur_server, copy, foreign, pushed, unheard>>

----------------------------------------------------------------------------
(* The agent: agent_control_message. *)

\* The agent is in its poll: it has asked its server, if it has one.
InPoll == agentState # "INITIAL" \/ pool = <<>>

TakeSubtree ==
    /\ InPoll /\ control # <<>> /\ Head(control).command = "SUBTREE"
    /\ subtree' = Head(control).arg
    /\ control' = Tail(control)
    /\ UNCHANGED <<commands, getting, values, pool, agentState, cur_server, copy, foreign, pushed, unheard>>

\* server_new subscribes to the subtree of that moment.
TakeConnect ==
    /\ InPoll /\ control # <<>> /\ Head(control).command = "CONNECT"
    /\ IF Len(pool) < SERVER_MAX
       THEN /\ pool' = Append(pool, [address |-> Head(control).arg, filter |-> subtree, requests |-> 0])
            /\ pushed' = Append(pushed, <<>>)
            /\ unheard' = Append(unheard, 0)
       ELSE UNCHANGED <<pool, pushed, unheard>>
    /\ control' = Tail(control)
    /\ UNCHANGED <<commands, getting, values, subtree, agentState, cur_server, copy, foreign>>

TakeSet ==
    /\ InPoll /\ control # <<>> /\ Head(control).command = "SET"
    /\ copy' = [copy EXCEPT ![Head(control).arg] = Head(control).value]
    /\ foreign' = foreign \ {Head(control).arg}
    /\ pushed' = [i \in DOMAIN pool |-> Append(pushed[i], Head(control).value)]
    /\ control' = Tail(control)
    /\ UNCHANGED <<commands, getting, values, subtree, pool, agentState, cur_server, unheard>>

TakeGet ==
    /\ InPoll /\ control # <<>> /\ Head(control).command = "GET"
    /\ values' = Append(values, copy[Head(control).arg])
    /\ control' = Tail(control)
    /\ UNCHANGED <<commands, getting, subtree, pool, agentState, cur_server, copy, foreign, pushed, unheard>>

----------------------------------------------------------------------------
(* The agent: clone_agent. *)

\* Plausible bug: requests are not counted.
AskSnapshotAgain ==
    /\ agentState = "INITIAL" /\ pool # <<>>
    /\ unheard' = [unheard EXCEPT ![cur_server] = @ + 1]
    /\ agentState' = "SYNCING"
    /\ UNCHANGED <<commands, control, getting, values, subtree, pool, cur_server, copy, foreign, pushed>>

\* STATE_INITIAL: two requests at most to a server that does not answer.
AskSnapshot ==
    /\ agentState = "INITIAL" /\ pool # <<>>
    /\ IF pool[cur_server].requests < 2
       THEN /\ pool' = [pool EXCEPT ![cur_server].requests = @ + 1]
            /\ unheard' = [unheard EXCEPT ![cur_server] = @ + 1]
       ELSE UNCHANGED <<pool, unheard>>
    /\ agentState' = "SYNCING"
    /\ UNCHANGED <<commands, control, getting, values, subtree, cur_server, copy, foreign, pushed>>

\* A message of the server, if there is no command: a value of a snapshot or its end in
\* STATE_SYNCING, an update in STATE_ACTIVE.  Whatever it wrote or deleted, the value is
\* not one of the application's commands.
Overwrite(k) == copy' = [copy EXCEPT ![k] = -1] /\ foreign' = foreign \cup {k}

FromServer ==
    /\ control = <<>> /\ pool # <<>>
    /\ \/ /\ agentState = "SYNCING"
          /\ pool' = [pool EXCEPT ![cur_server].requests = 0]
          /\ unheard' = [unheard EXCEPT ![cur_server] = 0]
          /\ \/ agentState' = "ACTIVE" /\ UNCHANGED <<copy, foreign>>
             \/ UNCHANGED agentState /\ \E k \in AppKey : Overwrite(k)
       \/ /\ agentState = "ACTIVE"
          /\ \/ UNCHANGED <<copy, foreign>> \* HUGZ, or an old update
             \/ \E k \in AppKey : Overwrite(k)
          /\ UNCHANGED <<pool, agentState, unheard>>
    /\ UNCHANGED <<commands, control, getting, values, subtree, cur_server, pushed>>

\* Nothing came within SERVER_TTL: the next server, which is the same if it is alone.
NextServer ==
    /\ control = <<>> /\ pool # <<>> /\ agentState # "INITIAL"
    /\ cur_server' = (cur_server % Len(pool)) + 1
    /\ agentState' = "INITIAL"
    /\ UNCHANGED <<commands, control, getting, values, subtree, pool, copy, foreign, pushed, unheard>>

AppNext ==
    \/ AppCall \/ AppGot
    \/ TakeSubtree \/ TakeConnect \/ TakeSet \/ TakeGet
    \/ AskSnapshot \/ FromServer \/ NextServer

----------------------------------------------------------------------------
(* Properties. *)

\* The commands the agent has taken, and those of one kind among the first n.
TakenCommands == SubSeq(commands, 1, Len(commands) - Len(control))
At(kind) == {i \in DOMAIN TakenCommands : TakenCommands[i].command = kind}

\* A value the application waits for is the last it set itself, unless a server has
\* written the key since; the servers of the pool are the first two it connected to, each
\* with the subtree that was set before; a value is sent to every server of the pool, in
\* order, after its CONNECT, where the PUB drops what comes before the server's
\* subscription; and a server that stays silent is asked at most twice, also when it is
\* the only one (clone.c:83-120, 225-288, 311-322, 354-400).
AppSound ==
    /\ values # <<>> =>
         LET k == Last(commands).arg
             mine == {i \in At("SET") : commands[i].arg = k}
         IN  k \notin foreign => Head(values) = IF mine = {} THEN NoValue
                                                ELSE CHOOSE i \in mine : \A j \in mine : j <= i
    /\ Len(pool) = IF Cardinality(At("CONNECT")) < 2 THEN Cardinality(At("CONNECT")) ELSE 2
    /\ \A n \in DOMAIN pool :
         \E i \in At("CONNECT") :
            /\ Cardinality({j \in At("CONNECT") : j <= i}) = n
            /\ pool[n].address = commands[i].arg
            /\ pool[n].filter = IF \E j \in At("SUBTREE") : j < i THEN "/client/" ELSE ""
            /\ ToSet(pushed[n]) = {j \in At("SET") : j > i}
            /\ \A j, k \in DOMAIN pushed[n] : j < k => pushed[n][j] < pushed[n][k]
    /\ \A n \in DOMAIN unheard : unheard[n] <= 2

=============================================================================
