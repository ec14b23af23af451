----------------------------- MODULE StateFlow -----------------------------
(***************************************************************************)
(* The state flow prototype, DistributedComputing1/state-flow-prototype.c: *)
(* brokers tell each other how many workers they have free.  A broker      *)
(* means to publish its name and a number, but sends the name to the       *)
(* socket it subscribes with, which refuses it: what a peer receives is a  *)
(* number, and it takes the numbers two by two, the first for a name, with *)
(* a second receive that has no timeout and lets it publish nothing.       *)
(***************************************************************************)
EXTENDS Integers, Sequences, FiniteSets

CONSTANTS Flow,         \* the brokers, each connected to all the others
          MaxStates     \* BOUND: numbers that wait at a broker

ASSUME FlowAssumption == IsFiniteSet(Flow) /\ MaxStates \in Nat \ {0}

VARIABLES states,       \* broker -> the peers whose numbers wait in its socket
          flowPc,       \* broker -> "polls" or "reads", in its second receive
          half          \* broker -> the peer whose number it took for a name, or itself

flowVars == <<states, flowPc, half>>

FlowInit ==
    /\ states = [b \in Flow |-> <<>>]
    /\ flowPc = [b \in Flow |-> "polls"]
    /\ half = [b \in Flow |-> b]

\* The poll finds something: the first receive.
NameTaken(b) ==
    /\ flowPc[b] = "polls" /\ states[b] # <<>>
    /\ half' = [half EXCEPT ![b] = Head(states[b])]
    /\ states' = [states EXCEPT ![b] = Tail(@)]
    /\ flowPc' = [flowPc EXCEPT ![b] = "reads"]

\* The second receive, and the line that is printed.
NumberTaken(b) ==
    /\ flowPc[b] = "reads" /\ states[b] # <<>>
    /\ half' = [half EXCEPT ![b] = b]
    /\ states' = [states EXCEPT ![b] = Tail(@)]
    /\ flowPc' = [flowPc EXCEPT ![b] = "polls"]

\* A second without a message: the broker publishes, and a full socket takes no more.
PublishState(b) ==
    /\ flowPc[b] = "polls" /\ states[b] = <<>>
    /\ states' = [p \in Flow |-> IF p # b /\ Len(states[p]) < MaxStates
                                 THEN Append(states[p], b) ELSE states[p]]
    /\ UNCHANGED <<flowPc, half>>

FlowStep(b) == NameTaken(b) \/ NumberTaken(b) \/ PublishState(b)

FlowNext == \E b \in Flow : FlowStep(b)

----------------------------------------------------------------------------
(* Properties. *)

\* A broker waits in its second receive, and nothing has come.
Starved(b) == flowPc[b] = "reads" /\ states[b] = <<>>

\* A broker that waits is owed a number, unless every other waits too: then each
\* waits for a number that only another could publish, for ever.
Stuck == \A b \in Flow : Starved(b)
Unfed == IF Stuck THEN {} ELSE {b \in Flow : Starved(b)}

=============================================================================
