---------------------------- MODULE RouterToReq ----------------------------
(***************************************************************************)
(* Router_broker_Req_worker/router2request.c: workers ask for work on REQ  *)
(* sockets, and after five seconds the broker fires each that asks.  The   *)
(* identities that s_set_id draws are taken to be different: of two that   *)
(* are equal the ROUTER accepts one, and the other worker is never fired.  *)
(***************************************************************************)
EXTENDS Integers, Sequences, FiniteSets, SequencesExt

CONSTANTS Hand              \* the workers, NBR_WORKERS of them

ASSUME HandAssumption == IsFiniteSet(Hand)

VARIABLES desk,             \* the broker's socket: the workers that have said HI BOSS
          hand,             \* worker -> "asks", "waits", "works" or "finished"
          order,            \* worker -> the answer on its way: "none", "Work Harder", "Fired!"
          late,             \* the time is past end_time
          workers_fired,
          home              \* the broker has left its loop

fireVars == <<desk, hand, order, late, workers_fired, home>>

FireInit ==
    /\ desk = <<>>
    /\ hand = [w \in Hand |-> "asks"]
    /\ order = [w \in Hand |-> "none"]
    /\ late = FALSE
    /\ workers_fired = 0
    /\ home = FALSE

\* A worker says HI BOSS, reads the answer, and works or leaves.
Ask(w) ==
    /\ hand[w] = "asks"
    /\ hand' = [hand EXCEPT ![w] = "waits"]
    /\ desk' = Append(desk, w)
    /\ UNCHANGED <<order, late, workers_fired, home>>

Obey(w) ==
    /\ hand[w] = "waits" /\ order[w] # "none"
    /\ hand' = [hand EXCEPT ![w] = IF order[w] = "Fired!" THEN "finished" ELSE "works"]
    /\ order' = [order EXCEPT ![w] = "none"]
    /\ UNCHANGED <<desk, late, workers_fired, home>>

Work(w) ==
    /\ hand[w] = "works"
    /\ hand' = [hand EXCEPT ![w] = "asks"]
    /\ UNCHANGED <<desk, order, late, workers_fired, home>>

\* All have been fired: it is the last answer.
LastOne == workers_fired + 1 = Cardinality(Hand)

\* The broker answers the worker that asked first.
Encourage ==
    /\ ~home /\ desk # <<>> /\ ~late
    /\ order' = [order EXCEPT ![Head(desk)] = "Work Harder"]
    /\ desk' = Tail(desk)
    /\ UNCHANGED <<hand, late, workers_fired, home>>

Fire ==
    /\ ~home /\ desk # <<>> /\ late
    /\ order' = [order EXCEPT ![Head(desk)] = "Fired!"]
    /\ desk' = Tail(desk)
    /\ workers_fired' = workers_fired + 1
    /\ home' = LastOne
    /\ UNCHANGED <<hand, late>>

TimeUp ==
    /\ ~late
    /\ late' = TRUE
    /\ UNCHANGED <<desk, hand, order, workers_fired, home>>

FireNext == (\E w \in Hand : Ask(w) \/ Obey(w) \/ Work(w)) \/ Encourage \/ Fire \/ TimeUp

----------------------------------------------------------------------------
(* Properties. *)

FireTypeOK ==
    /\ desk \in Seq(Hand)
    /\ hand \in [Hand -> {"asks", "waits", "works", "finished"}]
    /\ order \in [Hand -> {"none", "Work Harder", "Fired!"}]
    /\ late \in BOOLEAN /\ home \in BOOLEAN
    /\ workers_fired \in 0 .. Cardinality(Hand)

\* The workers that are still to be told to go.
Undismissed ==
    {w \in Hand : ~home \/ w \in ToSet(desk)
                 \/ (hand[w] # "finished" /\ order[w] # "Fired!")}

=============================================================================
