------------------------------ MODULE PushPull ------------------------------
(***************************************************************************)
(* The ventilator, the workers and the sink of ventilator_worker_sink.     *)
(* The sink reads one message for the start of the batch and one for each  *)
(* task; its socket takes them from the ventilator and the workers in turn,*)
(* so that a result may come before the start.                             *)
(***************************************************************************)
EXTENDS Integers, FiniteSets, FiniteSetsExt

CONSTANTS Puller,       \* workers
          Tasks         \* tasks of a batch, 100 in the code

ASSUME TasksAssumption == Tasks \in Nat

VARIABLES linked,       \* workers that have connected
          entered,      \* whether Enter was pressed and the start was sent
          startComes,   \* whether the start of the batch waits for the sink
          task_nbr,     \* tasks sent
          tasks,        \* per worker, tasks in its socket
          works,        \* per worker, whether it does one
          results,      \* per worker, results that wait for the sink
          confirmed     \* messages the sink has read

pushVars == <<linked, entered, startComes, task_nbr, tasks, works, results, confirmed>>

PushInit ==
    /\ linked = {} /\ entered = FALSE /\ startComes = FALSE
    /\ task_nbr = 0 /\ confirmed = 0
    /\ tasks = [w \in Puller |-> 0]
    /\ works = [w \in Puller |-> FALSE]
    /\ results = [w \in Puller |-> 0]

Link(w) ==
    /\ w \notin linked
    /\ linked' = linked \cup {w}
    /\ UNCHANGED <<entered, startComes, task_nbr, tasks, works, results, confirmed>>

\* getchar returns, whether or not the workers are ready; "0" goes to the sink.
Enter ==
    /\ ~entered
    /\ entered' = TRUE
    /\ startComes' = TRUE
    /\ UNCHANGED <<linked, task_nbr, tasks, works, results, confirmed>>

\* The PUSH socket gives a task to one of the workers it has, and blocks without one.
Distribute ==
    /\ entered /\ task_nbr < Tasks
    /\ \E w \in linked : tasks' = [tasks EXCEPT ![w] = @ + 1]
    /\ task_nbr' = task_nbr + 1
    /\ UNCHANGED <<linked, entered, startComes, works, results, confirmed>>

TakeTask(w) ==
    /\ ~works[w] /\ tasks[w] > 0
    /\ works' = [works EXCEPT ![w] = TRUE]
    /\ tasks' = [tasks EXCEPT ![w] = @ - 1]
    /\ UNCHANGED <<linked, entered, startComes, task_nbr, results, confirmed>>

SendResult(w) ==
    /\ works[w]
    /\ works' = [works EXCEPT ![w] = FALSE]
    /\ results' = [results EXCEPT ![w] = @ + 1]
    /\ UNCHANGED <<linked, entered, startComes, task_nbr, tasks, confirmed>>

\* main of the sink has left its loop.
BatchEnd == confirmed = Tasks + 1

Confirm ==
    /\ ~BatchEnd
    /\ \/ startComes /\ startComes' = FALSE /\ UNCHANGED results
       \/ \E w \in Puller : /\ results[w] > 0
                            /\ results' = [results EXCEPT ![w] = @ - 1]
                            /\ UNCHANGED startComes
    /\ confirmed' = confirmed + 1
    /\ UNCHANGED <<linked, entered, task_nbr, tasks, works>>

PushNext ==
    \/ \E w \in Puller : Link(w) \/ TakeTask(w) \/ SendResult(w)
    \/ Enter \/ Distribute \/ Confirm

----------------------------------------------------------------------------
(* Properties. *)

\* When the sink reports the time of the batch, all of its tasks were sent and are done,
\* and no message of the batch is left for another, though a result may have passed for
\* the start (sink.c:10-30, ventilator.c:19-36).
BatchComplete ==
    BatchEnd => /\ task_nbr = Tasks /\ entered /\ ~startComes
                /\ \A w \in Puller : tasks[w] = 0 /\ ~works[w] /\ results[w] = 0

=============================================================================
