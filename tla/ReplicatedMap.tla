---------------------------- MODULE ReplicatedMap ----------------------------
(***************************************************************************)
(* What the Clone pattern promises of its servers: there is one log of     *)
(* updates, and every server that has a table has the table that a prefix  *)
(* of the log makes.  A server writes to the log when its table is that of *)
(* the whole log, or, when it takes over, of the prefix it has; what the   *)
(* old writer had added beyond that is gone from the log.                  *)
(***************************************************************************)
EXTENDS Naturals, Sequences, SequencesExt

CONSTANTS Replica, Name, None

VARIABLES log,      \* the updates, each with its key, its uuid and its body
          table,    \* replica -> its table, None without one
          upto      \* replica -> how much of the log its table has

\* The table that the first n updates make: of each key the last one counts.
TableOf(updates, n) ==
    [k \in Name |->
       LET of == {i \in 1 .. n : updates[i].key = k} IN
         IF of = {} THEN None
         ELSE LET last == CHOOSE i \in of : \A j \in of : j <= i IN
                IF updates[last].body THEN updates[last].uuid ELSE None]

RInit ==
    /\ log = <<>>
    /\ \A r \in Replica : table[r] \in {None, TableOf(<<>>, 0)} /\ upto[r] = 0

Others(r) == \A q \in Replica \ {r} : table'[q] = table[q] /\ upto'[q] = upto[q]

Whole(r) == upto'[r] = Len(log') /\ table'[r] = TableOf(log', Len(log'))

\* r numbers one more update.
Write(r) ==
    /\ table[r] # None
    /\ upto[r] = Len(log)
    /\ IsStrictPrefix(log, log')
    /\ Whole(r)
    /\ Others(r)

\* r goes on from what it has, with what it held back.
TakeOver(r) ==
    /\ table[r] # None
    /\ IsPrefix(SubSeq(log, 1, upto[r]), log')
    /\ Whole(r)
    /\ Others(r)

\* r gets a table, or more of the log.
Advance(r) ==
    /\ log' = log
    /\ upto'[r] \in 0 .. Len(log)
    /\ table[r] # None => upto'[r] >= upto[r]
    /\ table'[r] = TableOf(log, upto'[r])
    /\ Others(r)

\* r drops its table.
Forget(r) ==
    /\ log' = log
    /\ table'[r] = None
    /\ Others(r)

RNext == \E r \in Replica : Write(r) \/ TakeOver(r) \/ Advance(r) \/ Forget(r)

RSpec == RInit /\ [][RNext]_<<log, table, upto>>

=============================================================================
