------------------------------- MODULE BStar -------------------------------
(***************************************************************************)
(* The finite-state machine of the Binary Star reactor, s_execute_fsm of   *)
(* clones/bstar.c: one of two servers, in a state, meets an event, which   *)
(* is a state its peer has published or a client's request.                *)
(***************************************************************************)

Server == {"primary", "backup"}
Peer(s) == IF s = "primary" THEN "backup" ELSE "primary"

State == {"PRIMARY", "BACKUP", "ACTIVE", "PASSIVE"}
Event == State \cup {"REQUEST"}

\* bstar_new
StartState(s) == IF s = "primary" THEN "PRIMARY" ELSE "BACKUP"

\* A variant with a mistake: a passive server does not take over from a peer
\* that restarts.
NextStateTimid(state, event, expired) ==
    CASE \/ state = "PRIMARY" /\ event = "BACKUP"
         \/ state \in {"PRIMARY", "PASSIVE"} /\ event = "REQUEST" /\ expired
                                                              -> "ACTIVE"
      [] state \in {"PRIMARY", "BACKUP"} /\ event = "ACTIVE"  -> "PASSIVE"
      [] OTHER                                                -> state

\* expired: peer_expiry has passed.
NextState(state, event, expired) ==
    CASE \/ state = "PRIMARY" /\ event = "BACKUP"
         \/ state = "PASSIVE" /\ event \in {"PRIMARY", "BACKUP"}
         \/ state \in {"PRIMARY", "PASSIVE"} /\ event = "REQUEST" /\ expired
                                                              -> "ACTIVE"
      [] state \in {"PRIMARY", "BACKUP"} /\ event = "ACTIVE"  -> "PASSIVE"
      [] OTHER                                                -> state

\* The events to which s_execute_fsm returns -1: a request that must not be
\* served, and a peer that is active or passive as this server is.
Refused(state, event, expired) ==
    \/ event = "REQUEST" /\ state = "BACKUP"
    \/ event = "REQUEST" /\ state \in {"PRIMARY", "PASSIVE"} /\ ~expired
    \/ event = state /\ state \in {"ACTIVE", "PASSIVE"}

=============================================================================
