---------------------------- MODULE EventJournal ----------------------------
(***************************************************************************)
(* What the persistence of a turn's events promises, whoever persists them: *)
(* the cursor from which a later reader resumes covers durable events only, *)
(* and never goes back; an acknowledgement covers what the cursor covers.   *)
(* Abstract specification, implemented by DurableWriter.                    *)
(***************************************************************************)
EXTENDS Naturals

CONSTANT Events

VARIABLES
    durable,    \* the set of durable events
    cursor,     \* a reader resumes after this event
    acked       \* events 1..acked were acknowledged as durable

vars == <<durable, cursor, acked>>

Init == durable = {} /\ cursor = 0 /\ acked = 0

Persist == /\ \E e \in Events \ durable : durable' = durable \cup {e}
           /\ UNCHANGED <<cursor, acked>>

Advance == /\ \E c \in Events : cursor < c /\ 1..c \subseteq durable /\ cursor' = c
           /\ UNCHANGED <<durable, acked>>

Acknowledge == /\ acked' \in acked..cursor
               /\ UNCHANGED <<durable, cursor>>

Next == Persist \/ Advance \/ Acknowledge

Spec == Init /\ [][Next]_vars
=============================================================================
