------------------------- MODULE ConversationTurns -------------------------
(***************************************************************************)
(* What the admission lock of one conversation promises, whatever happens  *)
(* to the binding rows that carry it: turns run one at a time, and a turn  *)
(* gets at most one outcome.  Abstract specification, implemented by       *)
(* KernelBinding.                                                          *)
(***************************************************************************)
CONSTANTS Messages, None

VARIABLES
    running,    \* the message whose turn holds the conversation, or None
    outcome     \* outcome[m]: how the turn of message m ended, if it did

vars == <<running, outcome>>

TerminalStatus == {"completed", "failed", "cancelled"}

\* "pending" before the turn ends, "disposed" when the conversation was
\* deleted under a turn.
Outcomes == {"pending", "disposed"} \cup TerminalStatus

Init == /\ running = None
        /\ outcome = [m \in Messages |-> "pending"]

Start(m) == /\ running = None
            /\ outcome[m] = "pending"
            /\ running' = m
            /\ UNCHANGED outcome

End(m, s) == /\ running = m
             /\ running' = None
             /\ outcome' = [outcome EXCEPT ![m] = s]

Next == \E m \in Messages : \/ Start(m)
                            \/ \E s \in Outcomes \ {"pending"} : End(m, s)

Spec == Init /\ [][Next]_vars
=============================================================================
