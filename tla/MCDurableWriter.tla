-------------------------- MODULE MCDurableWriter --------------------------
(* Instances of DurableWriter and TurnChannel for TLC.  The channel has its  *)
(* own abstract journal, so the two are not interleaved: a behaviour is one  *)
(* of either, and the other stays as it began.                               *)
EXTENDS DurableWriter, TurnChannel

\* Every other event has a projection row, the last one (the terminal event) too.
EvenEvents == {e \in 1..LastEvent : e % 2 = 0}

CONSTANTS browse, other
\* A browser task and another tool start with the first two events.
StartsAt == [a \in {browse, other} |-> IF a = browse THEN 1 ELSE 2]

\* Bounds on the channel: its events become durable in order and not before the
\* runner read them, and the cursor follows (DurableWriter has all orders and the
\* readers); all sources together emit four rows.
InOrder == \E n \in 0..read : persisted = 1..n /\ reached \in {n - 1, n}
FourRows == emitted[browse] + emitted[other] + emitted[Askai] <= 4

VARIABLE kind
allVars == <<vars, sideVars, kind>>

WritersInit == Init /\ ChannelInit /\ kind \in {"events", "rows"}
OfEvents == kind = "events" /\ UNCHANGED <<sideVars, kind>>
OfRows == kind = "rows" /\ InOrder' /\ FourRows' /\ UNCHANGED <<vars, kind>>
WritersNext == (Next /\ OfEvents) \/ (ChannelNext /\ OfRows)

WritersFairness ==
    /\ WF_allVars(Writer /\ OfEvents) /\ WF_allVars(Store /\ OfEvents)
    /\ WF_allVars((FlushReturns \/ CloseReturns \/ CallRaises) /\ OfEvents)
    /\ WF_allVars(Scribe /\ OfRows) /\ WF_allVars(Return /\ OfRows)

WritersSpec == WritersInit /\ [][WritersNext]_allVars /\ WritersFairness

\* Every call of the two writers returns or raises, or is one that its writer was
\* serving when it failed (durable_writer.py:52-76, projection_writer.py:52-65).
CallsReturn == FlushEnds /\ CloseEnds /\ SideCallsEnd
=============================================================================
