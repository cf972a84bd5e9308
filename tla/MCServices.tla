----------------------------- MODULE MCServices -----------------------------
(* Instances of ScheduledTasks and TaskContainers for TLC.  The two share   *)
(* nothing, so they are not interleaved: a behaviour is one of either, and  *)
(* the other stays as it began.                                             *)
EXTENDS ScheduledTasks, TaskContainers, TLC

\* A job that recurs beyond the last moment of the clock, and one that runs once.
Recurring == 1 .. MaxTime + 1
Once == {1}
Plans == {Recurring, Once}

VARIABLE service
vars == <<service, tasksVars, boxVars>>

Kinds == {"loops",    \* due runs only
          "byHand",   \* runs by hand only: no due time comes
          "boxes"}

\* Bounds on the behaviours of a kind.  Fresh containers and calls that have not
\* come yet are interchangeable, so they may be taken in order; so are the tasks,
\* and the first call takes the same one always.
NoneDue == now = 0
NoneByHand == \A m \in Manuals : place[m] = "new"
BoxesInOrder == \A c, d \in Boxes : d < c /\ boxTask[c] # NoBox => boxTask[d] # NoBox
CallsInOrder == \A j, k \in Calls : j < k /\ at[k] # "new" => at[j] # "new"
FirstTask == CHOOSE t \in Tasks : TRUE
TasksInOrder == for[1] \in {FirstTask, NoBox}

Init == /\ TasksInit /\ BoxesInit /\ service \in Kinds
        /\ service # "loops" => job.schedule = Once

OfTasks == \/ service = "loops" /\ NoneByHand' /\ UNCHANGED <<service, boxVars>>
           \/ service = "byHand" /\ NoneDue' /\ UNCHANGED <<service, boxVars>>
OfBoxes == service = "boxes" /\ BoxesInOrder' /\ CallsInOrder' /\ TasksInOrder'
           /\ UNCHANGED <<service, tasksVars>>

Next == \/ service # "boxes" /\ TasksNext /\ OfTasks
        \/ service = "boxes" /\ BoxesNext /\ OfBoxes

\* TasksFairness and BoxesFairness, each for its own behaviours.
Fairness ==
    /\ \A w \in Workers : WF_vars(service # "boxes" /\ (LoopStep(w) \/ RunStep(w)) /\ OfTasks)
    /\ \A m \in Manuals : WF_vars(service # "boxes" /\ RunStep(m) /\ OfTasks)
    /\ WF_vars(service # "boxes" /\ (\E r \in Runs : RunLeaseExpires(r)) /\ OfTasks)
    /\ WF_vars(service # "boxes" /\ JobLeaseExpires /\ OfTasks)
    /\ \A k \in Calls : WF_vars(service = "boxes" /\ CallStep(k) /\ OfBoxes)

Spec == Init /\ [][Next]_vars /\ Fairness
=============================================================================
