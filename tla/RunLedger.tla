----------------------------- MODULE RunLedger ------------------------------
(***************************************************************************)
(* What the dispatch of runs promises, without rows, commands, tasks,      *)
(* reports and stops: the life of a run goes one way.  It may be given up  *)
(* at any moment until its script is started, and then never starts; it    *)
(* starts once, after it was issued; and what is told of its success is    *)
(* true, although it may be withdrawn.                                     *)
(***************************************************************************)
CONSTANT Runs

VARIABLES
    life,  \* the stage of each run
    told   \* the runs that are said to have succeeded

vars == <<life, told>>

Init ==
    /\ life = [r \in Runs |-> "absent"]
    /\ told = {}

In(stages) == {r \in Runs : life[r] \in stages}

Moved(these, stage) == [r \in Runs |-> IF r \in these THEN stage ELSE life[r]]

Create(r) ==
    /\ life[r] = "absent"
    /\ life' = Moved({r}, "pending")
    /\ UNCHANGED told

Issue ==
    /\ \E these \in SUBSET In({"pending"}) : life' = Moved(these, "issued")
    /\ UNCHANGED told

Start(r) ==
    /\ life[r] = "issued"
    /\ life' = Moved({r}, "executing")
    /\ UNCHANGED told

End(r) ==
    /\ life[r] = "executing"
    /\ \E stage \in {"succeeded", "over"} : life' = Moved({r}, stage)
    /\ UNCHANGED told

\* Runs that have not been started are given up, and nobody says any more how others ended.
Drop ==
    /\ \E these \in SUBSET In({"pending", "issued"}) : life' = Moved(these, "over")
    /\ told' \in SUBSET told

Tell(r) ==
    /\ life[r] = "succeeded"
    /\ told' = told \cup {r}
    /\ UNCHANGED life

Next == Issue \/ Drop \/ \E r \in Runs : Create(r) \/ Start(r) \/ End(r) \/ Tell(r)

Spec == Init /\ [][Next]_vars
=============================================================================
