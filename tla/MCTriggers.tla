---------------------------- MODULE MCTriggers -----------------------------
(* Instances of Triggers for TLC. *)
EXTENDS Triggers

\* Summer time begins in the second week.
SpringForward == [before |-> 2, after |-> 4, change |-> 61]

Recurring == {[repeat |-> "daily"], [repeat |-> "hourly", step |-> 3],
              [repeat |-> "weekly", days |-> {0}]}

AllRepeats == {[repeat |-> "once"]} \cup Recurring
=============================================================================
