----------------------------- MODULE WorkLedger -----------------------------
(***************************************************************************)
(* What a transactional queue promises those who work on its items,        *)
(* without requests, clocks, leases and owners: an item is handed out to   *)
(* one taker at a time, may be taken back from takers at any moment, and   *)
(* is settled by whoever has taken it at some time.  Takers may be slow:   *)
(* even an item that was taken back, or settled, can be settled again.     *)
(***************************************************************************)
EXTENDS Naturals

CONSTANT Items

VARIABLES
    state,  \* the stage of each item
    tries   \* how often it was handed out

vars == <<state, tries>>

Stages == {"absent", "available", "held", "done", "gone"}

Init ==
    /\ state = [i \in Items |-> "absent"]
    /\ tries = [i \in Items |-> 0]

In(stage) == {i \in Items : state[i] = stage}

Moved(these, stage) == [i \in Items |-> IF i \in these THEN stage ELSE state[i]]

Publish ==
    /\ \E these \in SUBSET In("absent") : state' = Moved(these, "available")
    /\ UNCHANGED tries

TakeBack ==
    /\ \E these \in SUBSET In("held") : state' = Moved(these, "available")
    /\ UNCHANGED tries

\* One item is handed out; others may be taken back at the same time, and so may the item.
Take(i) ==
    /\ \E these \in SUBSET In("held") :
          /\ Moved(these, "available")[i] = "available"
          /\ state' = [Moved(these, "available") EXCEPT ![i] = "held"]
    /\ tries' = [tries EXCEPT ![i] = @ + 1]

\* A taker gives the item back, or settles it, if necessary once more.
Settle(i) ==
    /\ tries[i] > 0
    /\ state[i] \in {"available", "held", "done"}
    /\ \E stage \in {"available", "done"} : state' = [state EXCEPT ![i] = stage]
    /\ UNCHANGED tries

Drop ==
    /\ state' = [i \in Items |-> "gone"]
    /\ UNCHANGED tries

Next == Publish \/ TakeBack \/ Drop \/ \E i \in Items : Take(i) \/ Settle(i)

Spec == Init /\ [][Next]_vars
=============================================================================
