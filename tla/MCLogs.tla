------------------------------- MODULE MCLogs -------------------------------
(* An instance of Logs for TLC. *)
EXTENDS Logs

CONSTANTS stdout, stderr

FewLines == [s \in Sources |-> 2]
=============================================================================
