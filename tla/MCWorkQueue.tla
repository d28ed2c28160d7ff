---------------------------- MODULE MCWorkQueue ----------------------------
(* Small instances of WorkQueue for TLC: every constant has its value in the .cfg files. *)
EXTENDS WorkQueue
============================================================================
