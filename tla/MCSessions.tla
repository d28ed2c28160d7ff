----------------------------- MODULE MCSessions -----------------------------
(* An instance of Sessions for TLC: which clients are tabs is part of Init, and the lowest   *)
(* free token is issued, so that no two states differ only in the names of tokens.           *)
EXTENDS Sessions
=============================================================================
