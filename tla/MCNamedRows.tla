---------------------------- MODULE MCNamedRows -----------------------------
(* An instance of NamedRows for TLC. *)
EXTENDS NamedRows

CONSTANTS k1, k2

\* Batches that insert the same keys in opposite orders, one that repeats a key, an empty one.
KeyBatches == {<<k1, k2>>, <<k2, k1>>, <<k1, k1>>, <<>>}
=============================================================================
