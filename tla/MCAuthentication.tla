-------------------------- MODULE MCAuthentication --------------------------
(* One client and three key pairs: each of the two faults costs one pair. *)
EXTENDS Authentication
============================================================================
