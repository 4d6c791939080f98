--------------------------- MODULE MCRateLimiter ---------------------------
(* RateLimiter for TLC: failed repairs could drive the counter down for    *)
(* ever, so steps that would take it below Floor are left out.             *)
EXTENDS RateLimiter

CONSTANT Depth   \* bound: how far below zero the counter may go

Floor == -Depth

MCSpec == Init /\ [][Next /\ count' >= Floor]_vars
============================================================================
