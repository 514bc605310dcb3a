------------------------------ MODULE MCBreaker ------------------------------
(* Names for the requests of Breaker. *)
EXTENDS Breaker, TLC

CONSTANTS r1, r2, r3

=============================================================================
