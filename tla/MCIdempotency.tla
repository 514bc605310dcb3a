---------------------------- MODULE MCIdempotency ----------------------------
(* Three or four requests with one key; the last one has another body. *)
EXTENDS Idempotency, TLC

CONSTANTS r1, r2, r3, r4

ThreeSameBody == (r1 :> "a") @@ (r2 :> "a") @@ (r3 :> "a") @@ (r4 :> "b")
TwoSameBody   == (r1 :> "a") @@ (r2 :> "a") @@ (r3 :> "b")

=============================================================================
