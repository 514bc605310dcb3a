------------------------------ MODULE MCGateway ------------------------------
(* Four routes in two priorities, and a smaller table for two requests. *)
EXTENDS Gateway, TLC

\* u1 and u2 share the best priority, u3 is the fallback, nothing serves chat on u4; u1's 400s may be retried.
FourRoutes ==
    1 :> [up |-> "u1", priority |-> 0, weight |-> 1, retries |-> 1, lock |-> FALSE,
          codes |-> {"s429", "s400"}] @@
    2 :> [up |-> "u2", priority |-> 0, weight |-> 2, retries |-> 1, lock |-> TRUE,
          codes |-> {"s429"}] @@
    3 :> [up |-> "u3", priority |-> 1, weight |-> 3, retries |-> 1, lock |-> FALSE,
          codes |-> {"s429"}] @@
    4 :> [up |-> "u4", priority |-> 1, weight |-> 1, retries |-> 0, lock |-> FALSE,
          codes |-> {}]

\* The pinned upstream may be the worse one.
TwoRoutes ==
    1 :> [up |-> "u1", priority |-> 0, weight |-> 1, retries |-> 1, lock |-> FALSE,
          codes |-> {"s429"}] @@
    2 :> [up |-> "u2", priority |-> 1, weight |-> 1, retries |-> 0, lock |-> FALSE,
          codes |-> {"s429"}]

Modes == [u \in Upstream |-> CASE u \in {"u1", "u2"} -> "convert" [] u = "u3" -> "passthrough"
                                [] OTHER -> "none"]

AllCapable == [k \in Kind |-> IF k = "chat" THEN Upstream ELSE Upstream \ {"u4"}]

AllInputs == {in \in [kind : Kind, stream : BOOLEAN, idem : BOOLEAN] :
                (in.kind = "images" => ~in.stream) /\ (in.kind = "compact" => ~in.idem)}
NoCompact == {in \in AllInputs : in.kind # "compact"}

CONSTANTS r1, r2
Twins == Permutations({r1, r2})

=============================================================================
