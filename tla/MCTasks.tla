------------------------------- MODULE MCTasks -------------------------------
(***************************************************************************)
(* Instances of the parts that must get somewhere: requests with one       *)
(* idempotency key, media tasks and their pollers, and the refresh of an   *)
(* OAuth credential.  The parts share no state, so a behaviour follows one *)
(* of them.                                                                *)
(***************************************************************************)
EXTENDS Idempotency, MediaTasks, CodexToken, TLC

VARIABLE focus

\* Three requests with one idempotency key; the last one has another body.
CONSTANTS r1, r2, r3
TwoSameBody == (r1 :> "a") @@ (r2 :> "a") @@ (r3 :> "b")

TasksInit ==
    /\ focus \in {"key", "media", "credential"}
    /\ Init /\ MediaInit /\ CredInit

\* The parts other than x stay as they are.
Others(x) ==
    /\ focus = x /\ UNCHANGED focus
    /\ x # "key" => UNCHANGED vars
    /\ x # "media" => UNCHANGED mediaVars
    /\ x # "credential" => UNCHANGED credVars

TasksNext ==
    \/ Others("key") /\ Next
    \/ Others("media") /\ MediaNext
    \/ Others("credential") /\ CredNext

\* The fairness of the parts, which asks nothing of one that stands still.
TasksSpec == /\ TasksInit /\ [][TasksNext]_<<focus, vars, mediaVars, credVars>>
             /\ \A r \in Request : WF_vars(focus = "key" /\ Step(r))
             /\ WF_vars(focus = "key" /\ Tick) /\ WF_vars(focus = "key" /\ CleanupExpired)
             /\ WF_mediaVars(focus = "media" /\ MediaTick)
             /\ \A p \in Pollers : WF_mediaVars(focus = "media" /\ PollerStep(p))
             /\ \A c \in Callers : WF_credVars(focus = "credential" /\ CallerStep(c))

\* Nobody waits for ever and no end is taken back: an idempotency key is freed, a media
\* task ends and keeps its end, and a request that needs a token gets past the lock.
EverythingEnds == KeyReleased /\ EndIsFinal /\ TaskEnds /\ EveryoneServed
=============================================================================
