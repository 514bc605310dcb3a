-------------------------------- MODULE Ledger --------------------------------
(***************************************************************************)
(* What the log pipeline promises to billing: requests are recorded, and   *)
(* every recorded request is posted to the usage tables and the quotas at  *)
(* most once, in whatever groups and at whatever time.                     *)
(***************************************************************************)
EXTENDS Naturals

CONSTANT Event

VARIABLES
    recorded,   \* requests handed to the pipeline
    posted,     \* requests with a detail row
    tally       \* how often a request was added to the aggregates

ledgerVars == <<recorded, posted, tally>>

LedgerInit ==
    /\ recorded = {}
    /\ posted = {}
    /\ tally = [e \in Event |-> 0]

Record(e) ==
    /\ e \notin recorded
    /\ recorded' = recorded \cup {e}
    /\ UNCHANGED <<posted, tally>>

Post(S) ==
    /\ S \subseteq recorded \ posted
    /\ posted' = posted \cup S
    /\ tally' = [e \in Event |-> IF e \in S THEN tally[e] + 1 ELSE tally[e]]
    /\ UNCHANGED recorded

LedgerNext ==
    \/ \E e \in Event : Record(e)
    \/ \E S \in SUBSET Event : Post(S)

LedgerSpec == LedgerInit /\ [][LedgerNext]_ledgerVars
=============================================================================
