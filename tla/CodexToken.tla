---------------------------- MODULE CodexToken ----------------------------
(***************************************************************************)
(* The OAuth credentials of a codex channel.  The provider rotates the      *)
(* refresh token at a refresh and revokes the credentials when an older one *)
(* is presented.  Requests share one refresh through a lock and a second    *)
(* look at the snapshot.  CredFaults names what the lock does not cover.    *)
(***************************************************************************)
EXTENDS Naturals, Sequences, SequencesExt

CONSTANTS
    Callers,        \* requests of one channel
    MaxTokens,      \* bound on the tokens issued
    CredFaults      \* subset of {"answer_lost", "leaves_late", "update_fails", "reload_fails",
                    \*            "old_reload", "edit", "admin_refresh"}

ASSUME CredAssumption == MaxTokens \in Nat \ {0}

VARIABLES
    issued,     \* provider: number of access tokens issued
    valid,      \* provider: the refresh token it accepts
    revoked,    \* provider: an old refresh token was presented
    expiring,   \* access tokens within REFRESH_SKEW_SECS of their end
    oauth_enc,  \* upstreams.oauth_enc
    snap,       \* oauth_plain in the snapshot
    line,       \* codex_locks: the holder of the lock, then those who wait, in order
    caller,     \* where each request is, and the credentials it carries
    other,      \* another writer: what it read and will write
    slip        \* ghost: what broke the order of refreshes, or "none"

credVars == <<issued, valid, revoked, expiring, oauth_enc, snap, line, caller, other, slip>>

Cred == [access : 1 .. MaxTokens + 1, refresh : 1 .. MaxTokens + 1]
First == [access |-> 1, refresh |-> 1]
Idle == [at |-> "idle", has |-> First]
Nobody == [at |-> "none", has |-> First]

CredInit ==
    /\ issued = 1 /\ valid = 1 /\ revoked = FALSE /\ expiring = {}
    /\ oauth_enc = First /\ snap = First /\ line = <<>>
    /\ caller = [c \in Callers |-> Idle] /\ other = Nobody /\ slip = "none"

FreshCred(o) == o.access \notin expiring
Enter(c, place) == caller' = [caller EXCEPT ![c].at = place]
Carry(c, place, o) == caller' = [caller EXCEPT ![c] = [at |-> place, has |-> o]]
Release(c) == line' = RemoveFirst(line, c)
ProviderSame == UNCHANGED <<issued, valid, revoked, expiring>>

\* The administrator's refresh is past the provider and before the snapshot.
Rotating == other.at \in {"admin_update", "admin_reload"}

-----------------------------------------------------------------------------
\* A request takes the row of its channel from the snapshot.
BeginRequest(c) ==
    /\ caller[c].at = "idle"
    /\ Carry(c, "ensure", snap)
    /\ UNCHANGED <<issued, valid, revoked, expiring, oauth_enc, snap, line, other, slip>>

\* ensure_token: a token far from its end is used at once; otherwise the lock.
ensure_token(c) ==
    /\ caller[c].at = "ensure"
    /\ \/ FreshCred(caller[c].has) /\ Carry(c, "answered", caller[c].has) /\ UNCHANGED line
       \/ ~FreshCred(caller[c].has) /\ Enter(c, "locking") /\ line' = Append(line, c)
    /\ ProviderSame /\ UNCHANGED <<oauth_enc, snap, other, slip>>

\* Bug: the token that was read before the wait is refreshed
DoubleCheck_None(c) ==
    /\ caller[c].at = "locking" /\ Head(line) = c
    /\ Enter(c, "post") /\ UNCHANGED line
    /\ ProviderSame /\ UNCHANGED <<oauth_enc, snap, other, slip>>

\* With the lock: another request may have refreshed the token meanwhile.
DoubleCheck(c) ==
    /\ caller[c].at = "locking" /\ Head(line) = c
    /\ \/ FreshCred(snap) /\ Carry(c, "answered", snap) /\ Release(c) /\ UNCHANGED slip
       \/ /\ ~FreshCred(snap) /\ Carry(c, "post", snap) /\ UNCHANGED line
          /\ slip' = IF Rotating THEN "admin_refresh" ELSE slip
    /\ ProviderSame /\ UNCHANGED <<oauth_enc, snap, other>>

\* The provider is not reached, or answers with an error or nonsense.
PostFails(c) ==
    /\ caller[c].at = "post"
    /\ Enter(c, "failed") /\ Release(c)
    /\ ProviderSame /\ UNCHANGED <<oauth_enc, snap, other, slip>>

\* The provider's answer to a refresh token: a new access token, and a new
\* refresh token if it rotates.
ProviderAnswers(o, rotates) ==
    /\ o.refresh = valid /\ ~revoked /\ issued < MaxTokens
    /\ issued' = issued + 1
    /\ valid' = IF rotates THEN issued + 1 ELSE valid
    /\ UNCHANGED <<revoked, expiring>>

\* The credentials to store: the refresh token of the answer, or the old one.
NextCred(o) == [access |-> issued', refresh |-> IF valid' = valid THEN o.refresh ELSE valid']

PostRefresh(c, rotates) ==
    /\ caller[c].at = "post"
    /\ ProviderAnswers(caller[c].has, rotates)
    /\ Carry(c, "update", NextCred(caller[c].has))
    /\ UNCHANGED <<oauth_enc, snap, line, other, slip>>

\* An old refresh token revokes the credentials.
PostRevoked(c) ==
    /\ caller[c].at = "post" /\ caller[c].has.refresh # valid
    /\ revoked' = TRUE
    /\ Enter(c, "failed") /\ Release(c)
    /\ UNCHANGED <<issued, valid, expiring, oauth_enc, snap, other, slip>>

UpdateRow(c) ==
    /\ caller[c].at = "update"
    /\ oauth_enc' = caller[c].has /\ Enter(c, "reload")
    /\ ProviderSame /\ UNCHANGED <<snap, line, other, slip>>

ReloadSnapshot(c) ==
    /\ caller[c].at = "reload"
    /\ snap' = oauth_enc /\ Enter(c, "answered") /\ Release(c)
    /\ ProviderSame /\ UNCHANGED <<oauth_enc, other, slip>>

\* The answer is used, or the failure makes the next candidate run.
EndRequest(c) ==
    /\ caller[c].at \in {"answered", "failed"}
    /\ caller' = [caller EXCEPT ![c] = Idle]
    /\ ProviderSame /\ UNCHANGED <<oauth_enc, snap, line, other, slip>>

\* The client leaves and the future is dropped, before anything was sent.
Leaves(c) ==
    /\ caller[c].at \in {"ensure", "locking", "post"}
    /\ caller' = [caller EXCEPT ![c] = Idle] /\ Release(c)
    /\ ProviderSame /\ UNCHANGED <<oauth_enc, snap, other, slip>>

TokenExpires ==
    /\ issued \notin expiring /\ expiring' = expiring \cup {issued}
    /\ UNCHANGED <<issued, valid, revoked, oauth_enc, snap, line, caller, other, slip>>

-----------------------------------------------------------------------------
\* One disturbance per behaviour is enough.
Slips(fault) == fault \in CredFaults /\ slip = "none" /\ slip' = fault

\* A request is between its look at the snapshot and the end of its refresh.
Refreshing == \E c \in Callers : caller[c].at \in {"post", "update", "reload"}

\* The 20 s pass, or the connection breaks, after the provider has rotated.
AnswerLost(c) ==
    /\ Slips("answer_lost") /\ caller[c].at = "post"
    /\ ProviderAnswers(caller[c].has, TRUE)
    /\ Enter(c, "failed") /\ Release(c)
    /\ UNCHANGED <<oauth_enc, snap, other>>

\* The future is dropped, or the UPDATE or the reload fails, after the provider has rotated.
LeavesLate(c) ==
    /\ \/ Slips("leaves_late") /\ caller[c].at \in {"update", "reload"}
       \/ Slips("update_fails") /\ caller[c].at = "update"
       \/ Slips("reload_fails") /\ caller[c].at = "reload"
    /\ Enter(c, "failed") /\ Release(c)
    /\ ProviderSame /\ UNCHANGED <<oauth_enc, snap, other>>

\* Another handler reads the row: to reload the snapshot, or to write the
\* row back after an edit.
OtherReads(kind) ==
    /\ kind \in CredFaults /\ slip = "none" /\ other = Nobody
    /\ other' = [at |-> kind, has |-> oauth_enc]
    /\ ProviderSame /\ UNCHANGED <<oauth_enc, snap, line, caller, slip>>

OtherWrites ==
    /\ other.at \in {"old_reload", "edit"} /\ other' = Nobody
    /\ \/ other.at = "old_reload" /\ snap' = other.has /\ UNCHANGED oauth_enc
       \/ other.at = "edit" /\ oauth_enc' = other.has /\ snap' = other.has
    /\ slip' = IF other.has # oauth_enc \/ Refreshing THEN other.at ELSE slip
    /\ ProviderSame /\ UNCHANGED <<line, caller>>

\* The administrator's refresh takes the snapshot's token and presents it without the lock.
AdminReads ==
    /\ "admin_refresh" \in CredFaults /\ slip = "none" /\ other = Nobody
    /\ other' = [at |-> "admin", has |-> snap]
    /\ ProviderSame /\ UNCHANGED <<oauth_enc, snap, line, caller, slip>>

AdminPosts ==
    /\ other.at = "admin"
    /\ \/ /\ \E rotates \in BOOLEAN : ProviderAnswers(other.has, rotates)
          /\ other' = [at |-> "admin_update", has |-> NextCred(other.has)]
       \/ /\ other.has.refresh # valid /\ revoked' = TRUE /\ other' = Nobody
          /\ UNCHANGED <<issued, valid, expiring>>
    /\ slip' = IF other.has # snap \/ Refreshing THEN "admin_refresh" ELSE slip
    /\ UNCHANGED <<oauth_enc, snap, line, caller>>

AdminUpdates ==
    /\ other.at = "admin_update"
    /\ oauth_enc' = other.has /\ other' = [other EXCEPT !.at = "admin_reload"]
    /\ ProviderSame /\ UNCHANGED <<snap, line, caller, slip>>

AdminReloads ==
    /\ other.at = "admin_reload" /\ snap' = oauth_enc /\ other' = Nobody
    /\ ProviderSame /\ UNCHANGED <<oauth_enc, line, caller, slip>>

\* The provider is not reached, or the administrator leaves before that.
AdminFails ==
    /\ other.at = "admin" /\ other' = Nobody
    /\ ProviderSame /\ UNCHANGED <<oauth_enc, snap, line, caller, slip>>

\* After the rotation the answer is lost, the future is dropped or a statement fails.
AdminCut ==
    /\ \/ Slips("answer_lost") /\ other.at = "admin" /\ ProviderAnswers(other.has, TRUE)
       \/ Slips("leaves_late") /\ Rotating /\ ProviderSame
       \/ Slips("update_fails") /\ other.at = "admin_update" /\ ProviderSame
       \/ Slips("reload_fails") /\ other.at = "admin_reload" /\ ProviderSame
    /\ other' = Nobody /\ UNCHANGED <<oauth_enc, snap, line, caller>>

refresh_oauth == AdminReads \/ AdminPosts \/ AdminUpdates \/ AdminReloads \/ AdminFails \/ AdminCut

CallerStep(c) ==
    \/ ensure_token(c) \/ DoubleCheck(c) \/ PostFails(c) \/ PostRevoked(c)
    \/ \E rotates \in BOOLEAN : PostRefresh(c, rotates)
    \/ UpdateRow(c) \/ ReloadSnapshot(c) \/ EndRequest(c)

CredNext ==
    \/ \E c \in Callers : BeginRequest(c) \/ CallerStep(c) \/ Leaves(c) \/ AnswerLost(c) \/ LeavesLate(c)
    \/ TokenExpires
    \/ \E kind \in {"old_reload", "edit"} : OtherReads(kind)
    \/ OtherWrites \/ refresh_oauth

\* Awaits end (20 s at the provider), and the lock serves in order.
CredFairness == \A c \in Callers : WF_credVars(CallerStep(c))
CredSpec == CredInit /\ [][CredNext]_credVars /\ CredFairness

-----------------------------------------------------------------------------
CredTypeOK ==
    /\ issued \in 1 .. MaxTokens /\ valid \in 1 .. MaxTokens /\ revoked \in BOOLEAN
    /\ oauth_enc \in Cred /\ snap \in Cred /\ ToSet(line) \subseteq Callers
    /\ caller \in [Callers -> [at : {"idle", "ensure", "locking", "post", "update", "reload", "answered", "failed"}, has : Cred]]

\* However requests overlap, fail before the provider is reached, or leave, no
\* refresh token is presented after it was rotated: that takes an answer that
\* is lost, a future dropped or a write failing after the rotation, or a writer
\* that does not take the lock and overlaps with a refresh.
NeverRevoked == revoked => slip # "none"

\* Whenever no refresh is under way, the row and the snapshot have the refresh
\* token the provider accepts, with the same exceptions.
CredentialKept == line = <<>> /\ ~Rotating /\ slip = "none" => oauth_enc.refresh = valid /\ snap = oauth_enc

\* Concurrent refreshes keep the credential: no rotated refresh token is presented again,
\* and the row and the snapshot end with the one the provider accepts.
CredentialSafe == CredTypeOK /\ NeverRevoked /\ CredentialKept

\* A request that needs a token gets an answer: the lock is not left behind.
EveryoneServed == \A c \in Callers : caller[c].at = "locking" ~> caller[c].at # "locking"
=============================================================================
