----------------------------- MODULE AdminAuth -----------------------------
(***************************************************************************)
(* The administrator's account: login, change of password, the second      *)
(* factor (TOTP) and the tokens.  Handlers interleave at their database     *)
(* queries: a handler checks its token, then SELECTs the row, then decides  *)
(* on what it read, then UPDATEs.  Time is counted in TOTP steps of 30 s.   *)
(***************************************************************************)
EXTENDS Integers, FiniteSets

CONSTANTS
    Handlers,       \* requests that may be in flight at once
    MaxStep,        \* bound on the clock
    MaxVersion,     \* bound on session_version
    MaxSecret,      \* bound on the secrets made
    MaxTokenKinds   \* bound on the tokens issued that differ

ASSUME AuthAssumption ==
    /\ IsFiniteSet(Handlers) /\ MaxStep \in Nat \ {0}
    /\ MaxVersion \in Nat /\ MaxSecret \in Nat /\ MaxTokenKinds \in Nat

VARIABLES
    account,    \* the row of admin_users: password, session_version,
                \* totp_enabled, totp_secret_enc (0: NULL), last_totp_step (-1: NULL)
    step,       \* time
    tokens,     \* tokens issued: session_version, and what the login proved
    handler,    \* what each request does and knows
    accepted,   \* codes that login, sensitive_verify and totp_enable took, as
                \* <<secret, step, how often>>
    made,       \* secrets made so far
    proven,     \* secrets of which a code was shown to totp_enable
    raced       \* secrets that totp_enable turned on though the row had changed since it was read

authVars == <<account, step, tokens, handler, accepted, made, proven, raced>>

AuthIdle == [op |-> "idle"]

AuthInit ==
    /\ account = [password |-> 0, version |-> 0, totp |-> FALSE, secret |-> 0, last |-> -1]
    /\ step = 1 /\ tokens = {} /\ accepted = {} /\ made = 0 /\ proven = {} /\ raced = {}
    /\ handler = [h \in Handlers |-> AuthIdle]

ClockStep == step < MaxStep /\ step' = step + 1 /\ UNCHANGED <<account, tokens, handler, accepted, made, proven, raced>>

-----------------------------------------------------------------------------
(* totp::verify: the codes of the steps before, at and after now are right.  *)
totp_verify(secret, code) == code.secret = secret /\ code.step \in step - 1 .. step + 1

Codes == [secret : 1 .. MaxSecret, step : 0 .. MaxStep + 1]

(* current_username: the token's session_version is the row's.               *)
current_username(t) == t.version = account.version

\* Authorised requests: the token is checked in a query of its own.
BeginManaged(h, op) ==
    /\ handler[h].op = "idle"
    /\ \E t \in tokens : current_username(t)
    /\ handler' = [handler EXCEPT ![h] = [op |-> op, pc |-> "select"]]
    /\ UNCHANGED <<account, step, tokens, accepted, made, proven, raced>>

BeginLogin(h) ==
    /\ handler[h].op = "idle"
    /\ handler' = [handler EXCEPT ![h] = [op |-> "login", pc |-> "select"]]
    /\ UNCHANGED <<account, step, tokens, accepted, made, proven, raced>>

\* The row the handler decides on
SelectRow(h) ==
    /\ handler[h].op # "idle" /\ handler[h].pc = "select"
    /\ handler' = [handler EXCEPT ![h] = [op |-> @.op, pc |-> "decide", row |-> account]]
    /\ UNCHANGED <<account, step, tokens, accepted, made, proven, raced>>

Deciding(h, op) == handler[h].op = op /\ handler[h].pc = "decide"

Finish(h) == handler' = [handler EXCEPT ![h] = AuthIdle]

\* A wrong password or code: the request is refused and changes nothing.
Refused(h) ==
    /\ handler[h].op # "idle" /\ handler[h].pc = "decide"
    /\ Finish(h)
    /\ UNCHANGED <<account, step, tokens, accepted, made, proven, raced>>

-----------------------------------------------------------------------------

(* The UPDATE that takes a step; it counts a row only if the step is newer.  *)
ConsumeStep(code) == account.last < code.step

Accept(code) ==
    LET n == IF \E a \in accepted : a[1] = code.secret /\ a[2] = code.step THEN 2 ELSE 1
    IN  accepted' = {a \in accepted : a[1] # code.secret \/ a[2] # code.step}
                      \cup {<<code.secret, code.step, n>>}

\* A login issues a token like one that is out, or while there is room another.
MayIssue(t) == t \in tokens \/ Cardinality(tokens) < MaxTokenKinds

Token(row, withCode) == [version |-> row.version, password |-> row.password, code |-> withCode]

\* The password is that of the row that was read; the token carries the
\* session_version of the same row.
LoginWithoutCode(h) ==
    /\ Deciding(h, "login") /\ ~handler[h].row.totp /\ MayIssue(Token(handler[h].row, FALSE))
    /\ tokens' = tokens \cup {Token(handler[h].row, FALSE)}
    /\ Finish(h)
    /\ UNCHANGED <<account, step, accepted, made, proven, raced>>

LoginWithCode(h) ==
    /\ Deciding(h, "login") /\ handler[h].row.totp
    /\ \E code \in Codes :
        /\ totp_verify(handler[h].row.secret, code)
        /\ ConsumeStep(code)
        /\ account' = [account EXCEPT !.last = code.step]
        /\ Accept(code)
    /\ \/ MayIssue(Token(handler[h].row, TRUE)) /\ tokens' = tokens \cup {Token(handler[h].row, TRUE)}
       \/ UNCHANGED tokens     \* the client has left: the code is spent all the same
    /\ Finish(h)
    /\ UNCHANGED <<step, made, proven, raced>>

sensitive_verify(h) ==
    /\ Deciding(h, "sensitive_verify")
    /\ IF ~handler[h].row.totp THEN UNCHANGED <<account, accepted>>
       ELSE \E code \in Codes :
                /\ totp_verify(handler[h].row.secret, code)
                /\ ConsumeStep(code)
                /\ account' = [account EXCEPT !.last = code.step]
                /\ Accept(code)
    /\ Finish(h)
    /\ UNCHANGED <<step, tokens, made, proven, raced>>

\* Bug: the sessions are not revoked
change_password_KeepsSessions(h) ==
    /\ Deciding(h, "change_password") /\ account.version < MaxVersion
    /\ account' = [account EXCEPT !.password = account.version + 1]
    /\ Finish(h)
    /\ UNCHANGED <<step, tokens, accepted, made, proven, raced>>

change_password(h) ==
    /\ Deciding(h, "change_password") /\ account.version < MaxVersion
    /\ account' = [account EXCEPT !.password = account.version + 1, !.version = @ + 1]
    /\ Finish(h)
    /\ UNCHANGED <<step, tokens, accepted, made, proven, raced>>

totp_setup(h) ==
    /\ Deciding(h, "totp_setup") /\ ~handler[h].row.totp /\ made < MaxSecret
    /\ account' = [account EXCEPT !.secret = made + 1, !.totp = FALSE]
    /\ made' = made + 1
    /\ Finish(h)
    /\ UNCHANGED <<step, tokens, accepted, proven, raced>>

\* The UPDATE does not look at the secret that the code was checked with.
totp_enable(h) ==
    /\ Deciding(h, "totp_enable") /\ ~handler[h].row.totp /\ handler[h].row.secret # 0
    /\ account.version < MaxVersion
    /\ \E code \in Codes :
        /\ totp_verify(handler[h].row.secret, code)
        /\ account' = [account EXCEPT !.totp = TRUE, !.last = code.step, !.version = @ + 1]
        /\ Accept(code)
    /\ proven' = proven \cup {handler[h].row.secret}
    /\ raced' = IF account.totp \/ account.secret # handler[h].row.secret THEN raced \cup {account.secret} ELSE raced
    /\ Finish(h)
    /\ UNCHANGED <<step, tokens, made>>

\* The code must be newer than the step that was read, and is not consumed.
totp_disable(h) ==
    /\ Deciding(h, "totp_disable") /\ handler[h].row.totp /\ account.version < MaxVersion
    /\ \E code \in Codes :
        totp_verify(handler[h].row.secret, code) /\ code.step > handler[h].row.last
    /\ account' = [account EXCEPT !.totp = FALSE, !.secret = 0, !.last = -1, !.version = @ + 1]
    /\ Finish(h)
    /\ UNCHANGED <<step, tokens, accepted, made, proven, raced>>

AuthNext ==
    \/ ClockStep
    \/ \E h \in Handlers :
        \/ BeginLogin(h) \/ SelectRow(h) \/ Refused(h)
        \/ \E op \in {"change_password", "totp_setup", "totp_enable", "totp_disable", "sensitive_verify"} :
               BeginManaged(h, op)
        \/ LoginWithoutCode(h) \/ LoginWithCode(h) \/ sensitive_verify(h)
        \/ change_password(h) \/ totp_setup(h) \/ totp_enable(h) \/ totp_disable(h)

AuthSpec == AuthInit /\ [][AuthNext]_authVars

-----------------------------------------------------------------------------
AccountRows == [password : 0 .. MaxVersion, version : 0 .. MaxVersion, totp : BOOLEAN,
                secret : 0 .. MaxSecret, last : -1 .. MaxStep + 1]

Operations == {"login", "sensitive_verify", "change_password", "totp_setup", "totp_enable", "totp_disable"}

AuthTypeOK ==
    /\ account \in AccountRows /\ step \in 1 .. MaxStep /\ made \in 0 .. MaxSecret
    /\ handler \in [Handlers -> {AuthIdle} \cup [op : Operations, pc : {"select"}]
                                          \cup [op : Operations, pc : {"decide"}, row : AccountRows]]
    /\ tokens \subseteq [version : 0 .. MaxVersion, password : 0 .. MaxVersion, code : BOOLEAN]
    /\ accepted \subseteq (1 .. MaxSecret) \X (0 .. MaxStep + 1) \X {1, 2}
    /\ proven \subseteq 1 .. MaxSecret /\ raced \subseteq 0 .. MaxSecret

\* A token that is accepted now was issued for the password in force, and by
\* a login that showed a code if the second factor is on, whatever happened
\* between the login's SELECT and its token.
SessionsFollowCredentials ==
    \A t \in tokens :
        current_username(t) => t.password = account.password /\ (account.totp => t.code)

\* A code of the secret in force is taken once, whether by login, sensitive_verify or
\* totp_enable, unless two handlers turned that secret on with the code.  (A login that races
\* totp_disable may see an old code again: its token is of a session_version that is over.)
CodeOnce == \A a \in accepted : a[1] = account.secret => a[3] = 1 \/ a[1] \in raced

\* The second factor is on only with a secret of which the administrator has shown a code, so
\* that turning it on cannot lock him out; unless the row changed under totp_enable.
EnabledSecretProven == account.totp => account.secret \in proven \cup raced

\* An account holds its promises among any number of handlers that log in and change it at once:
\* sessions end with the password and the factor they were made by, and, but for a secret that
\* was turned on over a row that had changed, a code is taken once and the second factor is on
\* only with a secret the administrator has.
AccountSound ==
    /\ AuthTypeOK /\ SessionsFollowCredentials /\ CodeOnce
    /\ EnabledSecretProven

\* "Once enabled it has to be disabled before it is set up again": the second factor goes off
\* only by totp_disable, which asks for a code.  (Refuted: a setup that has read the row
\* before it was enabled writes totp_enabled = false after.)
OffByDisable ==
    [][account.totp /\ ~account'.totp => \E h \in Handlers : Deciding(h, "totp_disable") /\ handler'[h] = AuthIdle]_authVars
=============================================================================
