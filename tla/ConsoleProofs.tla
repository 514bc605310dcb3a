--------------------------- MODULE ConsoleProofs ---------------------------
(***************************************************************************)
(* Theorems about the parts behind the admin API: the administrator's      *)
(* account, the catalogue and its snapshot, the route table, the settings  *)
(* and the price of an event.                                              *)
(***************************************************************************)
EXTENDS MCConsole, Recursion, FunctionTheorems, FiniteSetTheorems, TLAPS

-----------------------------------------------------------------------------
(* The administrator's account.                                              *)

\* The bounds as numbers.
LEMMA AuthNats ==
    /\ IsFiniteSet(Handlers) /\ MaxStep \in Nat /\ MaxStep # 0
    /\ MaxVersion \in Nat /\ MaxSecret \in Nat
  BY AuthAssumption

\* A handler that holds the row it is to decide on.
AtDecision(h) == handler[h].op # "idle" /\ handler[h].pc = "decide"

\* What a handler has read is not newer than the row; while the session_version is the
\* same, so is the password, and the second factor has not been turned on.
RowsFollow ==
    \A h \in Handlers : AtDecision(h) =>
        /\ handler[h].row.version <= account.version
        /\ handler[h].row.version = account.version =>
               handler[h].row.password = account.password /\ (account.totp => handler[h].row.totp)

TokensFollow ==
    \A t \in tokens :
        /\ t.version <= account.version
        /\ t.version = account.version => t.password = account.password /\ (account.totp => t.code)

SessionInv == AuthTypeOK /\ RowsFollow /\ TokensFollow

AccountFields ==
    /\ account.version \in Nat /\ account.version <= MaxVersion /\ account.password \in Nat /\ account.password <= MaxVersion
    /\ account.totp \in BOOLEAN /\ account.secret \in Nat /\ account.secret <= MaxSecret
    /\ account.last \in Int /\ account.last >= -1 /\ account.last <= MaxStep + 1

\* The fields of the row of the account.
LEMMA AccountIs ==
    ASSUME AuthTypeOK
    PROVE  AccountFields
  BY AuthNats DEF AuthTypeOK, AccountRows, AccountFields

\* The row that a handler has read is one that the account can have.
LEMMA RowIs ==
    ASSUME AuthTypeOK, NEW h \in Handlers, AtDecision(h)
    PROVE  /\ handler[h].row \in AccountRows /\ handler[h].op \in Operations
           /\ handler[h].row.version \in Nat /\ handler[h].row.secret \in Nat /\ handler[h].row.totp \in BOOLEAN
<1>1. handler[h] \in {AuthIdle} \cup [op : Operations, pc : {"select"}] \cup [op : Operations, pc : {"decide"}, row : AccountRows]
    BY DEF AuthTypeOK
<1>2. handler[h] \in [op : Operations, pc : {"decide"}, row : AccountRows]
    BY <1>1 DEF AtDecision, AuthIdle
<1>3. handler[h].row \in AccountRows /\ handler[h].op \in Operations
    BY <1>2
<1> QED BY <1>3, AuthNats DEF AccountRows

\* A handler that ends: the others are as they were.
LEMMA FinishLeaves ==
    ASSUME AuthTypeOK, NEW h \in Handlers, Finish(h)
    PROVE  /\ handler' \in [Handlers -> {AuthIdle} \cup [op : Operations, pc : {"select"}]
                                                  \cup [op : Operations, pc : {"decide"}, row : AccountRows]]
           /\ \A g \in Handlers : handler'[g].op # "idle" => g # h /\ handler'[g] = handler[g]
  BY DEF AuthTypeOK, Finish, AuthIdle

\* The codes on record after one was taken.
LEMMA AcceptIs ==
    ASSUME AuthTypeOK, NEW code \in Codes, Accept(code)
    PROVE  /\ accepted' \subseteq (1 .. MaxSecret) \X (0 .. MaxStep + 1) \X {1, 2}
           /\ \A a \in accepted' :
                 \/ a \in accepted /\ (a[1] # code.secret \/ a[2] # code.step)
                 \/ /\ a[1] = code.secret /\ a[2] = code.step
                    /\ a[3] = 1 \/ \E b \in accepted : b[1] = code.secret /\ b[2] = code.step
<1>1. code.secret \in 1 .. MaxSecret /\ code.step \in 0 .. MaxStep + 1
    BY DEF Codes
<1>2. PICK n \in {1, 2} : /\ n = 1 \/ \E b \in accepted : b[1] = code.secret /\ b[2] = code.step
                          /\ accepted' = {a \in accepted : a[1] # code.secret \/ a[2] # code.step} \cup {<<code.secret, code.step, n>>}
    BY DEF Accept
<1>3. PICK new \in (1 .. MaxSecret) \X (0 .. MaxStep + 1) \X {1, 2} :
          new = <<code.secret, code.step, n>> /\ new[1] = code.secret /\ new[2] = code.step /\ new[3] = n
    <2>1. <<code.secret, code.step, n>> \in (1 .. MaxSecret) \X (0 .. MaxStep + 1) \X {1, 2}
        BY <1>1
    <2> QED BY <2>1
<1> QED BY <1>2, <1>3 DEF AuthTypeOK

\* Steps that only move handlers on.
LEMMA WaitingStep ==
    ASSUME SessionInv, UNCHANGED <<account, tokens, accepted, made, proven, raced>>, step' \in 1 .. MaxStep,
           \/ UNCHANGED handler
           \/ \E h \in Handlers : \/ Finish(h)
                                  \/ \E op \in Operations : handler' = [handler EXCEPT ![h] = [op |-> op, pc |-> "select"]]
                                  \/ SelectRow(h)
    PROVE  SessionInv'
<1>1. CASE UNCHANGED handler
    BY <1>1 DEF SessionInv, AuthTypeOK, RowsFollow, TokensFollow, AtDecision
<1>2. ASSUME NEW h \in Handlers, Finish(h) PROVE SessionInv'
    <2>1. AuthTypeOK'
        BY <1>2, FinishLeaves DEF SessionInv, AuthTypeOK
    <2>2. RowsFollow' /\ TokensFollow'
        BY <1>2, FinishLeaves DEF SessionInv, RowsFollow, TokensFollow, AtDecision
    <2> QED BY <2>1, <2>2 DEF SessionInv
<1>3. ASSUME NEW h \in Handlers, NEW op \in Operations, handler' = [handler EXCEPT ![h] = [op |-> op, pc |-> "select"]]
      PROVE  SessionInv'
    <2>1. AuthTypeOK'
        BY <1>3 DEF SessionInv, AuthTypeOK
    <2>2. \A g \in Handlers : AtDecision(g)' => handler'[g] = handler[g]
        BY <1>3 DEF SessionInv, AuthTypeOK, AtDecision
    <2>3. RowsFollow' /\ TokensFollow'
        BY <2>2 DEF SessionInv, RowsFollow, TokensFollow, AtDecision
    <2> QED BY <2>1, <2>3 DEF SessionInv
<1>4. ASSUME NEW h \in Handlers, SelectRow(h) PROVE SessionInv'
    <2>1. handler[h].op \in Operations
        BY <1>4 DEF SessionInv, AuthTypeOK, SelectRow, AuthIdle
    <2>2. PICK r \in [op : Operations, pc : {"decide"}, row : AccountRows] :
              r = [op |-> handler[h].op, pc |-> "decide", row |-> account] /\ r.row = account
        <3>1. PICK op \in Operations : op = handler[h].op
            BY <2>1
        <3>2. account \in AccountRows
            BY DEF SessionInv, AuthTypeOK
        <3>3. [op |-> op, pc |-> "decide", row |-> account] \in [op : Operations, pc : {"decide"}, row : AccountRows]
            BY <3>2
        <3> QED BY <3>1, <3>3
    <2>3. handler' = [handler EXCEPT ![h] = r]
        BY <1>4, <2>2 DEF SelectRow
    <2>4. AuthTypeOK'
        BY <2>3 DEF SessionInv, AuthTypeOK
    <2>5. handler'[h].row = account /\ \A g \in Handlers : g # h => handler'[g] = handler[g]
        BY <2>2, <2>3 DEF SessionInv, AuthTypeOK
    <2>6. account.version <= account.version
        BY AccountIs DEF SessionInv, AccountFields
    <2>7. RowsFollow' /\ TokensFollow'
        BY <2>5, <2>6 DEF SessionInv, RowsFollow, TokensFollow, AtDecision
    <2> QED BY <2>4, <2>7 DEF SessionInv
<1> QED BY <1>1, <1>2, <1>3, <1>4

\* The token of a login is of the row that the login read.
LEMMA TokenIs ==
    ASSUME SessionInv, NEW h \in Handlers, AtDecision(h), NEW with \in BOOLEAN, handler[h].row.totp => with
    PROVE  /\ Token(handler[h].row, with) \in [version : 0 .. MaxVersion, password : 0 .. MaxVersion, code : BOOLEAN]
           /\ Token(handler[h].row, with).version <= account.version
           /\ Token(handler[h].row, with).version = account.version =>
                  /\ Token(handler[h].row, with).password = account.password
                  /\ account.totp => Token(handler[h].row, with).code
<1>1. PICK row \in AccountRows : row = handler[h].row
    BY RowIs DEF SessionInv
<1>2. row.version \in 0 .. MaxVersion /\ row.password \in 0 .. MaxVersion
    BY DEF AccountRows
<1>3. /\ row.version <= account.version
      /\ row.version = account.version => row.password = account.password /\ (account.totp => row.totp)
    BY <1>1 DEF SessionInv, RowsFollow
<1>4. PICK t : /\ t = Token(handler[h].row, with)
               /\ t \in [version : 0 .. MaxVersion, password : 0 .. MaxVersion, code : BOOLEAN]
               /\ t.version = row.version /\ t.password = row.password /\ (t.code <=> with)
    <2>1. PICK v \in 0 .. MaxVersion, w \in 0 .. MaxVersion : v = row.version /\ w = row.password
        BY <1>2
    <2>2. [version |-> v, password |-> w, code |-> with] \in [version : 0 .. MaxVersion, password : 0 .. MaxVersion, code : BOOLEAN]
        OBVIOUS
    <2> QED BY <1>1, <2>1, <2>2 DEF Token
<1> QED BY <1>1, <1>3, <1>4

\* A code is taken: the row's step moves on, and the account is otherwise as it was.
LEMMA CodeSession ==
    ASSUME SessionInv, NEW h \in Handlers, AtDecision(h), NEW code \in Codes,
           account' = [account EXCEPT !.last = code.step], Accept(code), Finish(h), UNCHANGED <<step, made, proven, raced>>,
           tokens' = tokens \/ tokens' = tokens \cup {Token(handler[h].row, TRUE)}
    PROVE  SessionInv'
<1>1. /\ account'.version = account.version /\ account'.password = account.password
      /\ account'.totp = account.totp /\ account' \in AccountRows
    BY DEF SessionInv, AuthTypeOK, AccountRows, Codes
<1>2. PICK t : /\ t \in [version : 0 .. MaxVersion, password : 0 .. MaxVersion, code : BOOLEAN]
               /\ t.version <= account.version
               /\ t.version = account.version => t.password = account.password /\ (account.totp => t.code)
               /\ tokens' \subseteq tokens \cup {t}
    BY TokenIs
<1>3. AuthTypeOK'
    BY <1>1, <1>2, FinishLeaves, AcceptIs DEF SessionInv, AuthTypeOK
<1>4. RowsFollow'
    BY <1>1, FinishLeaves DEF SessionInv, RowsFollow, AtDecision
<1>5. TokensFollow'
    BY <1>1, <1>2 DEF SessionInv, TokensFollow
<1> QED BY <1>3, <1>4, <1>5 DEF SessionInv

\* The account is changed with a new session_version: what was read or issued is old.
LEMMA NewVersionSession ==
    ASSUME SessionInv, NEW h \in Handlers, Finish(h), UNCHANGED <<step, tokens>>,
           account' \in AccountRows, account'.version = account.version + 1,
           made' \in 0 .. MaxSecret, proven' \subseteq 1 .. MaxSecret, raced' \subseteq 0 .. MaxSecret,
           accepted' \subseteq (1 .. MaxSecret) \X (0 .. MaxStep + 1) \X {1, 2}
    PROVE  SessionInv'
<1>1. account.version \in Nat
    BY AccountIs DEF SessionInv, AccountFields
<1>2. AuthTypeOK'
    BY FinishLeaves DEF SessionInv, AuthTypeOK
<1>3. ASSUME NEW g \in Handlers, AtDecision(g)'
      PROVE  handler'[g].row.version <= account'.version /\ handler'[g].row.version # account'.version
    <2>1. AtDecision(g) /\ handler'[g] = handler[g]
        BY <1>3, FinishLeaves DEF SessionInv, AtDecision
    <2>2. handler[g].row.version \in Nat /\ handler[g].row.version <= account.version
        BY <2>1, RowIs DEF SessionInv, RowsFollow
    <2> QED BY <1>1, <2>1, <2>2
<1>4. ASSUME NEW t \in tokens PROVE t.version <= account'.version /\ t.version # account'.version
    <2>1. t.version \in Nat /\ t.version <= account.version
        BY AuthNats DEF SessionInv, AuthTypeOK, TokensFollow
    <2> QED BY <1>1, <2>1
<1> QED BY <1>2, <1>3, <1>4 DEF SessionInv, RowsFollow, TokensFollow

\* No handler is at work, and no token was issued.
LEMMA SessionStarts == AuthInit => SessionInv
<1> SUFFICES ASSUME AuthInit PROVE SessionInv
    OBVIOUS
<1>1. account \in AccountRows
    BY AuthNats DEF AuthInit, AccountRows
<1>2. handler \in [Handlers -> {AuthIdle}] /\ AuthIdle.op = "idle"
    BY DEF AuthInit, AuthIdle
<1>3. AuthTypeOK
    BY <1>1, <1>2, AuthNats DEF AuthInit, AuthTypeOK
<1>4. RowsFollow /\ TokensFollow
    BY <1>2 DEF AuthInit, RowsFollow, TokensFollow, AtDecision
<1> QED BY <1>3, <1>4 DEF SessionInv

\* Every step of every handler keeps tokens and rows behind the account.
LEMMA SessionStep == SessionInv /\ [AuthNext]_authVars => SessionInv'
<1> SUFFICES ASSUME SessionInv, [AuthNext]_authVars PROVE SessionInv'
    OBVIOUS
<1>a. AuthTypeOK /\ AccountFields
    BY AccountIs DEF SessionInv
<1>1. CASE ClockStep \/ UNCHANGED authVars
    BY <1>1, <1>a, AuthNats, WaitingStep DEF ClockStep, authVars, AuthTypeOK
<1>2. ASSUME NEW h \in Handlers,
             \/ BeginLogin(h) \/ SelectRow(h) \/ Refused(h)
             \/ \E op \in {"change_password", "totp_setup", "totp_enable", "totp_disable", "sensitive_verify"} : BeginManaged(h, op)
      PROVE  SessionInv'
    <2>1. UNCHANGED <<account, tokens, accepted, made, proven, raced>> /\ step' \in 1 .. MaxStep
        BY <1>a, <1>2 DEF BeginLogin, SelectRow, Refused, BeginManaged, AuthTypeOK
    <2>2. \/ Finish(h) \/ SelectRow(h)
          \/ \E op \in Operations : handler' = [handler EXCEPT ![h] = [op |-> op, pc |-> "select"]]
        BY <1>2 DEF BeginLogin, Refused, BeginManaged, Operations
    <2> QED BY <2>1, <2>2, WaitingStep
<1>3. ASSUME NEW h \in Handlers, LoginWithoutCode(h) PROVE SessionInv'
    <2>1. AtDecision(h) /\ ~handler[h].row.totp /\ Finish(h) /\ UNCHANGED <<account, step, accepted, made, proven, raced>>
        BY <1>3 DEF LoginWithoutCode, Deciding, AtDecision
    <2>2. PICK t : /\ t \in [version : 0 .. MaxVersion, password : 0 .. MaxVersion, code : BOOLEAN]
                   /\ t.version <= account.version
                   /\ t.version = account.version => t.password = account.password /\ (account.totp => t.code)
                   /\ tokens' = tokens \cup {t}
        BY <1>3, <2>1, TokenIs DEF LoginWithoutCode
    <2>3. AuthTypeOK'
        BY <1>a, <2>1, <2>2, FinishLeaves DEF AuthTypeOK
    <2>4. RowsFollow'
        BY <1>a, <2>1, FinishLeaves DEF SessionInv, RowsFollow, AtDecision
    <2>5. TokensFollow'
        BY <2>1, <2>2 DEF SessionInv, TokensFollow
    <2> QED BY <2>3, <2>4, <2>5 DEF SessionInv
<1>4. ASSUME NEW h \in Handlers, LoginWithCode(h) PROVE SessionInv'
    <2>1. PICK code \in Codes : account' = [account EXCEPT !.last = code.step] /\ Accept(code)
        BY <1>4 DEF LoginWithCode
    <2>2. AtDecision(h) /\ Finish(h) /\ UNCHANGED <<step, made, proven, raced>>
        BY <1>4 DEF LoginWithCode, Deciding, AtDecision
    <2>3. tokens' = tokens \/ tokens' = tokens \cup {Token(handler[h].row, TRUE)}
        BY <1>4 DEF LoginWithCode
    <2> QED BY <2>1, <2>2, <2>3, CodeSession
<1>5. ASSUME NEW h \in Handlers, sensitive_verify(h) PROVE SessionInv'
    <2>1. AtDecision(h) /\ Finish(h) /\ UNCHANGED <<step, made, proven, raced, tokens>>
        BY <1>5 DEF sensitive_verify, Deciding, AtDecision
    <2>2. CASE handler[h].row.totp
        <3>1. PICK code \in Codes : account' = [account EXCEPT !.last = code.step] /\ Accept(code)
            BY <1>5, <2>2 DEF sensitive_verify
        <3> QED BY <2>1, <3>1, CodeSession
    <2>3. CASE ~handler[h].row.totp
        <3>1. UNCHANGED <<account, accepted>>
            BY <1>5, <2>3 DEF sensitive_verify
        <3>2. step' \in 1 .. MaxStep
            BY <1>a, <2>1 DEF AuthTypeOK
        <3> QED BY <2>1, <3>1, <3>2, WaitingStep
    <2> QED BY <2>2, <2>3
<1>6. ASSUME NEW h \in Handlers, change_password(h) PROVE SessionInv'
    <2>1. account' \in AccountRows /\ account'.version = account.version + 1
        <3>1. PICK v \in 0 .. MaxVersion : v = account.version + 1
            BY <1>a, <1>6, AuthNats DEF change_password, AccountFields
        <3>2. account' = [account EXCEPT !.password = v, !.version = v]
            BY <1>6, <3>1 DEF change_password
        <3>3. account \in AccountRows
            BY <1>a DEF AuthTypeOK
        <3> QED BY <3>1, <3>2, <3>3 DEF AccountRows
    <2> QED BY <1>a, <1>6, <2>1, NewVersionSession DEF change_password, AuthTypeOK
<1>7. ASSUME NEW h \in Handlers, totp_setup(h) PROVE SessionInv'
    <2>1. Finish(h) /\ UNCHANGED <<step, tokens, accepted, proven, raced>> /\ made' \in 0 .. MaxSecret
        BY <1>a, <1>7, AuthNats DEF totp_setup, AuthTypeOK
    <2>2. /\ account' \in AccountRows /\ account'.version = account.version /\ account'.password = account.password
          /\ ~account'.totp
        <3>1. PICK m \in 0 .. MaxSecret : m = made + 1
            BY <1>a, <1>7, AuthNats DEF totp_setup, AuthTypeOK
        <3>2. account' = [account EXCEPT !.secret = m, !.totp = FALSE]
            BY <1>7, <3>1 DEF totp_setup
        <3>3. account \in AccountRows
            BY <1>a DEF AuthTypeOK
        <3> QED BY <3>2, <3>3 DEF AccountRows
    <2>3. AuthTypeOK'
        BY <1>a, <2>1, <2>2, FinishLeaves DEF AuthTypeOK
    <2>4. RowsFollow' /\ TokensFollow'
        BY <1>a, <2>1, <2>2, FinishLeaves DEF SessionInv, RowsFollow, TokensFollow, AtDecision
    <2> QED BY <2>3, <2>4 DEF SessionInv
<1>8. ASSUME NEW h \in Handlers, totp_enable(h) PROVE SessionInv'
    <2>1. PICK code \in Codes : /\ totp_verify(handler[h].row.secret, code) /\ Accept(code)
                                /\ account' = [account EXCEPT !.totp = TRUE, !.last = code.step, !.version = @ + 1]
        BY <1>8 DEF totp_enable
    <2>2. account' \in AccountRows /\ account'.version = account.version + 1
        <3>1. PICK v \in 0 .. MaxVersion : v = account.version + 1
            BY <1>a, <1>8, AuthNats DEF totp_enable, AccountFields
        <3>2. account' = [account EXCEPT !.totp = TRUE, !.last = code.step, !.version = v]
            BY <1>8, <3>1, <2>1 DEF totp_enable
        <3>3. account \in AccountRows
            BY <1>a DEF AuthTypeOK
        <3>4. code.step \in -1 .. MaxStep + 1
            BY AuthNats DEF Codes
        <3> QED BY <3>1, <3>2, <3>3, <3>4 DEF AccountRows
    <2>3. proven' \subseteq 1 .. MaxSecret
        BY <1>a, <1>8, <2>1 DEF totp_enable, totp_verify, Codes, AuthTypeOK
    <2>4. raced' \subseteq 0 .. MaxSecret
        BY <1>a, <1>8 DEF totp_enable, AuthTypeOK, AccountRows
    <2> QED BY <1>a, <1>8, <2>1, <2>2, <2>3, <2>4, AcceptIs, NewVersionSession DEF totp_enable, AuthTypeOK
<1>9. ASSUME NEW h \in Handlers, totp_disable(h) PROVE SessionInv'
    <2>1. account' \in AccountRows /\ account'.version = account.version + 1
        <3>1. PICK v \in 0 .. MaxVersion : v = account.version + 1
            BY <1>a, <1>9, AuthNats DEF totp_disable, AccountFields
        <3>2. account' = [account EXCEPT !.totp = FALSE, !.secret = 0, !.last = -1, !.version = v]
            BY <1>9, <3>1 DEF totp_disable
        <3>3. account \in AccountRows
            BY <1>a DEF AuthTypeOK
        <3>4. 0 \in 0 .. MaxSecret /\ -1 \in -1 .. MaxStep + 1
            BY AuthNats
        <3> QED BY <3>1, <3>2, <3>3, <3>4 DEF AccountRows
    <2> QED BY <1>a, <1>9, <2>1, NewVersionSession DEF totp_disable, AuthTypeOK
<1> QED BY <1>1, <1>2, <1>3, <1>4, <1>5, <1>6, <1>7, <1>8, <1>9 DEF AuthNext

\* However many handlers change the account at once: a token that is accepted was issued for
\* the password in force, and with a code if the second factor is on.
THEOREM SessionsEnd == AuthSpec => []SessionsFollowCredentials
<1>1. SessionInv => SessionsFollowCredentials
    BY DEF SessionInv, TokensFollow, SessionsFollowCredentials, current_username
<1> QED BY <1>1, SessionStarts, SessionStep, PTL DEF AuthSpec

\* Secrets are those that were made.
SecretsMade ==
    /\ account.secret <= made /\ \A a \in accepted : a[1] <= made
    /\ \A h \in Handlers : AtDecision(h) => handler[h].row.secret <= made

\* Before a secret is turned on no code of it was taken, and once it is turned off it is gone:
\* a login that still has it has a secret that is not the row's.
FactorFresh ==
    /\ ~account.totp => \A a \in accepted : a[1] # account.secret
    /\ \A h \in Handlers : AtDecision(h) /\ handler[h].row.totp /\ ~account.totp /\ account.secret # 0 =>
           handler[h].row.secret # account.secret

StepsTaken ==
    \A a \in accepted : a[1] = account.secret => a[1] \in raced \/ (a[2] <= account.last /\ a[3] = 1)

FactorInv == SecretsMade /\ FactorFresh /\ StepsTaken /\ EnabledSecretProven

\* The second factor of the account stays as it is.
SameFactor == account'.totp = account.totp /\ account'.secret = account.secret /\ account'.last = account.last

\* A step that leaves the second factor and the codes on record alone.
LEMMA FactorLeft ==
    ASSUME FactorInv, SameFactor, UNCHANGED <<accepted, made, proven, raced>>,
           \A g \in Handlers : AtDecision(g)' => \/ AtDecision(g) /\ handler'[g] = handler[g]
                                                 \/ handler'[g].row = account
    PROVE  FactorInv'
<1>2. SecretsMade'
    BY DEF FactorInv, SameFactor, SecretsMade, AtDecision
<1>3. FactorFresh'
    BY DEF FactorInv, SameFactor, FactorFresh, AtDecision
<1>4. StepsTaken' /\ EnabledSecretProven'
    BY DEF FactorInv, SameFactor, StepsTaken, EnabledSecretProven
<1> QED BY <1>2, <1>3, <1>4 DEF FactorInv

\* A code of the second factor is taken.
LEMMA FactorCode ==
    ASSUME AuthTypeOK, FactorInv, NEW h \in Handlers, AtDecision(h), handler[h].row.totp, NEW code \in Codes,
           totp_verify(handler[h].row.secret, code), ConsumeStep(code),
           account' = [account EXCEPT !.last = code.step], Accept(code), Finish(h), UNCHANGED <<made, proven, raced>>
    PROVE  FactorInv'
<1>1. /\ account'.totp = account.totp /\ account'.secret = account.secret /\ account'.last = code.step
      /\ account.last \in Int /\ code.step \in Int /\ account.last < code.step /\ code.secret = handler[h].row.secret
    BY AccountIs, AuthNats DEF AuthTypeOK, AccountRows, AccountFields, Codes, ConsumeStep, totp_verify
<1>2. \A a \in accepted : a[1] \in Nat /\ a[2] \in Int
    BY AuthNats DEF AuthTypeOK
<1>3. \A a \in accepted' :
          \/ a \in accepted /\ (a[1] # code.secret \/ a[2] # code.step)
          \/ /\ a[1] = code.secret /\ a[2] = code.step
             /\ a[3] = 1 \/ \E b \in accepted : b[1] = code.secret /\ b[2] = code.step
    BY AcceptIs
<1>4. \A g \in Handlers : handler'[g].op # "idle" => handler'[g] = handler[g]
    BY FinishLeaves
<1>7. SecretsMade'
    BY <1>1, <1>3, <1>4 DEF FactorInv, SecretsMade, AtDecision
<1>8. FactorFresh'
    <2>1. code.secret # 0
        BY AuthNats DEF Codes
    <2> QED BY <1>1, <1>3, <1>4, <2>1 DEF FactorInv, FactorFresh, AtDecision
<1>9. StepsTaken'
    <2> SUFFICES ASSUME NEW a \in accepted', a[1] = account.secret, a[1] \notin raced PROVE a[2] <= code.step /\ a[3] = 1
        BY <1>1 DEF StepsTaken
    <2>1. \A b \in accepted : b[1] = account.secret => b[2] <= account.last /\ b[3] = 1
        BY DEF FactorInv, StepsTaken
    <2>2. CASE a \in accepted
        BY <1>1, <1>2, <2>1, <2>2
    <2>3. CASE /\ a[1] = code.secret /\ a[2] = code.step
               /\ a[3] = 1 \/ \E b \in accepted : b[1] = code.secret /\ b[2] = code.step
        BY <1>1, <2>1, <2>3
    <2> QED BY <1>3, <2>2, <2>3
<1>10. EnabledSecretProven'
    BY <1>1 DEF FactorInv, EnabledSecretProven
<1> QED BY <1>7, <1>8, <1>9, <1>10 DEF FactorInv

\* setup stores a new secret, which is not yet in force.
LEMMA SetupFactor ==
    ASSUME AuthTypeOK, FactorInv, NEW h \in Handlers, totp_setup(h)
    PROVE  FactorInv'
<1>1. /\ account'.secret = made + 1 /\ ~account'.totp /\ made' = made + 1 /\ Finish(h)
      /\ accepted' = accepted /\ made \in Nat
    BY AuthNats DEF totp_setup, AuthTypeOK, AccountRows
<1>3. \A g \in Handlers : handler'[g].op # "idle" => handler'[g] = handler[g]
    BY <1>1, FinishLeaves
<1>4. \A a \in accepted : a[1] \in Nat /\ a[1] <= made
    BY AuthNats DEF AuthTypeOK, FactorInv, SecretsMade
<1>5. ASSUME NEW g \in Handlers, AtDecision(g)'
      PROVE  handler'[g].row.secret \in Nat /\ handler'[g].row.secret <= made
    <2>1. AtDecision(g) /\ handler'[g] = handler[g]
        BY <1>3, <1>5 DEF AtDecision
    <2> QED BY <2>1, RowIs DEF FactorInv, SecretsMade
<1>6. SecretsMade'
    <2>1. made + 1 <= made + 1 /\ \A a \in accepted : a[1] <= made + 1
        BY <1>1, <1>4
    <2>2. \A g \in Handlers : AtDecision(g)' => handler'[g].row.secret <= made + 1
        BY <1>1, <1>5
    <2> QED BY <1>1, <2>1, <2>2 DEF SecretsMade
<1>7. FactorFresh'
    <2>1. \A a \in accepted : a[1] # made + 1
        BY <1>1, <1>4
    <2>2. \A g \in Handlers : AtDecision(g)' => handler'[g].row.secret # made + 1
        BY <1>1, <1>5
    <2> QED BY <1>1, <1>5, <2>1, <2>2 DEF FactorFresh
<1>8. StepsTaken' /\ EnabledSecretProven'
    BY <1>1, <1>4 DEF StepsTaken, EnabledSecretProven
<1> QED BY <1>6, <1>7, <1>8 DEF FactorInv

\* enable turns the secret on that its code was made with.
LEMMA EnableFactor ==
    ASSUME AuthTypeOK, FactorInv, NEW h \in Handlers, totp_enable(h)
    PROVE  FactorInv'
<1>0. Finish(h) /\ made' = made
    BY DEF totp_enable
<1>1. PICK code \in Codes : /\ totp_verify(handler[h].row.secret, code) /\ Accept(code)
                            /\ account' = [account EXCEPT !.totp = TRUE, !.last = code.step, !.version = @ + 1]
    BY DEF totp_enable
<1>2. account'.totp /\ account'.secret = account.secret /\ account'.last = code.step /\ code.step \in Int
    BY <1>1, AuthNats DEF AuthTypeOK, AccountRows, Codes
<1>3. code.secret = handler[h].row.secret /\ proven' = proven \cup {code.secret}
    BY <1>1 DEF totp_enable, totp_verify
<1>4. \/ account.secret \in raced'
      \/ ~account.totp /\ account.secret = code.secret /\ raced' = raced
    BY <1>3 DEF totp_enable
<1>5. \A a \in accepted' :
          \/ a \in accepted /\ (a[1] # code.secret \/ a[2] # code.step)
          \/ /\ a[1] = code.secret /\ a[2] = code.step
             /\ a[3] = 1 \/ \E b \in accepted : b[1] = code.secret /\ b[2] = code.step
    BY <1>1, AcceptIs
<1>6. \A g \in Handlers : handler'[g].op # "idle" => handler'[g] = handler[g]
    BY <1>0, FinishLeaves
<1>7. SecretsMade'
    <2>1. code.secret <= made
        BY <1>3 DEF FactorInv, SecretsMade, totp_enable, Deciding, AtDecision
    <2> QED BY <1>0, <1>2, <1>5, <1>6, <2>1 DEF FactorInv, SecretsMade, AtDecision
<1>8. FactorFresh'
    BY <1>2 DEF FactorFresh
<1>9. StepsTaken'
    <2> SUFFICES ASSUME NEW a \in accepted', a[1] = account.secret, account.secret \notin raced'
                 PROVE  a[2] <= code.step /\ a[3] = 1
        BY <1>2 DEF StepsTaken
    <2>1. \A b \in accepted : b[1] # account.secret
        BY <1>4 DEF FactorInv, FactorFresh
    <2> QED BY <1>2, <1>4, <1>5, <2>1
<1>10. EnabledSecretProven'
    BY <1>2, <1>3, <1>4 DEF EnabledSecretProven
<1> QED BY <1>7, <1>8, <1>9, <1>10 DEF FactorInv

\* disable turns the factor off and removes its secret.
LEMMA DisableFactor ==
    ASSUME AuthTypeOK, FactorInv, NEW h \in Handlers, totp_disable(h)
    PROVE  FactorInv'
<1>1. /\ account'.secret = 0 /\ ~account'.totp /\ made' = made /\ made \in Nat /\ accepted' = accepted
      /\ Finish(h)
    BY AuthNats DEF totp_disable, AuthTypeOK, AccountRows
<1>3. \A g \in Handlers : handler'[g].op # "idle" => handler'[g] = handler[g]
    BY <1>1, FinishLeaves
<1>4. \A a \in accepted : a[1] # 0
    BY AuthNats DEF AuthTypeOK
<1>5. SecretsMade'
    BY <1>1, <1>3 DEF FactorInv, SecretsMade, AtDecision
<1>6. FactorFresh'
    BY <1>1, <1>3, <1>4 DEF FactorInv, FactorFresh, AtDecision
<1>7. StepsTaken' /\ EnabledSecretProven'
    BY <1>1, <1>4 DEF StepsTaken, EnabledSecretProven
<1> QED BY <1>5, <1>6, <1>7 DEF FactorInv

\* The account begins without a second factor.
LEMMA FactorStarts == AuthInit => FactorInv
<1> SUFFICES ASSUME AuthInit PROVE FactorInv
    OBVIOUS
<1>1. /\ account.secret = 0 /\ ~account.totp /\ made = 0 /\ accepted = {}
      /\ \A h \in Handlers : handler[h].op = "idle"
    BY DEF AuthInit, AuthIdle
<1> QED BY <1>1 DEF FactorInv, SecretsMade, FactorFresh, StepsTaken, EnabledSecretProven, AtDecision

\* Every step keeps what is known of the second factor.
LEMMA FactorStep == SessionInv /\ FactorInv /\ [AuthNext]_authVars => FactorInv'
<1> SUFFICES ASSUME SessionInv, FactorInv, [AuthNext]_authVars PROVE FactorInv'
    OBVIOUS
<1>a. AuthTypeOK
    BY DEF SessionInv
<1>1. CASE ClockStep \/ UNCHANGED authVars
    BY <1>1, FactorLeft DEF ClockStep, authVars, SameFactor, AtDecision
<1>2. ASSUME NEW h \in Handlers, NEW op \in Operations, handler' = [handler EXCEPT ![h] = [op |-> op, pc |-> "select"]],
             UNCHANGED <<account, accepted, made, proven, raced>>
      PROVE  FactorInv'
    <2>1. /\ handler'[h] = [op |-> op, pc |-> "select"] /\ handler'[h].op = op /\ handler'[h].pc = "select"
          /\ \A g \in Handlers : g # h => handler'[g] = handler[g]
        BY <1>a, <1>2 DEF AuthTypeOK
    <2>3. \A g \in Handlers : AtDecision(g)' => AtDecision(g) /\ handler'[g] = handler[g]
        BY <2>1 DEF AtDecision
    <2> QED BY <1>2, <2>3, FactorLeft DEF SameFactor
<1>3. ASSUME NEW h \in Handlers, BeginLogin(h) PROVE FactorInv'
    BY <1>2, <1>3 DEF BeginLogin, Operations
<1>4. ASSUME NEW h \in Handlers, NEW op \in {"change_password", "totp_setup", "totp_enable", "totp_disable", "sensitive_verify"},
             BeginManaged(h, op)
      PROVE  FactorInv'
    BY <1>2, <1>4 DEF BeginManaged, Operations
<1>5. ASSUME NEW h \in Handlers, SelectRow(h) PROVE FactorInv'
    <2>1. /\ handler'[h].op = handler[h].op /\ handler'[h].row = account
          /\ \A g \in Handlers : g # h => handler'[g] = handler[g]
        BY <1>a, <1>5 DEF SelectRow, AuthTypeOK
    <2> QED BY <1>5, <2>1, FactorLeft DEF SelectRow, SameFactor, AtDecision
<1>6. ASSUME NEW h \in Handlers, Finish(h), SameFactor, UNCHANGED <<accepted, made, proven, raced>> PROVE FactorInv'
    BY <1>a, <1>6, FinishLeaves, FactorLeft DEF AtDecision
<1>7. ASSUME NEW h \in Handlers, Refused(h) \/ LoginWithoutCode(h) PROVE FactorInv'
    BY <1>6, <1>7 DEF Refused, LoginWithoutCode, SameFactor
<1>8. ASSUME NEW h \in Handlers, LoginWithCode(h) PROVE FactorInv'
    <2>1. PICK code \in Codes : /\ account' = [account EXCEPT !.last = code.step] /\ Accept(code)
                                /\ totp_verify(handler[h].row.secret, code) /\ ConsumeStep(code)
        BY <1>8 DEF LoginWithCode
    <2>2. AtDecision(h) /\ Finish(h) /\ UNCHANGED <<made, proven, raced>> /\ handler[h].row.totp
        BY <1>8 DEF LoginWithCode, Deciding, AtDecision
    <2> QED BY <1>a, <2>1, <2>2, FactorCode
<1>9. ASSUME NEW h \in Handlers, sensitive_verify(h) PROVE FactorInv'
    <2>1. AtDecision(h) /\ Finish(h) /\ UNCHANGED <<made, proven, raced>>
        BY <1>9 DEF sensitive_verify, Deciding, AtDecision
    <2>2. CASE handler[h].row.totp
        <3>1. PICK code \in Codes : /\ account' = [account EXCEPT !.last = code.step] /\ Accept(code)
                                    /\ totp_verify(handler[h].row.secret, code) /\ ConsumeStep(code)
            BY <1>9, <2>2 DEF sensitive_verify
        <3> QED BY <1>a, <2>1, <2>2, <3>1, FactorCode
    <2>3. CASE ~handler[h].row.totp
        BY <1>6, <1>9, <2>1, <2>3 DEF sensitive_verify, SameFactor
    <2> QED BY <2>2, <2>3
<1>10. ASSUME NEW h \in Handlers, change_password(h) PROVE FactorInv'
    <2>1. SameFactor
        BY <1>a, <1>10 DEF change_password, SameFactor, AuthTypeOK, AccountRows
    <2> QED BY <1>6, <1>10, <2>1 DEF change_password
<1> QED BY <1>a, <1>1, <1>3, <1>4, <1>5, <1>7, <1>8, <1>9, <1>10, SetupFactor, EnableFactor, DisableFactor DEF AuthNext

\* However many handlers log in and change the account at once: sessions end with the password
\* and the factor they were made by; a code is taken once, and the second factor is never on with a
\* secret of which no code was shown, but for a secret that totp_enable turned on although the row
\* had changed since it was read (auth/mod.rs).
THEOREM AccountIsSound == AuthSpec => []AccountSound
<1>1. SessionInv /\ FactorInv => AccountSound
    BY DEF SessionInv, FactorInv, AccountSound, TokensFollow, SessionsFollowCredentials, current_username, StepsTaken, CodeOnce
<1> QED BY <1>1, SessionStarts, FactorStarts, SessionStep, FactorStep, PTL DEF AuthSpec

-----------------------------------------------------------------------------
(* The catalogue and its snapshot.                                           *)

\* The hash of a key is the number of the write that made it.
Numbered == \A i \in Keys : db[i].secret <= writes

\* The reload of w has read the table of i; it will put the row of i in place as it now is.
HasRead(w, i) == \E j \in 1 .. 3 : j < writer[w].table /\ i \in TableOrder[j]
Brings(w, i) == w \in Loading(writer) /\ (HasRead(w, i) => writer[w].copy[i] = db[i])

\* The row of i in the snapshot is old, or would be after a reload that no other has overtaken.
Lags(i) == cache[i] # db[i] \/ \E v \in Loading(writer) : v \notin overtaken /\ ~Brings(v, i)

\* Without an excuse the row that was written is on its way whenever the snapshot lags.
SnapshotFollows == excuse = {} => \A i \in Ids : Lags(i) => \E w \in Writers : Brings(w, i)

CatalogInv == CatalogTypeOK /\ Numbered /\ SnapshotFollows

\* What the step does to the hashes of keys.
HashesForward == \A i \in Keys : db[i].exists /\ db'[i].exists => db'[i].secret >= db[i].secret

\* The three tables that a reload reads, in their order.
LEMMA CatalogTables ==
    /\ Len(TableOrder) = 3 /\ TableOrder[1] = Keys /\ TableOrder[2] = Channels /\ TableOrder[3] = Proxies
    /\ MaxWrites \in Nat /\ IsFiniteSet(Writers)
    /\ \A j \in 1 .. 3 : TableOrder[j] \subseteq Ids
  BY CatalogAssumption DEF TableOrder, Ids

\* What a writer holds while it reloads or has fetched a row.
LEMMA WriterIs ==
    ASSUME CatalogTypeOK, NEW w \in Writers
    PROVE  /\ writer[w].pc = "load" => /\ writer[w].table \in 1 .. 4 /\ writer[w].copy \in [Ids -> CatalogRows]
                                       /\ writer[w].clears \subseteq Ids
           /\ writer[w].pc = "fetched" => writer[w].id \in Ids /\ writer[w].row \in CatalogRows
<1>1. writer[w] \in {WriterIdle} \cup [pc : {"fetched"}, id : Ids, row : CatalogRows]
                      \cup [pc : {"load"}, table : 1 .. 4, copy : [Ids -> CatalogRows], clears : SUBSET Ids]
    BY CatalogTables DEF CatalogTypeOK
<1>2. CASE writer[w] = WriterIdle
    BY <1>2 DEF WriterIdle
<1>3. CASE writer[w] \in [pc : {"fetched"}, id : Ids, row : CatalogRows]
    BY <1>3
<1>4. CASE writer[w] \in [pc : {"load"}, table : 1 .. 4, copy : [Ids -> CatalogRows], clears : SUBSET Ids]
    BY <1>4
<1> QED BY <1>1, <1>2, <1>3, <1>4

\* What a reload brings it still brings as long as neither it nor the row moves.
LEMMA BringsStays ==
    ASSUME NEW v \in Writers, NEW i, writer'[v] = writer[v], db'[i] = db[i]
    PROVE  Brings(v, i)' <=> Brings(v, i)
  BY DEF Brings, HasRead, Loading

\* A row lags no more than before if every reload brings what it brought, and a new one too.
LEMMA LagStays ==
    ASSUME NEW i, cache'[i] = cache[i], db'[i] = db[i],
           \A v \in Writers : Brings(v, i) => Brings(v, i)',
           \A v \in Loading(writer') : \/ v \in Loading(writer) /\ (v \in overtaken => v \in overtaken')
                                       \/ Brings(v, i)',
           Lags(i) => \E w \in Writers : Brings(w, i)
    PROVE  Lags(i)' => \E w \in Writers : Brings(w, i)'
<1> SUFFICES ASSUME Lags(i)' PROVE \E w \in Writers : Brings(w, i)'
    OBVIOUS
<1>1. CASE cache'[i] # db'[i]
    BY <1>1 DEF Lags
<1>2. ASSUME NEW v \in Loading(writer'), v \notin overtaken', ~Brings(v, i)' PROVE \E w \in Writers : Brings(w, i)'
    <2>1. v \in Loading(writer) /\ v \notin overtaken /\ v \in Writers
        BY <1>2 DEF Loading
    <2>2. ~Brings(v, i)
        BY <1>2, <2>1
    <2> QED BY <2>1, <2>2 DEF Lags
<1> QED BY <1>1, <1>2 DEF Lags

\* A reload begins: the state of the writer, and what it will bring.
LEMMA LoadBegins ==
    ASSUME CatalogTypeOK, NEW w \in Writers, writer[w].pc # "load", NEW clears \in SUBSET Ids, writer' = Loads(w, clears)
    PROVE  /\ writer' \in [Writers -> {WriterIdle} \cup [pc : {"fetched"}, id : Ids, row : CatalogRows]
                  \cup [pc : {"load"}, table : 1 .. Len(TableOrder) + 1, copy : [Ids -> CatalogRows], clears : SUBSET Ids]]
           /\ Loading(writer') = Loading(writer) \cup {w}
           /\ \A v \in Writers : v # w => writer'[v] = writer[v]
           /\ \A i \in Ids : Brings(w, i)'
<1>1. NothingRead \in [Ids -> CatalogRows]
    BY CatalogTables DEF NothingRead, CatalogRows, NoRow
<1>2. PICK s \in [pc : {"load"}, table : 1 .. 4, copy : [Ids -> CatalogRows], clears : SUBSET Ids] :
          s = [pc |-> "load", table |-> 1, copy |-> NothingRead, clears |-> clears] /\ s.pc = "load" /\ s.table = 1
    <2>1. [pc |-> "load", table |-> 1, copy |-> NothingRead, clears |-> clears]
              \in [pc : {"load"}, table : 1 .. 4, copy : [Ids -> CatalogRows], clears : SUBSET Ids]
        BY <1>1
    <2> QED BY <2>1
<1>3. writer' = [writer EXCEPT ![w] = s]
    BY <1>2 DEF Loads
<1>4. writer' \in [Writers -> {WriterIdle} \cup [pc : {"fetched"}, id : Ids, row : CatalogRows]
                  \cup [pc : {"load"}, table : 1 .. Len(TableOrder) + 1, copy : [Ids -> CatalogRows], clears : SUBSET Ids]]
    BY <1>3, CatalogTables DEF CatalogTypeOK
<1>5. writer'[w] = s /\ \A v \in Writers : v # w => writer'[v] = writer[v]
    BY <1>3 DEF CatalogTypeOK
<1>6. Loading(writer') = Loading(writer) \cup {w}
    BY <1>2, <1>5 DEF Loading
<1>7. \A i \in Ids : Brings(w, i)'
    BY <1>2, <1>5, <1>6 DEF Brings, HasRead
<1> QED BY <1>4, <1>5, <1>6, <1>7

\* What was on its way still is when a reload begins.
LEMMA LagsAtStart ==
    ASSUME CatalogTypeOK, SnapshotFollows, NEW w \in Writers, writer[w].pc # "load", NEW clears \in SUBSET Ids,
           writer' = Loads(w, clears), UNCHANGED <<cache, overtaken, excuse>>,
           NEW i \in Ids, db'[i] = db[i], excuse = {}
    PROVE  Lags(i)' => \E v \in Writers : Brings(v, i)'
<1>1. ASSUME NEW v \in Writers PROVE Brings(v, i) => Brings(v, i)'
    BY BringsStays, LoadBegins
<1>2. ASSUME NEW v \in Loading(writer') PROVE v \in Loading(writer) \/ Brings(v, i)'
    BY <1>2, LoadBegins
<1> QED BY <1>1, <1>2, LagStays DEF SnapshotFollows

\* A write and the reload that it begins.
LEMMA WriteStep ==
    ASSUME CatalogInv, NEW w \in Writers, NEW i \in Ids, NEW row \in CatalogRows, NEW clears \in SUBSET Ids,
           writer[w].pc # "load", writes < MaxWrites, Written(w, i, row, clears), memory' \subseteq memory,
           i \in Keys => /\ row.secret <= writes + 1
                         /\ db[i].exists /\ row.exists => row.secret >= db[i].secret
    PROVE  CatalogInv' /\ HashesForward
<1>0. CatalogTypeOK
    BY DEF CatalogInv
<1>1. /\ db' = [db EXCEPT ![i] = row] /\ writes' = writes + 1 /\ cache' = cache
      /\ writer' = Loads(w, clears) /\ UNCHANGED <<overtaken, excuse>>
    BY DEF Written
<1>2. writes \in Nat /\ writes' \in 0 .. MaxWrites /\ \A k \in Ids : db[k].secret \in Nat
    BY <1>0, <1>1, CatalogTables DEF CatalogTypeOK, CatalogRows
<1>3. db' \in [Ids -> CatalogRows] /\ db'[i] = row /\ \A k \in Ids : k # i => db'[k] = db[k]
    BY <1>0, <1>1 DEF CatalogTypeOK
<1>4. CatalogTypeOK'
    BY <1>0, <1>1, <1>2, <1>3, LoadBegins DEF CatalogTypeOK
<1>5. Numbered'
    <2> SUFFICES ASSUME NEW k \in Keys PROVE db'[k].secret <= writes + 1
        BY <1>1 DEF Numbered
    <2>1. k \in Ids /\ db[k].secret <= writes
        BY DEF Ids, CatalogInv, Numbered
    <2> QED BY <1>2, <1>3, <2>1
<1>6. SnapshotFollows'
    <2> SUFFICES ASSUME excuse = {}, NEW k \in Ids, Lags(k)' PROVE \E v \in Writers : Brings(v, k)'
        BY <1>1 DEF SnapshotFollows
    <2>1. CASE k = i
        BY <1>0, <1>1, <2>1, LoadBegins
    <2>2. CASE k # i
        BY <1>0, <1>1, <1>3, <2>2, LagsAtStart DEF CatalogInv
    <2> QED BY <2>1, <2>2
<1>7. HashesForward
    <2> SUFFICES ASSUME NEW k \in Keys, db[k].exists, db'[k].exists PROVE db'[k].secret >= db[k].secret
        BY DEF HashesForward
    <2>1. k \in Ids
        BY DEF Ids
    <2> QED BY <1>2, <1>3, <2>1
<1> QED BY <1>4, <1>5, <1>6, <1>7 DEF CatalogInv

\* The rows that handlers write.
LEMMA RowType ==
    ASSUME NEW s \in 0 .. MaxWrites, NEW on \in BOOLEAN
    PROVE  Row(s, on) \in CatalogRows /\ Row(s, on).secret = s /\ Row(s, on).exists /\ NoRow \in CatalogRows /\ ~NoRow.exists /\ NoRow.secret = 0
  BY CatalogTables DEF Row, NoRow, CatalogRows

\* The secret that a form leaves is an old one, none, or the new one.
LEMMA SecretType ==
    ASSUME CatalogTypeOK, writes < MaxWrites, NEW given \in SecretGiven, NEW old \in 0 .. MaxWrites
    PROVE  secret_semantics(given, old) \in 0 .. MaxWrites
<1>1. given \in {"keep", "clear", "set"} /\ writes + 1 \in 0 .. MaxWrites /\ 0 \in 0 .. MaxWrites
    BY CatalogTables DEF SecretGiven, CatalogTypeOK
<1> QED BY <1>1 DEF secret_semantics

\* An UPDATE of the row that was fetched.
LEMMA UpdateStep ==
    ASSUME CatalogInv, NEW w \in Writers, writer[w].pc = "fetched", writes < MaxWrites,
           NEW row \in CatalogRows, NEW clears \in SUBSET Ids, Updated(w, row, clears), memory' \subseteq memory,
           writer[w].id \in Keys => row.secret <= writes + 1 /\ (db[writer[w].id].exists => row.secret >= db[writer[w].id].secret)
    PROVE  CatalogInv' /\ HashesForward
<1>1. PICK i \in Ids : i = writer[w].id
    BY WriterIs DEF CatalogInv
<1>2. PICK new \in CatalogRows : new = IF db[i].exists THEN row ELSE NoRow
    <2>1. NoRow \in CatalogRows
        BY CatalogTables DEF NoRow, CatalogRows
    <2> QED BY <2>1
<1>3. Written(w, i, new, clears)
    BY <1>1, <1>2 DEF Updated
<1>4. NoRow.secret = 0 /\ writes \in Nat
    BY DEF NoRow, CatalogInv, CatalogTypeOK
<1>5. i \in Keys => /\ new.secret <= writes + 1
                    /\ db[i].exists /\ new.exists => new.secret >= db[i].secret
    BY <1>1, <1>2, <1>4
<1> QED BY <1>3, <1>5, WriteStep

\* The snapshot is loaded before the first handler runs.
LEMMA CatalogStarts == CatalogInit => CatalogInv
<1> SUFFICES ASSUME CatalogInit PROVE CatalogInv
    OBVIOUS
<1>1. PICK r \in CatalogRows : r = Row(0, TRUE) /\ r.secret = 0
    <2>1. 0 \in 0 .. MaxWrites /\ TRUE \in BOOLEAN
        BY CatalogTables
    <2> QED BY <2>1, RowType
<1>2. db = [i \in Ids |-> r] /\ cache = db /\ writer = [w \in Writers |-> WriterIdle] /\ WriterIdle.pc = "idle"
    BY <1>1 DEF CatalogInit, WriterIdle
<1>3. CatalogTypeOK
    <2>1. writes \in 0 .. MaxWrites /\ memory \subseteq Ids /\ overtaken = {} /\ excuse = {}
        BY CatalogTables DEF CatalogInit
    <2>2. db \in [Ids -> CatalogRows] /\ cache \in [Ids -> CatalogRows]
        BY <1>1, <1>2
    <2> QED BY <1>2, <2>1, <2>2 DEF CatalogTypeOK
<1>4. Numbered
    <2>1. ASSUME NEW k \in Keys PROVE db[k].secret = 0
        BY <1>1, <1>2 DEF Ids
    <2>2. writes = 0
        BY DEF CatalogInit
    <2> QED BY <2>1, <2>2 DEF Numbered
<1>5. SnapshotFollows
    <2>1. Loading(writer) = {} /\ cache = db
        BY <1>2 DEF Loading
    <2> QED BY <2>1 DEF SnapshotFollows, Lags
<1> QED BY <1>3, <1>4, <1>5 DEF CatalogInv

\* Steps of a writer that is not reloading and writes nothing.
LEMMA IdleStep ==
    ASSUME CatalogInv, NEW w \in Writers, writer[w].pc # "load", UNCHANGED <<db, cache, writes, overtaken, excuse>>, memory' \subseteq Ids,
           NEW s \in {WriterIdle} \cup [pc : {"fetched"}, id : Ids, row : CatalogRows], writer' = [writer EXCEPT ![w] = s]
    PROVE  CatalogInv' /\ HashesForward
<1>0. CatalogTypeOK
    BY DEF CatalogInv
<1>1. s.pc # "load"
    BY DEF WriterIdle
<1>2. writer'[w] = s /\ \A v \in Writers : v # w => writer'[v] = writer[v]
    BY <1>0 DEF CatalogTypeOK
<1>3. Loading(writer') = Loading(writer) /\ \A v \in Loading(writer) : writer'[v] = writer[v]
    BY <1>1, <1>2 DEF Loading
<1>4. CatalogTypeOK'
    BY <1>0 DEF CatalogTypeOK
<1>5. Numbered' /\ SnapshotFollows'
    <2>1. Numbered'
        BY DEF CatalogInv, Numbered
    <2>2. ASSUME NEW i \in Ids, NEW v \in Writers PROVE Brings(v, i)' <=> Brings(v, i)
        <3>1. CASE v = w
            BY <1>1, <1>2, <3>1 DEF Brings, Loading
        <3>2. CASE v # w
            BY <1>2, <3>2, BringsStays
        <3> QED BY <3>1, <3>2
    <2>3. SnapshotFollows'
        <3> SUFFICES ASSUME excuse = {}, NEW i \in Ids PROVE Lags(i)' => \E v \in Writers : Brings(v, i)'
            BY DEF SnapshotFollows
        <3> QED BY <1>3, <2>2, LagStays DEF CatalogInv, SnapshotFollows
    <2> QED BY <2>1, <2>3
<1>6. HashesForward
    <2>1. \A i \in Keys : db[i].secret \in Nat
        BY <1>0, CatalogTables DEF CatalogTypeOK, CatalogRows, Ids
    <2> QED BY <2>1 DEF HashesForward
<1> QED BY <1>4, <1>5, <1>6 DEF CatalogInv

\* No step of a reload touches the tables.
LEMMA HashesStay ==
    ASSUME CatalogTypeOK, db' = db
    PROVE  HashesForward
<1>1. \A i \in Keys : db[i].secret \in Nat
    BY CatalogTables DEF CatalogTypeOK, CatalogRows, Ids
<1> QED BY <1>1 DEF HashesForward

\* A reload reads its next table.
LEMMA SelectStep ==
    ASSUME CatalogInv, NEW w \in Writers, ReloadSelect(w)
    PROVE  CatalogInv'
<1>0. CatalogTypeOK
    BY DEF CatalogInv
<1>1. PICK t \in 1 .. 3 : t = writer[w].table
    BY <1>0, WriterIs, CatalogTables DEF ReloadSelect
<1>2. PICK copy \in [Ids -> CatalogRows] : copy = writer[w].copy
    BY <1>0, WriterIs DEF ReloadSelect
<1>3. PICK new \in [Ids -> CatalogRows] : new = [i \in Ids |-> IF i \in TableOrder[t] THEN db[i] ELSE copy[i]]
    BY <1>0 DEF CatalogTypeOK
<1>4. writer' = [writer EXCEPT ![w].copy = new, ![w].table = t + 1]
    BY <1>1, <1>2, <1>3 DEF ReloadSelect
<1>5. writer[w] \in [pc : {"load"}, table : 1 .. 4, copy : [Ids -> CatalogRows], clears : SUBSET Ids]
    BY <1>0, CatalogTables DEF CatalogTypeOK, ReloadSelect, WriterIdle
<1>6. /\ writer'[w] \in [pc : {"load"}, table : 1 .. 4, copy : [Ids -> CatalogRows], clears : SUBSET Ids]
      /\ writer'[w].copy = new /\ writer'[w].table = t + 1 /\ writer'[w].pc = "load"
      /\ \A v \in Writers : v # w => writer'[v] = writer[v]
    <2>1. PICK r : r = writer[w]
        OBVIOUS
    <2>2. writer' = [writer EXCEPT ![w] = [r EXCEPT !.copy = new, !.table = t + 1]]
        BY <1>0, <1>4, <2>1 DEF CatalogTypeOK
    <2>3. PICK q : /\ q = [r EXCEPT !.copy = new, !.table = t + 1] /\ q.copy = new /\ q.table = t + 1 /\ q.pc = "load"
                   /\ q \in [pc : {"load"}, table : 1 .. 4, copy : [Ids -> CatalogRows], clears : SUBSET Ids]
        <3>1. PICK n \in 1 .. 4 : n = t + 1
            OBVIOUS
        <3>2. [r EXCEPT !.copy = new, !.table = n] \in [pc : {"load"}, table : 1 .. 4, copy : [Ids -> CatalogRows], clears : SUBSET Ids]
            BY <1>5, <2>1
        <3>3. /\ [r EXCEPT !.copy = new, !.table = n].copy = new /\ [r EXCEPT !.copy = new, !.table = n].table = n
              /\ [r EXCEPT !.copy = new, !.table = n].pc = "load"
            BY <1>5, <2>1
        <3> QED BY <3>1, <3>2, <3>3
    <2> QED BY <1>0, <2>2, <2>3 DEF CatalogTypeOK
<1>7. UNCHANGED <<db, cache, writes, memory, overtaken, excuse>>
    BY DEF ReloadSelect
<1>8. CatalogTypeOK'
    <2>1. writer' = [v \in Writers |-> IF v = w THEN writer'[w] ELSE writer[v]]
        BY <1>0, <1>4 DEF CatalogTypeOK
    <2> QED BY <1>0, <1>6, <1>7, <2>1, CatalogTables DEF CatalogTypeOK
<1>9. Loading(writer') = Loading(writer) /\ w \in Loading(writer)
    BY <1>6 DEF Loading, ReloadSelect
<1>10. Numbered'
    BY <1>7 DEF CatalogInv, Numbered
<1>11. ASSUME NEW i \in Ids, Brings(w, i) PROVE Brings(w, i)'
    <2>1. CASE i \in TableOrder[t]
        BY <1>3, <1>6, <1>7, <1>9, <2>1 DEF Brings
    <2>2. CASE i \notin TableOrder[t]
        <3>1. HasRead(w, i)' => HasRead(w, i)
            BY <1>1, <1>6, <2>2 DEF HasRead
        <3>2. new[i] = copy[i]
            BY <1>3, <2>2
        <3> QED BY <1>2, <1>6, <1>7, <1>9, <1>11, <3>1, <3>2 DEF Brings
    <2> QED BY <2>1, <2>2
<1>12. SnapshotFollows'
    <2> SUFFICES ASSUME excuse = {}, NEW i \in Ids PROVE Lags(i)' => \E v \in Writers : Brings(v, i)'
        BY <1>7 DEF SnapshotFollows
    <2>1. \A v \in Writers : Brings(v, i) => Brings(v, i)'
        BY <1>6, <1>7, <1>11, BringsStays
    <2> QED BY <1>7, <1>9, <2>1, LagStays DEF CatalogInv, SnapshotFollows
<1> QED BY <1>8, <1>10, <1>12 DEF CatalogInv

\* A reload that ends, by putting its copy in place or by failing.
LEMMA LoadEnds ==
    ASSUME CatalogInv, NEW w \in Writers, ReloadInstall(w) \/ ReloadFails(w)
    PROVE  CatalogInv'
<1>0. CatalogTypeOK
    BY DEF CatalogInv
<1>1. /\ w \in Loading(writer) /\ writer' = [writer EXCEPT ![w] = WriterIdle] /\ db' = db /\ writes' = writes
      /\ memory' \subseteq memory /\ WriterIdle.pc = "idle"
    BY DEF ReloadInstall, ReloadFails, Loading, AfterReload, WriterIdle
<1>2. Loading(writer') = Loading(writer) \ {w} /\ \A v \in Loading(writer') : writer'[v] = writer[v]
    BY <1>0, <1>1 DEF CatalogTypeOK, Loading
<1>3. cache' \in [Ids -> CatalogRows]
    BY <1>0, WriterIs DEF ReloadInstall, ReloadFails, CatalogTypeOK
<1>4. CatalogTypeOK'
    <2>1. overtaken' \subseteq Writers
        BY <1>0 DEF CatalogTypeOK, ReloadInstall, ReloadFails, Loading
    <2>2. excuse' \subseteq {"overtaken", "failed"}
        <3>1. \/ excuse' = {} \/ excuse' = excuse \/ excuse' = excuse \cup {"overtaken"} \/ excuse' = excuse \cup {"failed"}
            BY DEF ReloadInstall, ReloadFails
        <3> QED BY <1>0, <3>1 DEF CatalogTypeOK
    <2>3. memory' \subseteq Ids /\ db' \in [Ids -> CatalogRows] /\ writes' \in 0 .. MaxWrites
        BY <1>0, <1>1 DEF CatalogTypeOK
    <2> QED BY <1>0, <1>1, <1>3, <2>1, <2>2, <2>3 DEF CatalogTypeOK
<1>5. Numbered'
    BY <1>1 DEF CatalogInv, Numbered
<1>6. CASE ReloadFails(w)
    BY <1>4, <1>5, <1>6 DEF CatalogInv, SnapshotFollows, ReloadFails
<1>7. CASE ReloadInstall(w)
    <2> SUFFICES ASSUME excuse' = {}, NEW i \in Ids, Lags(i)' PROVE \E v \in Writers : Brings(v, i)'
        BY <1>4, <1>5 DEF CatalogInv, SnapshotFollows
    <2>1. overtaken' = Loading(writer') /\ cache' = writer[w].copy
        BY <1>7 DEF ReloadInstall
    <2>2. writer[w].copy[i] # db[i]
        BY <1>1, <2>1 DEF Lags
    <2>3. cache' # db
        BY <2>1, <2>2
    <2>4. excuse = {} /\ w \notin overtaken
        BY <1>7, <2>3 DEF ReloadInstall
    <2>5. HasRead(w, i)
        BY <1>0, <1>7, WriterIs, CatalogTables DEF ReloadInstall, HasRead, Ids
    <2>6. Lags(i)
        BY <1>1, <2>2, <2>4, <2>5 DEF Lags, Brings
    <2>7. PICK u \in Writers : Brings(u, i)
        BY <2>4, <2>6 DEF CatalogInv, SnapshotFollows
    <2>8. u # w
        BY <2>2, <2>5, <2>7 DEF Brings
    <2>9. writer'[u] = writer[u]
        BY <1>0, <1>1, <2>8 DEF CatalogTypeOK
    <2> QED BY <1>1, <2>7, <2>9, BringsStays
<1> QED BY <1>6, <1>7

\* Every step keeps the snapshot explained.
LEMMA CatalogStep ==
    ASSUME CatalogInv, [CatalogNext]_catalogVars
    PROVE  CatalogInv' /\ HashesForward
<1>0. CatalogTypeOK /\ writes \in Nat
    BY DEF CatalogInv, CatalogTypeOK
<1>k. \A k \in Keys : k \in Ids /\ db[k].secret \in 0 .. MaxWrites /\ db[k].secret <= writes /\ k \notin Channels /\ k \notin Proxies
    BY CatalogAssumption DEF CatalogInv, CatalogTypeOK, CatalogRows, Numbered, Ids
<1>1. CASE UNCHANGED catalogVars
    <2>1. CatalogInv'
        BY <1>1 DEF catalogVars, CatalogInv, CatalogTypeOK, Numbered, SnapshotFollows, Lags, Brings, HasRead
    <2> QED BY <1>0, <1>1, <2>1, HashesStay DEF catalogVars
<1>2. ASSUME NEW i \in Ids, RequestUses(i) PROVE CatalogInv' /\ HashesForward
    <2>1. CatalogInv'
        BY <1>2 DEF RequestUses, CatalogInv, CatalogTypeOK, Numbered, SnapshotFollows, Lags, Brings, HasRead
    <2> QED BY <1>0, <1>2, <2>1, HashesStay DEF RequestUses
<1>3. ASSUME NEW w \in Writers, TaskReloads(w) PROVE CatalogInv' /\ HashesForward
    <2>1. /\ writer[w].pc # "load" /\ writer' = Loads(w, {}) /\ UNCHANGED <<db, cache, writes, memory, overtaken, excuse>>
          /\ {} \in SUBSET Ids
        BY <1>3 DEF TaskReloads, Starts
    <2>2. CatalogTypeOK'
        BY <1>0, <2>1, LoadBegins DEF CatalogTypeOK
    <2>3. SnapshotFollows'
        BY <1>0, <2>1, LagsAtStart DEF CatalogInv, SnapshotFollows
    <2>4. Numbered'
        BY <2>1 DEF CatalogInv, Numbered
    <2> QED BY <1>0, <2>1, <2>2, <2>3, <2>4, HashesStay DEF CatalogInv
<1>4. ASSUME NEW w \in Writers, ReloadSelect(w) PROVE CatalogInv' /\ HashesForward
    BY <1>0, <1>4, SelectStep, HashesStay DEF ReloadSelect
<1>5. ASSUME NEW w \in Writers, ReloadInstall(w) \/ ReloadFails(w) PROVE CatalogInv' /\ HashesForward
    BY <1>0, <1>5, LoadEnds, HashesStay DEF ReloadInstall, ReloadFails
<1>6. ASSUME NEW w \in Writers, validate_key_limits(w) \/ validate_upstream(w) \/ validate_proxy(w)
      PROVE  CatalogInv' /\ HashesForward
    BY <1>0, <1>6, IdleStep DEF validate_key_limits, validate_upstream, validate_proxy, RequestInvalid, CatalogTypeOK
<1>7. ASSUME NEW w \in Writers, NEW i \in Ids, fetch_row(w, i) PROVE CatalogInv' /\ HashesForward
    <2>1. PICK s \in [pc : {"fetched"}, id : Ids, row : CatalogRows] : s = [pc |-> "fetched", id |-> i, row |-> db[i]]
        <3>1. db[i] \in CatalogRows
            BY <1>0 DEF CatalogTypeOK
        <3>2. [pc |-> "fetched", id |-> i, row |-> db[i]] \in [pc : {"fetched"}, id : Ids, row : CatalogRows]
            BY <3>1
        <3> QED BY <3>2
    <2> QED BY <1>0, <1>7, <2>1, IdleStep DEF fetch_row, Starts, CatalogTypeOK
<1>8. ASSUME NEW w \in Writers, update_key(w) PROVE CatalogInv' /\ HashesForward
    <2>1. PICK i \in Keys : i = writer[w].id
        BY <1>8 DEF update_key, Fetched
    <2>2. PICK on \in BOOLEAN : Updated(w, Row(db[i].secret, on), {})
        BY <1>8, <2>1 DEF update_key
    <2>3. PICK row \in CatalogRows : row = Row(db[i].secret, on) /\ row.secret = db[i].secret
        BY <1>k, RowType
    <2>4. row.secret <= writes + 1 /\ row.secret >= db[i].secret
        BY <1>0, <1>k, <2>3, CatalogTables
    <2>5. writer[w].pc = "fetched" /\ writes < MaxWrites /\ memory' = memory /\ {} \in SUBSET Ids
        BY <1>8 DEF update_key, Fetched
    <2> QED BY <2>1, <2>2, <2>3, <2>4, <2>5, UpdateStep
<1>9. ASSUME NEW w \in Writers, rotate_key(w) PROVE CatalogInv' /\ HashesForward
    <2>1. PICK i \in Keys : i = writer[w].id /\ writes < MaxWrites /\ writer[w].pc = "fetched"
        BY <1>9 DEF rotate_key, Fetched
    <2>2. PICK on \in BOOLEAN : on = db[i].enabled
        BY <1>0, <1>k DEF CatalogTypeOK, CatalogRows
    <2>3. PICK n \in 0 .. MaxWrites : n = writes + 1
        BY <1>0, <2>1, CatalogTables
    <2>4. PICK row \in CatalogRows : row = Row(n, on) /\ row.secret = n
        BY RowType
    <2>5. Updated(w, row, {}) /\ memory' = memory /\ {} \in SUBSET Ids
        BY <1>9, <2>1, <2>2, <2>3, <2>4 DEF rotate_key
    <2>6. row.secret <= writes + 1 /\ row.secret >= db[i].secret
        BY <1>0, <1>k, <2>3, <2>4, CatalogTables
    <2> QED BY <2>1, <2>5, <2>6, UpdateStep
<1>10. ASSUME NEW w \in Writers, update_upstream(w) \/ update_proxy(w) PROVE CatalogInv' /\ HashesForward
    <2>1. writer[w].id \notin Keys /\ writer[w].pc = "fetched" /\ writes < MaxWrites /\ memory' = memory
        BY <1>k, <1>10 DEF update_upstream, update_proxy, Fetched
    <2>2. PICK given \in SecretGiven, told \in BOOLEAN, on \in BOOLEAN :
              Updated(w, FullRow(w, given, told, on), {}) \/ Updated(w, FullRow(w, given, told, on), {writer[w].id})
        BY <1>10 DEF update_upstream, update_proxy
    <2>3. writer[w].id \in Ids /\ writer[w].row.secret \in 0 .. MaxWrites /\ writer[w].row.enabled \in BOOLEAN
        BY <1>0, <2>1, WriterIs DEF CatalogRows
    <2>4. PICK s \in 0 .. MaxWrites : s = secret_semantics(given, writer[w].row.secret)
        BY <1>0, <2>1, <2>3, SecretType
    <2>5. PICK e \in BOOLEAN : e = IF told THEN on ELSE writer[w].row.enabled
        BY <2>3
    <2>6. FullRow(w, given, told, on) \in CatalogRows
        BY <2>4, <2>5, RowType DEF FullRow
    <2>7. {} \in SUBSET Ids /\ {writer[w].id} \in SUBSET Ids
        BY <2>3
    <2> QED BY <2>1, <2>2, <2>6, <2>7, UpdateStep
<1>11. ASSUME NEW w \in Writers, devin_reauth(w) PROVE CatalogInv' /\ HashesForward
    <2>1. /\ writer[w].id \notin Keys /\ writer[w].pc = "fetched" /\ writes < MaxWrites /\ memory' \subseteq memory
          /\ writer[w].id \in Ids
        BY <1>k, <1>11 DEF devin_reauth, Fetched, Ids
    <2>2. PICK on \in BOOLEAN : on = db[writer[w].id].enabled
        BY <1>0, <2>1 DEF CatalogTypeOK, CatalogRows
    <2>3. PICK n \in 0 .. MaxWrites : n = writes + 1
        BY <1>0, <2>1, CatalogTables
    <2>4. PICK row \in CatalogRows : row = Row(n, on)
        BY RowType
    <2>5. Updated(w, row, {}) /\ {} \in SUBSET Ids
        BY <1>11, <2>2, <2>3, <2>4 DEF devin_reauth
    <2> QED BY <2>1, <2>5, UpdateStep
<1>12. ASSUME NEW w \in Writers, NEW i \in Ids, create_key(w, i) PROVE CatalogInv' /\ HashesForward
    <2>1. writer[w].pc # "load" /\ writes < MaxWrites /\ ~db[i].exists /\ memory' = memory /\ {} \in SUBSET Ids
        BY <1>12 DEF create_key, MayCreate, Starts
    <2>2. PICK n \in 0 .. MaxWrites : n = writes + 1
        BY <1>0, <2>1, CatalogTables
    <2>3. PICK row \in CatalogRows : row = Row(n, TRUE) /\ row.secret = n
        BY RowType
    <2>4. Written(w, i, row, {}) /\ row.secret <= writes + 1
        <3>1. Written(w, i, Row(writes + 1, TRUE), {})
            BY <1>12 DEF create_key
        <3>2. n <= n
            BY CatalogTables
        <3> QED BY <2>2, <2>3, <3>1, <3>2
    <2> QED BY <2>1, <2>4, WriteStep
<1>13. ASSUME NEW w \in Writers, NEW i \in Ids, create_upstream(w, i) \/ create_proxy(w, i) PROVE CatalogInv' /\ HashesForward
    <2>1. writer[w].pc # "load" /\ writes < MaxWrites /\ i \notin Keys /\ memory' = memory /\ {} \in SUBSET Ids
        BY <1>k, <1>13 DEF create_upstream, create_proxy, MayCreate, Starts
    <2>2. PICK given \in SecretGiven, on \in BOOLEAN : Written(w, i, Row(secret_semantics(given, 0), on), {})
        BY <1>13 DEF create_upstream, create_proxy
    <2>3. PICK s \in 0 .. MaxWrites : s = secret_semantics(given, 0)
        BY <1>0, <2>1, SecretType, CatalogTables
    <2>4. PICK row \in CatalogRows : row = Row(s, on)
        BY RowType
    <2> QED BY <2>1, <2>2, <2>3, <2>4, WriteStep
<1>14. ASSUME NEW w \in Writers, NEW i \in Ids, delete_key(w, i) \/ delete_upstream(w, i) \/ delete_proxy(w, i)
       PROVE  CatalogInv' /\ HashesForward
    <2>1. writer[w].pc # "load" /\ writes < MaxWrites /\ memory' \subseteq memory /\ {} \in SUBSET Ids /\ {i} \in SUBSET Ids
        BY <1>14 DEF delete_key, delete_upstream, delete_proxy, MayDelete, Starts
    <2>2. NoRow \in CatalogRows /\ ~NoRow.exists /\ NoRow.secret = 0
        BY CatalogTables DEF NoRow, CatalogRows
    <2>3. Written(w, i, NoRow, {}) \/ Written(w, i, NoRow, {i})
        BY <1>14 DEF delete_key, delete_upstream, delete_proxy
    <2>4. PICK row \in CatalogRows : row = NoRow /\ ~row.exists /\ row.secret <= writes + 1
        BY <1>0, <2>2
    <2> QED BY <2>1, <2>3, <2>4, WriteStep
<1> QED BY <1>1, <1>2, <1>3, <1>4, <1>5, <1>6, <1>7, <1>8, <1>9, <1>10, <1>11, <1>12, <1>13, <1>14 DEF CatalogNext

\* However administrators and tasks interleave and their reloads overlap: at rest the snapshot is
\* what the tables hold, unless a reload failed or one that was overtaken put old rows back.
THEOREM CatalogIsSound == CatalogSpec => [](CatalogTypeOK /\ StaleExplained)
<1>1. CatalogInv => CatalogTypeOK /\ StaleExplained
    <2> SUFFICES ASSUME CatalogInv, Busy(writer) = {}, excuse = {} PROVE cache = db
        BY DEF CatalogInv, StaleExplained
    <2>1. \A w \in Writers : writer[w].pc = "idle"
        BY DEF Busy
    <2>2. ASSUME NEW i \in Ids PROVE cache[i] = db[i]
        BY <2>1 DEF CatalogInv, SnapshotFollows, Lags, Brings, Loading
    <2> QED BY <2>2 DEF CatalogInv, CatalogTypeOK
<1>2. CatalogInv /\ [CatalogNext]_catalogVars => CatalogInv'
    BY CatalogStep
<1> QED BY <1>1, <1>2, CatalogStarts, PTL DEF CatalogSpec

\* No update of the other columns of a key, in flight while the key is rotated, brings an old
\* hash back.
THEOREM RotationIsKept == CatalogSpec => RotationHolds
<1>1. CatalogInv /\ [CatalogNext]_catalogVars => CatalogInv'
    BY CatalogStep
<1>2. CatalogInv /\ [CatalogNext]_catalogVars
        => [\A i \in Keys : db[i].exists /\ db'[i].exists => db'[i].secret >= db[i].secret]_catalogVars
    BY CatalogStep DEF HashesForward
<1> QED BY <1>1, <1>2, CatalogStarts, PTL DEF CatalogSpec, RotationHolds

-----------------------------------------------------------------------------
(* The table of routes.                                                      *)

\* An editor that holds the upstream's own routes.
HasOwn(e) == editor[e].op \in {"sync_others", "sync_write"}

\* Ids are handed out once: a route that has the id of one that was read is that one.
IdsKnown ==
    /\ \A r \in routes : r.id <= ids /\ \A s \in routes : s.id = r.id => s = r
    /\ \A e \in Editors : HasOwn(e) => \A o \in editor[e].own : o.id <= ids /\ \A r \in routes : r.id = o.id => r = o

\* What an undisturbed synchronisation has read is still so.
Knows(e) ==
    /\ HasOwn(e) => editor[e].up \in known /\ editor[e].own = {r \in routes : r.up = editor[e].up}
    /\ editor[e].op = "sync_write" => editor[e].others = Patterns({r \in routes : r.up # editor[e].up})

UntouchedKnows == \A e \in Editors \ touched : Knows(e)

Aliasing == {e \in Editors : editor[e].op \in {"alias_chain", "alias_write"}}

\* Every alias was made by an operation, and the handlers in flight are others.
AliasesCounted == IsFiniteSet(aliases) /\ Cardinality(aliases) + Cardinality(Aliasing) <= begun

RouteInv == RouteTypeOK /\ IdsKnown /\ UntouchedKnows /\ AliasesCounted

\* The bounds as numbers.
LEMMA RouteNats ==
    /\ IsFiniteSet(ModelNames) /\ IsFiniteSet(Editors)
    /\ MaxRouteIds \in Nat /\ MaxOperations \in Nat
  BY RouteAssumption

\* What an editor holds at each of its places.
LEMMA EditorIs ==
    ASSUME NEW s \in EditorStates
    PROVE  /\ s.op = "sync_own" => s.up \in SyncUpstreams /\ s.desired \subseteq ModelNames
           /\ s.op = "sync_others" => s.up \in SyncUpstreams /\ s.desired \subseteq ModelNames /\ s.own \subseteq RouteRows
           /\ s.op = "sync_write" => /\ s.up \in SyncUpstreams /\ s.desired \subseteq ModelNames /\ s.own \subseteq RouteRows
                                     /\ s.others \subseteq ModelNames
           /\ s.op = "add" => s.up \in SyncUpstreams /\ s.models \subseteq ModelNames
           /\ s.op = "replace" => s.up \in SyncUpstreams /\ s.auto \subseteq ModelNames /\ s.manual \subseteq ModelNames
           /\ s.op \in {"alias_chain", "alias_write"} =>
                  /\ s \in [op : {"alias_chain", "alias_write"}, id : 0 .. 2 * MaxOperations, alias : ModelNames, model : ModelNames]
                  /\ s.id \in 0 .. 2 * MaxOperations /\ s.alias \in ModelNames /\ s.model \in ModelNames
<1>1. CASE s = EditorIdle
    BY <1>1 DEF EditorIdle
<1>2. CASE s \in [op : {"sync_own"}, up : SyncUpstreams, desired : SUBSET ModelNames]
    BY <1>2
<1>3. CASE s \in [op : {"sync_others"}, up : SyncUpstreams, desired : SUBSET ModelNames, own : SUBSET RouteRows]
    BY <1>3
<1>4. CASE s \in [op : {"sync_write"}, up : SyncUpstreams, desired : SUBSET ModelNames, own : SUBSET RouteRows,
                  others : SUBSET ModelNames]
    BY <1>4
<1>5. CASE s \in [op : {"add"}, up : SyncUpstreams, models : SUBSET ModelNames]
    BY <1>5
<1>6. CASE s \in [op : {"replace"}, up : SyncUpstreams, auto : SUBSET ModelNames, manual : SUBSET ModelNames]
    BY <1>6
<1>7. CASE s \in [op : {"alias_chain", "alias_write"}, id : 0 .. 2 * MaxOperations, alias : ModelNames, model : ModelNames]
    BY <1>7
<1> QED BY <1>1, <1>2, <1>3, <1>4, <1>5, <1>6, <1>7 DEF EditorStates

\* The routes that the database makes for some patterns.
LEMMA NewRoutesAre ==
    ASSUME NEW patterns \in SUBSET ModelNames, NEW up \in SyncUpstreams, NEW auto \in BOOLEAN,
           ids \in Nat, ids + Cardinality(patterns) <= MaxRouteIds
    PROVE  /\ Cardinality(patterns) \in Nat
           /\ NewRoutes(patterns, up, auto) \subseteq RouteRows
           /\ Patterns(NewRoutes(patterns, up, auto)) = patterns
           /\ \A r \in NewRoutes(patterns, up, auto) :
                 r.pattern \in patterns /\ r.up = up /\ (r.auto <=> auto) /\ r.id > ids /\ r.id <= ids + Cardinality(patterns)
           /\ \A r, s \in NewRoutes(patterns, up, auto) : r.pattern = s.pattern \/ r.id = s.id => r = s
<1>1. IsFiniteSet(patterns) /\ Cardinality(patterns) \in Nat
    BY RouteNats, FS_Subset, FS_CardinalityType
<1>2. PICK c \in Nat : c = Cardinality(patterns) /\ ids + c <= MaxRouteIds
    BY <1>1
<1>3. \E f \in [patterns -> 1 .. c] : \A m, n \in patterns : m # n => f[m] # f[n]
    <2>1. ExistsBijection(1 .. c, patterns)
        BY <1>1, <1>2, FS_CardinalityType
    <2>2. ExistsBijection(patterns, 1 .. c)
        BY <2>1, Fun_ExistsBijSymmetric
    <2>3. PICK f : f \in Injection(patterns, 1 .. c)
        BY <2>2 DEF ExistsBijection, Bijection
    <2> QED BY <2>3 DEF Injection, IsInjective
<1>4. PICK number \in [patterns -> 1 .. c] :
          /\ \A m, n \in patterns : m # n => number[m] # number[n]
          /\ NewRoutes(patterns, up, auto) = {[id |-> ids + number[m], pattern |-> m, up |-> up, auto |-> auto] : m \in patterns}
    BY <1>2, <1>3 DEF NewRoutes
<1>5. ASSUME NEW m \in patterns
      PROVE  LET r == [id |-> ids + number[m], pattern |-> m, up |-> up, auto |-> auto]
             IN  /\ r \in RouteRows /\ r.pattern = m /\ r.up = up /\ (r.auto <=> auto)
                 /\ r.id > ids /\ r.id <= ids + c
    <2>1. number[m] \in 1 .. c
        OBVIOUS
    <2>2. PICK n \in 1 .. MaxRouteIds : n = ids + number[m] /\ n > ids /\ n <= ids + c
        BY <1>2, <2>1, RouteNats
    <2>3. m \in ModelNames
        OBVIOUS
    <2> QED BY <2>2, <2>3 DEF RouteRows
<1>6. NewRoutes(patterns, up, auto) \subseteq RouteRows
    BY <1>4, <1>5
<1>7. \A r \in NewRoutes(patterns, up, auto) :
          r.pattern \in patterns /\ r.up = up /\ (r.auto <=> auto) /\ r.id > ids /\ r.id <= ids + c
    BY <1>4, <1>5
<1>8. Patterns(NewRoutes(patterns, up, auto)) = patterns
    <2>1. ASSUME NEW m \in patterns PROVE \E r \in NewRoutes(patterns, up, auto) : r.pattern = m
        <3>1. [id |-> ids + number[m], pattern |-> m, up |-> up, auto |-> auto].pattern = m
            OBVIOUS
        <3> QED BY <1>4, <3>1
    <2> QED BY <1>7, <2>1 DEF Patterns
<1>9. \A r, s \in NewRoutes(patterns, up, auto) : r.pattern = s.pattern \/ r.id = s.id => r = s
    <2>1. ASSUME NEW r \in NewRoutes(patterns, up, auto), NEW s \in NewRoutes(patterns, up, auto),
                 r.pattern = s.pattern \/ r.id = s.id
          PROVE  r = s
        <3>1. PICK m \in patterns : r = [id |-> ids + number[m], pattern |-> m, up |-> up, auto |-> auto]
            BY <1>4
        <3>2. PICK n \in patterns : s = [id |-> ids + number[n], pattern |-> n, up |-> up, auto |-> auto]
            BY <1>4
        <3>3. number[m] \in Nat /\ number[n] \in Nat
            BY <1>2
        <3>4. r.pattern = m /\ s.pattern = n /\ r.id = ids + number[m] /\ s.id = ids + number[n]
            BY <3>1, <3>2
        <3>5. m = n
            BY <1>4, <2>1, <3>3, <3>4
        <3> QED BY <3>1, <3>2, <3>5
    <2> QED BY <2>1
<1> QED BY <1>1, <1>2, <1>6, <1>7, <1>8, <1>9

\* The same, of the set that a handler adds: the ids, the fields, and one route for each pattern.
LEMMA MadeRoutes ==
    ASSUME NEW patterns \in SUBSET ModelNames, NEW up \in SyncUpstreams, NEW auto \in BOOLEAN,
           ids \in Nat, ids + Cardinality(patterns) <= MaxRouteIds, NEW fresh, fresh = NewRoutes(patterns, up, auto)
    PROVE  /\ Cardinality(patterns) \in Nat /\ fresh \subseteq RouteRows
           /\ \A r \in fresh : r.id \in Nat /\ r.id > ids /\ r.id <= ids + Cardinality(patterns)
<1>1. /\ Cardinality(patterns) \in Nat /\ fresh \subseteq RouteRows
      /\ \A r \in fresh : r.id > ids /\ r.id <= ids + Cardinality(patterns)
    BY NewRoutesAre
<1>2. \A r \in RouteRows : r.id \in Nat
    BY RouteNats DEF RouteRows
<1> QED BY <1>1, <1>2

\* A route made by hand is not managed.
LEMMA MadeManual == ASSUME NEW patterns, NEW up PROVE \A r \in NewRoutes(patterns, up, FALSE) : ~r.auto
<1>1. \A r \in NewRoutes(patterns, up, FALSE) : r.auto = FALSE
    BY DEF NewRoutes
<1> QED BY <1>1

\* Routes that may be inserted belong to an upstream that is there.
LEMMA MadeKnown ==
    ASSUME NEW patterns, NEW up, NEW auto, MayInsert(patterns, up)
    PROVE  \A r \in NewRoutes(patterns, up, auto) : r.up \in known
<1> SUFFICES ASSUME NEW r \in NewRoutes(patterns, up, auto) PROVE r.up \in known
    OBVIOUS
<1>1. patterns # {} /\ r.up = up
    BY DEF NewRoutes
<1> QED BY <1>1 DEF MayInsert

\* The routes of one statement have the patterns asked for, each once.
LEMMA MadeOnce ==
    ASSUME NEW patterns \in SUBSET ModelNames, NEW up \in SyncUpstreams, NEW auto \in BOOLEAN,
           ids \in Nat, ids + Cardinality(patterns) <= MaxRouteIds, NEW fresh, fresh = NewRoutes(patterns, up, auto)
    PROVE  Patterns(fresh) = patterns /\ \A r, s \in fresh : r.pattern = s.pattern \/ r.id = s.id => r = s
BY NewRoutesAre

\* There are no routes, no aliases and no editors at work.
LEMMA RouteStarts == RouteInit => RouteInv
<1> SUFFICES ASSUME RouteInit PROVE RouteInv
    OBVIOUS
<1>1. /\ known = SyncUpstreams /\ routes = {} /\ aliases = {} /\ ids = 0 /\ begun = 0 /\ touched = {}
      /\ editor = [e \in Editors |-> EditorIdle] /\ EditorIdle.op = "idle"
    BY DEF RouteInit, EditorIdle
<1>2. RouteTypeOK
    BY <1>1, RouteNats DEF RouteTypeOK, EditorStates, IndexHolds
<1>3. IdsKnown /\ UntouchedKnows
    BY <1>1 DEF IdsKnown, UntouchedKnows, Knows, HasOwn
<1>4. Aliasing = {}
    BY <1>1 DEF Aliasing
<1>5. AliasesCounted
    BY <1>1, <1>4, FS_EmptySet DEF AliasesCounted
<1> QED BY <1>2, <1>3, <1>5 DEF RouteInv

\* An editor moves on: the types, and how many are at work on aliases.
LEMMA EditorMoves ==
    ASSUME RouteTypeOK, NEW e \in Editors, NEW s \in EditorStates, Goes(e, s)
    PROVE  /\ DOMAIN editor' = Editors /\ \A f \in Editors : editor'[f] \in EditorStates
           /\ editor'[e] = s /\ \A f \in Editors : f # e => editor'[f] = editor[f]
           /\ IsFiniteSet(Aliasing) /\ Cardinality(Aliasing) \in Nat /\ Cardinality(Aliasing') \in Nat
           /\ Cardinality(Aliasing') <= Cardinality(Aliasing) + 1
           /\ editor[e].op \in {"alias_chain", "alias_write"} \/ s.op \notin {"alias_chain", "alias_write"} =>
                  Cardinality(Aliasing') <= Cardinality(Aliasing)
           /\ editor[e].op \in {"alias_chain", "alias_write"} /\ s.op \notin {"alias_chain", "alias_write"} =>
                  Cardinality(Aliasing') = Cardinality(Aliasing) - 1
<1>1. editor' = [editor EXCEPT ![e] = s]
    BY DEF Goes
<1>2. /\ DOMAIN editor' = Editors /\ editor'[e] = s /\ \A f \in Editors : f # e => editor'[f] = editor[f]
    BY <1>1 DEF RouteTypeOK
<1>3. \A f \in Editors : editor'[f] \in EditorStates
    BY <1>2 DEF RouteTypeOK
<1>4. PICK A : A = Aliasing /\ A \subseteq Editors
    BY DEF Aliasing
<1>5. PICK B : B = Aliasing' /\ B \subseteq Editors
    BY DEF Aliasing
<1>6. IsFiniteSet(A) /\ IsFiniteSet(B) /\ Cardinality(A) \in Nat /\ Cardinality(B) \in Nat
    BY <1>4, <1>5, RouteNats, FS_Subset, FS_CardinalityType
<1>7. B \subseteq A \cup {e}
    BY <1>2, <1>4, <1>5 DEF Aliasing
<1>8. Cardinality(B) <= Cardinality(A) + 1
    <2>1. IsFiniteSet(A \cup {e}) /\ Cardinality(A \cup {e}) = IF e \in A THEN Cardinality(A) ELSE Cardinality(A) + 1
        BY <1>6, FS_AddElement
    <2>2. Cardinality(B) <= Cardinality(A \cup {e})
        BY <1>7, <2>1, FS_Subset
    <2> QED BY <1>6, <2>1, <2>2
<1>9. ASSUME editor[e].op \in {"alias_chain", "alias_write"} \/ s.op \notin {"alias_chain", "alias_write"}
      PROVE  Cardinality(B) <= Cardinality(A)
    <2>1. B \subseteq A
        BY <1>2, <1>4, <1>5, <1>9 DEF Aliasing
    <2> QED BY <1>6, <2>1, FS_Subset
<1>10. ASSUME editor[e].op \in {"alias_chain", "alias_write"}, s.op \notin {"alias_chain", "alias_write"}
       PROVE  Cardinality(B) = Cardinality(A) - 1
    <2>1. B = A \ {e} /\ e \in A
        BY <1>2, <1>4, <1>5, <1>10 DEF Aliasing
    <2> QED BY <1>6, <2>1, FS_RemoveElement
<1> QED BY <1>2, <1>3, <1>4, <1>5, <1>6, <1>8, <1>9, <1>10

\* A handler or a task begins, with nothing read of the routes of an upstream.
LEMMA BeginStep ==
    ASSUME RouteInv, NEW e \in Editors, NEW s \in EditorStates, Begins(e, s), s.op \notin {"sync_others", "sync_write"}
    PROVE  RouteInv'
<1>0. RouteTypeOK /\ Goes(e, s) /\ begun < MaxOperations /\ begun' = begun + 1 /\ touched' = touched \ {e}
    BY DEF RouteInv, Begins, Goes
<1>1. UNCHANGED <<known, routes, aliases, ids>>
    BY DEF Begins
<1>2. begun \in Nat /\ begun' \in 0 .. MaxOperations
    BY <1>0, RouteNats DEF RouteTypeOK
<1>3. DOMAIN editor' = Editors /\ (\A f \in Editors : editor'[f] \in EditorStates)
      /\ editor'[e] = s /\ (\A f \in Editors : f # e => editor'[f] = editor[f])
    BY <1>0, EditorMoves
<1>4. RouteTypeOK'
    BY <1>0, <1>1, <1>2, <1>3 DEF RouteTypeOK
<1>5. IdsKnown'
    BY <1>1, <1>3 DEF RouteInv, IdsKnown, HasOwn
<1>6. UntouchedKnows'
    <2> SUFFICES ASSUME NEW f \in Editors, f \notin touched'
                 PROVE  Knows(f)'
        BY DEF UntouchedKnows
    <2>1. CASE f = e
        BY <1>3, <2>1 DEF Knows, HasOwn
    <2>2. CASE f # e
        <3>1. f \notin touched /\ editor'[f] = editor[f]
            BY <1>0, <1>3, <2>2
        <3> QED BY <1>1, <3>1 DEF RouteInv, UntouchedKnows, Knows, HasOwn
    <2> QED BY <2>1, <2>2
<1>7. AliasesCounted'
    <2>1. PICK a \in Nat : a = Cardinality(Aliasing) /\ Cardinality(Aliasing') \in Nat /\ Cardinality(Aliasing') <= a + 1
        BY <1>0, EditorMoves
    <2>2. PICK n \in Nat : n = Cardinality(aliases) /\ IsFiniteSet(aliases) /\ n + a <= begun
        BY <2>1, FS_CardinalityType DEF RouteInv, AliasesCounted
    <2>3. n + Cardinality(Aliasing') <= begun + 1
        BY <1>2, <2>1, <2>2
    <2> QED BY <1>0, <1>1, <2>2, <2>3 DEF AliasesCounted
<1> QED BY <1>4, <1>5, <1>6, <1>7 DEF RouteInv

\* An editor reads, or gives up.
LEMMA ReadStep ==
    ASSUME RouteInv, NEW e \in Editors, NEW s \in EditorStates, Goes(e, s), UNCHANGED <<known, routes, aliases, ids, begun, touched>>,
           editor[e].op \in {"alias_chain", "alias_write"} \/ s.op \notin {"alias_chain", "alias_write"},
           s.op \in {"sync_others", "sync_write"} =>
               \A o \in s.own : o.id <= ids /\ \A r \in routes : r.id = o.id => r = o,
           e \notin touched =>
               /\ s.op \in {"sync_others", "sync_write"} => s.up \in known /\ s.own = {r \in routes : r.up = s.up}
               /\ s.op = "sync_write" => s.others = Patterns({r \in routes : r.up # s.up})
    PROVE  RouteInv'
<1>0. RouteTypeOK
    BY DEF RouteInv
<1>1. DOMAIN editor' = Editors /\ (\A f \in Editors : editor'[f] \in EditorStates)
      /\ editor'[e] = s /\ (\A f \in Editors : f # e => editor'[f] = editor[f])
    BY <1>0, EditorMoves
<1>2. RouteTypeOK'
    BY <1>0, <1>1 DEF RouteTypeOK
<1>3. IdsKnown'
    BY <1>1 DEF RouteInv, IdsKnown, HasOwn
<1>4. UntouchedKnows'
    <2> SUFFICES ASSUME NEW f \in Editors, f \notin touched
                 PROVE  Knows(f)'
        BY DEF UntouchedKnows
    <2>1. CASE f = e
        BY <1>1, <2>1 DEF Knows, HasOwn
    <2>2. CASE f # e
        BY <1>1, <2>2 DEF RouteInv, UntouchedKnows, Knows, HasOwn
    <2> QED BY <2>1, <2>2
<1>5. AliasesCounted'
    <2>1. PICK a \in Nat : a = Cardinality(Aliasing) /\ Cardinality(Aliasing') \in Nat /\ Cardinality(Aliasing') <= a
        BY <1>0, EditorMoves
    <2>2. PICK n \in Nat : n = Cardinality(aliases) /\ IsFiniteSet(aliases) /\ n + a <= begun
        BY <2>1, FS_CardinalityType DEF RouteInv, AliasesCounted
    <2>3. n + Cardinality(Aliasing') <= begun
        BY <1>0, <2>1, <2>2, RouteNats DEF RouteTypeOK
    <2> QED BY <2>2, <2>3 DEF AliasesCounted
<1> QED BY <1>2, <1>3, <1>4, <1>5 DEF RouteInv

\* An editor writes the routes: whoever else is at work is touched, and new routes have new ids.
LEMMA RoutesWritten ==
    ASSUME RouteInv, NEW e \in Editors, Stops(e), WroteRoutes(e), UNCHANGED <<known, aliases, begun>>,
           routes' \subseteq RouteRows, IndexHolds(routes'), \A r \in routes' : r.up \in known, ids' \in 0 .. MaxRouteIds, ids' >= ids,
           editor[e].op \notin {"alias_chain", "alias_write"},
           \A r \in routes' : r.id <= ids' /\ (r \in routes \/ r.id > ids),
           \A r, s \in routes' : r.id = s.id => r = s
    PROVE  RouteInv'
<1>0. RouteTypeOK /\ Goes(e, EditorIdle) /\ EditorIdle \in EditorStates /\ EditorIdle.op = "idle" /\ ids \in Nat /\ ids' \in Nat
    BY RouteNats DEF RouteInv, Stops, EditorStates, EditorIdle, RouteTypeOK
<1>1. DOMAIN editor' = Editors /\ (\A f \in Editors : editor'[f] \in EditorStates)
      /\ editor'[e] = EditorIdle /\ (\A f \in Editors : f # e => editor'[f] = editor[f])
    BY <1>0, EditorMoves
<1>2. RouteTypeOK'
    BY <1>0, <1>1 DEF RouteTypeOK, WroteRoutes
<1>3. IdsKnown'
    <2> SUFFICES ASSUME NEW f \in Editors, HasOwn(f)', NEW o \in editor'[f].own
                 PROVE  o.id <= ids' /\ \A r \in routes' : r.id = o.id => r = o
        BY DEF IdsKnown
    <2>1. f # e /\ editor'[f] = editor[f] /\ HasOwn(f) /\ editor[f] \in EditorStates
        BY <1>0, <1>1 DEF HasOwn, RouteTypeOK
    <2>2. o.id <= ids /\ \A r \in routes : r.id = o.id => r = o
        BY <2>1 DEF RouteInv, IdsKnown
    <2>3. o.id \in Nat
        BY <2>1, EditorIs, RouteNats DEF HasOwn, RouteRows
    <2> QED BY <1>0, <2>2, <2>3
<1>4. UntouchedKnows'
    BY <1>0, <1>1 DEF UntouchedKnows, Knows, HasOwn, WroteRoutes
<1>5. AliasesCounted'
    <2>1. PICK a \in Nat : a = Cardinality(Aliasing) /\ Cardinality(Aliasing') \in Nat /\ Cardinality(Aliasing') <= a
        BY <1>0, EditorMoves
    <2>2. PICK n \in Nat : n = Cardinality(aliases) /\ IsFiniteSet(aliases) /\ n + a <= begun
        BY <2>1, FS_CardinalityType DEF RouteInv, AliasesCounted
    <2>3. n + Cardinality(Aliasing') <= begun
        BY <1>0, <2>1, <2>2, RouteNats DEF RouteTypeOK
    <2> QED BY <2>2, <2>3 DEF AliasesCounted
<1> QED BY <1>2, <1>3, <1>4, <1>5 DEF RouteInv

\* A transaction that is rolled back.
LEMMA RolledBack ==
    ASSUME RouteInv, NEW e \in Editors, Stops(e), UNCHANGED <<known, routes, aliases, ids, begun, touched>>
    PROVE  RouteInv'
<1>1. Goes(e, EditorIdle) /\ EditorIdle \in EditorStates /\ EditorIdle.op = "idle"
    BY DEF Stops, EditorStates, EditorIdle
<1> QED BY <1>1, ReadStep

\* The facts about a synchronisation that is about to write.
LEMMA SyncFacts ==
    ASSUME RouteInv, NEW e \in Editors, editor[e].op = "sync_write", ids + Cardinality(Missing(e)) <= MaxRouteIds
    PROVE  /\ Missing(e) \in SUBSET ModelNames /\ editor[e].up \in SyncUpstreams /\ ids \in Nat
           /\ \A r \in routes : r \in Unwanted(e) => r \in editor[e].own /\ r.auto /\ r.pattern \notin editor[e].desired
<1>1. editor[e] \in EditorStates /\ ids \in Nat
    BY RouteNats DEF RouteInv, RouteTypeOK
<1>2. editor[e].up \in SyncUpstreams /\ editor[e].desired \subseteq ModelNames
    BY <1>1, EditorIs
<1>3. \A o \in editor[e].own : \A r \in routes : r.id = o.id => r = o
    BY DEF RouteInv, IdsKnown, HasOwn
<1>4. \A r \in routes : r \in Unwanted(e) => r \in editor[e].own /\ r.auto /\ r.pattern \notin editor[e].desired
    BY <1>3 DEF Unwanted
<1> QED BY <1>1, <1>2, <1>4 DEF Missing

\* The synchronisation writes, or its transaction is rolled back.
LEMMA SyncStep ==
    ASSUME RouteInv, NEW e \in Editors, sync_auto(e)
    PROVE  RouteInv'
<1>1. /\ editor[e].op = "sync_write" /\ ids + Cardinality(Missing(e)) <= MaxRouteIds
      /\ Stops(e) /\ UNCHANGED <<known, aliases, begun>>
    BY DEF sync_auto
<1>2. PICK patterns \in SUBSET ModelNames : patterns = Missing(e)
    BY <1>1, SyncFacts
<1>3. PICK up \in SyncUpstreams : up = editor[e].up
    BY <1>1, SyncFacts
<1>20. PICK yes \in BOOLEAN : yes = TRUE
    OBVIOUS
<1>4. PICK fresh : fresh = NewRoutes(patterns, up, yes) /\ fresh = NewRoutes(patterns, up, TRUE)
    BY <1>20
<1>11. ids \in Nat /\ ids + Cardinality(patterns) <= MaxRouteIds
    BY <1>1, <1>2, SyncFacts
<1>5. /\ Cardinality(patterns) \in Nat /\ fresh \subseteq RouteRows /\ ids \in Nat
      /\ \A r \in fresh : r.id \in Nat /\ r.id > ids /\ r.id <= ids + Cardinality(patterns)
    BY <1>4, <1>11, MadeRoutes
<1>12. \A r, s \in fresh : r.id = s.id => r = s
    BY <1>4, <1>11, MadeOnce
<1>6. PICK new : new = (routes \ Unwanted(e)) \cup fresh
    OBVIOUS
<1>7. CASE IndexHolds(new) /\ MayInsert(patterns, up)
    <2>1. routes' = new /\ ids' = ids + Cardinality(patterns) /\ WroteRoutes(e)
        BY <1>2, <1>3, <1>4, <1>6, <1>7 DEF sync_auto
    <2>2. routes' \subseteq RouteRows
        BY <1>5, <1>6, <2>1 DEF RouteInv, RouteTypeOK
    <2>3. ids' \in 0 .. MaxRouteIds /\ ids' >= ids
        BY <1>1, <1>2, <1>5, <2>1, RouteNats
    <2>4. \A r \in routes : r.id \in Nat /\ r.id <= ids
        BY RouteNats DEF RouteInv, RouteTypeOK, RouteRows, IdsKnown
    <2>5. \A r \in routes' : r.id <= ids' /\ (r \in routes \/ r.id > ids)
        BY <1>5, <1>6, <2>1, <2>4
    <2>6. IndexHolds(routes')
        BY <1>7, <2>1
    <2>7. \A r, s \in routes' : r.id = s.id => r = s
        BY <1>5, <1>6, <1>12, <2>1, <2>4 DEF RouteInv, IdsKnown
    <2>8. \A r \in routes' : r.up \in known
        BY <1>4, <1>6, <1>7, <2>1, MadeKnown DEF RouteInv, RouteTypeOK
    <2> QED BY <1>1, <2>1, <2>2, <2>3, <2>5, <2>6, <2>7, <2>8, RoutesWritten
<1>8. CASE ~(IndexHolds(new) /\ MayInsert(patterns, up))
    <2>1. UNCHANGED <<routes, ids, touched>>
        BY <1>2, <1>3, <1>4, <1>6, <1>8 DEF sync_auto
    <2>2. Goes(e, EditorIdle) /\ EditorIdle \in EditorStates /\ EditorIdle.op = "idle"
        BY <1>1 DEF Stops, EditorStates, EditorIdle
    <2> QED BY <1>1, <2>1, <2>2, ReadStep
<1> QED BY <1>7, <1>8

\* What it does to the table.
LEMMA SyncWrites ==
    ASSUME RouteInv, NEW e \in Editors, sync_auto(e)
    PROVE  ManualKept /\ (e \notin touched => SyncComplete(e))
<1>1. editor[e].op = "sync_write" /\ ids + Cardinality(Missing(e)) <= MaxRouteIds
    BY DEF sync_auto
<1>2. PICK patterns \in SUBSET ModelNames : patterns = Missing(e)
    BY <1>1, SyncFacts
<1>3. PICK up \in SyncUpstreams : up = editor[e].up
    BY <1>1, SyncFacts
<1>20. PICK yes \in BOOLEAN : yes = TRUE
    OBVIOUS
<1>4. PICK fresh : fresh = NewRoutes(patterns, up, yes) /\ fresh = NewRoutes(patterns, up, TRUE)
    BY <1>20
<1>11. ids \in Nat /\ ids + Cardinality(patterns) <= MaxRouteIds
    BY <1>1, <1>2, SyncFacts
<1>12. \A r \in fresh : r.pattern \in patterns /\ r.up = up /\ r.auto
    BY <1>4 DEF NewRoutes
<1>13. Patterns(fresh) = patterns /\ \A r, s \in fresh : r.pattern = s.pattern => r = s
    BY <1>4, <1>11, MadeOnce
<1>5. /\ Patterns(fresh) = patterns
      /\ \A r \in fresh : r.pattern \in patterns /\ r.up = up /\ r.auto
      /\ \A r, s \in fresh : r.pattern = s.pattern => r = s
    BY <1>20, <1>12, <1>13
<1>6. PICK new : new = (routes \ Unwanted(e)) \cup fresh
    OBVIOUS
<1>7. /\ IndexHolds(new) /\ MayInsert(patterns, up) => routes' = new
      /\ ~(IndexHolds(new) /\ MayInsert(patterns, up)) => routes' = routes
    BY <1>2, <1>3, <1>4, <1>6 DEF sync_auto
<1>8. \A r \in routes : r \in Unwanted(e) => r \in editor[e].own /\ r.auto /\ r.pattern \notin editor[e].desired
    BY <1>1, SyncFacts
<1>9. ManualKept
    BY <1>6, <1>7, <1>8 DEF ManualKept
<1>10. ASSUME e \notin touched PROVE SyncComplete(e)
    <2>1. /\ up \in known /\ editor[e].own = {r \in routes : r.up = up}
          /\ editor[e].others = Patterns({r \in routes : r.up # up})
        BY <1>1, <1>3, <1>10 DEF RouteInv, UntouchedKnows, Knows, HasOwn
    <2>2. \A m : m \in patterns <=> m \in editor[e].desired /\ (\A r \in routes : r.pattern # m)
        BY <1>2, <2>1 DEF Missing, Patterns
    <2>3. IndexHolds(new)
        <3> SUFFICES ASSUME NEW r \in new, NEW s \in new, r.auto, s.auto, r.pattern = s.pattern, r.up = s.up PROVE r.id = s.id
            BY DEF IndexHolds
        <3>1. CASE r \in routes /\ s \in routes
            BY <3>1 DEF RouteInv, RouteTypeOK, IndexHolds
        <3>2. CASE r \in fresh /\ s \in fresh
            BY <1>5, <3>2
        <3>3. CASE (r \in fresh /\ s \in routes) \/ (r \in routes /\ s \in fresh)
            BY <1>5, <2>2, <3>3
        <3> QED BY <1>6, <3>1, <3>2, <3>3
    <2>4. routes' = new
        BY <1>7, <2>1, <2>3 DEF MayInsert
    <2>5. ASSUME NEW m \in editor[e].desired PROVE m \in Patterns(routes')
        <3>1. CASE m \in patterns
            BY <1>5, <1>6, <2>4, <3>1 DEF Patterns
        <3>2. CASE m \notin patterns
            <4>1. PICK r \in routes : r.pattern = m
                BY <2>2, <3>2
            <4>2. r \in new
                BY <1>6, <1>8, <4>1
            <4> QED BY <2>4, <4>1, <4>2 DEF Patterns
        <3> QED BY <3>1, <3>2
    <2>6. ASSUME NEW r \in routes', r.auto, r.up = up PROVE r.pattern \in editor[e].desired
        <3>1. CASE r \in fresh
            BY <1>5, <2>2, <3>1
        <3>2. CASE r \in routes /\ r \notin Unwanted(e)
            BY <2>1, <2>6, <3>2 DEF Unwanted
        <3> QED BY <1>6, <2>4, <3>1, <3>2
    <2> QED BY <1>3, <2>5, <2>6 DEF SyncComplete
<1> QED BY <1>9, <1>10

\* add_manual_routes inserts the routes that are missing.
LEMMA AddStep ==
    ASSUME RouteInv, NEW e \in Editors, add_manual_routes(e)
    PROVE  RouteInv'
<1>1. /\ editor[e].op = "add" /\ ids + Cardinality(editor[e].models) <= MaxRouteIds
      /\ Stops(e) /\ UNCHANGED <<known, aliases, begun>>
    BY DEF add_manual_routes
<1>2. editor[e] \in EditorStates /\ ids \in Nat
    BY RouteNats DEF RouteInv, RouteTypeOK
<1>3. PICK patterns \in SUBSET ModelNames : patterns = editor[e].models
    BY <1>1, <1>2, EditorIs
<1>4. PICK up \in SyncUpstreams : up = editor[e].up
    BY <1>1, <1>2, EditorIs
<1>5. PICK no \in BOOLEAN : no = FALSE
    OBVIOUS
<1>6. PICK fresh : fresh = NewRoutes(patterns, up, no) /\ fresh = NewRoutes(patterns, up, FALSE)
    BY <1>5
<1>7. CASE MayInsert(patterns, up)
    <2>1. routes' = routes \cup fresh /\ ids' = ids + Cardinality(patterns) /\ WroteRoutes(e)
        BY <1>3, <1>4, <1>6, <1>7 DEF add_manual_routes
    <2>2. ids + Cardinality(patterns) <= MaxRouteIds
        BY <1>1, <1>3
    <2>3. /\ Cardinality(patterns) \in Nat /\ fresh \subseteq RouteRows
          /\ \A r \in fresh : r.id \in Nat /\ r.id > ids /\ r.id <= ids + Cardinality(patterns)
        BY <1>2, <1>6, <2>2, MadeRoutes
    <2>4. \A r \in fresh : ~r.auto
        BY <1>6, MadeManual
    <2>5. routes' \subseteq RouteRows /\ IndexHolds(routes')
        BY <2>1, <2>3, <2>4 DEF RouteInv, RouteTypeOK, IndexHolds
    <2>6. ids' \in 0 .. MaxRouteIds /\ ids' >= ids
        BY <1>2, <2>1, <2>2, <2>3, RouteNats
    <2>7. \A r \in routes : r.id \in Nat /\ r.id <= ids
        BY RouteNats DEF RouteInv, RouteTypeOK, RouteRows, IdsKnown
    <2>8. \A r \in routes' : r.id <= ids' /\ (r \in routes \/ r.id > ids)
        BY <1>2, <2>1, <2>3, <2>7
    <2>9. \A r, s \in fresh : r.id = s.id => r = s
        BY <1>2, <1>6, <2>2, MadeOnce
    <2>10. \A r, s \in routes' : r.id = s.id => r = s
        BY <1>2, <2>1, <2>3, <2>7, <2>9 DEF RouteInv, IdsKnown
    <2>11. \A r \in routes' : r.up \in known
        BY <1>6, <1>7, <2>1, MadeKnown DEF RouteInv, RouteTypeOK
    <2> QED BY <1>1, <2>1, <2>5, <2>6, <2>8, <2>10, <2>11, RoutesWritten
<1>8. CASE ~MayInsert(patterns, up)
    BY <1>1, <1>3, <1>4, <1>8, RolledBack DEF add_manual_routes
<1> QED BY <1>7, <1>8

\* replace_routes deletes and inserts in one transaction.
LEMMA ReplaceStep ==
    ASSUME RouteInv, NEW e \in Editors, replace_routes(e)
    PROVE  RouteInv'
<1>1. editor[e].op = "replace" /\ Stops(e) /\ UNCHANGED <<known, aliases, begun>>
    BY DEF replace_routes
<1>2. editor[e] \in EditorStates /\ ids \in Nat
    BY RouteNats DEF RouteInv, RouteTypeOK
<1>3. PICK patterns \in SUBSET ModelNames : patterns = editor[e].auto \cup editor[e].manual
    BY <1>1, <1>2, EditorIs
<1>4. PICK up \in SyncUpstreams : up = editor[e].up
    BY <1>1, <1>2, EditorIs
<1>20. PICK no \in BOOLEAN : no = FALSE
    OBVIOUS
<1>5. PICK fresh : fresh = NewRoutes(patterns, up, no) /\ fresh = NewRoutes(patterns, up, FALSE)
    BY <1>20
<1>6. CASE MayInsert(patterns, up)
    <2>0. \A r \in fresh : r.up \in known
        BY <1>5, <1>6, MadeKnown
    <2>1. /\ WroteRoutes(e) /\ ids + Cardinality(patterns) <= MaxRouteIds /\ ids' = ids + Cardinality(patterns)
          /\ routes' = {[r EXCEPT !.auto = r.pattern \in editor[e].auto] : r \in fresh}
        BY <1>3, <1>4, <1>5, <1>6 DEF replace_routes
    <2>2. /\ Cardinality(patterns) \in Nat /\ fresh \subseteq RouteRows
          /\ \A r \in fresh : r.id \in Nat /\ r.id > ids /\ r.id <= ids + Cardinality(patterns)
          /\ \A r, s \in fresh : r.pattern = s.pattern \/ r.id = s.id => r = s
        <3>1. /\ Cardinality(patterns) \in Nat /\ fresh \subseteq RouteRows
              /\ \A r \in fresh : r.id \in Nat /\ r.id > ids /\ r.id <= ids + Cardinality(patterns)
            BY <1>2, <1>5, <2>1, MadeRoutes
        <3>2. \A r, s \in fresh : r.pattern = s.pattern \/ r.id = s.id => r = s
            BY <1>2, <1>5, <2>1, MadeOnce
        <3> QED BY <3>1, <3>2
    <2>3. ASSUME NEW r \in fresh
          PROVE  LET t == [r EXCEPT !.auto = r.pattern \in editor[e].auto]
                 IN  t \in RouteRows /\ t.id = r.id /\ t.pattern = r.pattern /\ t.up \in known
        <3>1. PICK on : on = (r.pattern \in editor[e].auto)
            OBVIOUS
        <3>2. on \in BOOLEAN
            BY <3>1
        <3>3. [r EXCEPT !.auto = on] \in RouteRows /\ [r EXCEPT !.auto = on].id = r.id /\ [r EXCEPT !.auto = on].pattern = r.pattern
                  /\ [r EXCEPT !.auto = on].up \in known
            BY <2>2, <2>0, <3>2 DEF RouteRows
        <3> QED BY <3>1, <3>3
    <2>4. \A t \in routes' : t \in RouteRows /\ t.up \in known /\ \E r \in fresh : t.id = r.id /\ t.pattern = r.pattern
        BY <2>1, <2>3
    <2>5. routes' \subseteq RouteRows /\ IndexHolds(routes')
        BY <2>2, <2>4 DEF IndexHolds
    <2>6. ids' \in 0 .. MaxRouteIds /\ ids' >= ids
        BY <1>2, <2>1, <2>2, RouteNats
    <2>7. \A r \in routes' : r.id <= ids' /\ r.id > ids
        BY <2>1, <2>2, <2>4
    <2>8. ASSUME NEW t \in routes', NEW u \in routes', t.id = u.id PROVE t = u
        <3>1. PICK r \in fresh : t = [r EXCEPT !.auto = r.pattern \in editor[e].auto] /\ t.id = r.id
            BY <2>1, <2>3
        <3>2. PICK s \in fresh : u = [s EXCEPT !.auto = s.pattern \in editor[e].auto] /\ u.id = s.id
            BY <2>1, <2>3
        <3>3. r = s
            BY <2>2, <2>8, <3>1, <3>2
        <3> QED BY <3>1, <3>2, <3>3
    <2> QED BY <1>1, <2>1, <2>4, <2>5, <2>6, <2>7, <2>8, RoutesWritten
<1>7. CASE ~MayInsert(patterns, up)
    BY <1>1, <1>3, <1>4, <1>7, RolledBack DEF replace_routes
<1> QED BY <1>6, <1>7

\* A handler of aliases ends: at most one alias more, which it has begun.
LEMMA AliasStep ==
    ASSUME RouteInv, NEW e \in Editors, editor[e].op = "alias_write", Stops(e), UNCHANGED <<known, routes, ids, begun, touched>>,
           aliases' \subseteq [id : 1 .. 2 * MaxOperations, alias : ModelNames, model : ModelNames],
           \A a, b \in aliases' : a.alias = b.alias => a = b,
           IsFiniteSet(aliases'), Cardinality(aliases') <= Cardinality(aliases) + 1
    PROVE  RouteInv'
<1>0. RouteTypeOK /\ Goes(e, EditorIdle) /\ EditorIdle \in EditorStates /\ EditorIdle.op = "idle"
    BY DEF RouteInv, Stops, EditorStates, EditorIdle
<1>1. DOMAIN editor' = Editors /\ (\A f \in Editors : editor'[f] \in EditorStates)
      /\ editor'[e] = EditorIdle /\ (\A f \in Editors : f # e => editor'[f] = editor[f])
    BY <1>0, EditorMoves
<1>2. RouteTypeOK'
    BY <1>0, <1>1 DEF RouteTypeOK
<1>3. IdsKnown'
    BY <1>0, <1>1 DEF RouteInv, IdsKnown, HasOwn
<1>4. UntouchedKnows'
    <2> SUFFICES ASSUME NEW f \in Editors, f \notin touched
                 PROVE  Knows(f)'
        BY DEF UntouchedKnows
    <2>1. CASE f = e
        BY <1>0, <1>1, <2>1 DEF Knows, HasOwn
    <2>2. CASE f # e
        <3>1. editor'[f] = editor[f]
            BY <1>1, <2>2
        <3>2. Knows(f)
            BY DEF RouteInv, UntouchedKnows
        <3> QED BY <3>1, <3>2 DEF Knows, HasOwn
    <2> QED BY <2>1, <2>2
<1>5. AliasesCounted'
    <2>1. PICK a \in Nat : a = Cardinality(Aliasing) /\ Cardinality(Aliasing') = a - 1
        BY <1>0, EditorMoves
    <2>2. PICK n \in Nat : n = Cardinality(aliases) /\ n + a <= begun
        BY <2>1, FS_CardinalityType DEF RouteInv, AliasesCounted
    <2>3. PICK m \in Nat : m = Cardinality(aliases') /\ m <= n + 1
        BY <2>2, FS_CardinalityType
    <2>4. m + (a - 1) <= begun
        BY <1>0, <2>2, <2>3, RouteNats DEF RouteTypeOK
    <2> QED BY <2>1, <2>3, <2>4 DEF AliasesCounted
<1> QED BY <1>2, <1>3, <1>4, <1>5 DEF RouteInv

\* create_alias: the id is above every one in use, and there are few enough of them.
LEMMA CreateStep ==
    ASSUME RouteInv, NEW e \in Editors, create_alias(e)
    PROVE  RouteInv'
<1>1. /\ editor[e].op = "alias_write" /\ Stops(e) /\ UNCHANGED <<known, routes, ids, begun, touched>>
      /\ aliases' = IF editor[e].alias \in AliasNames THEN aliases ELSE aliases \cup {AliasRow(e, AliasIds + 1)}
    BY DEF create_alias
<1>2. /\ RouteTypeOK /\ editor[e] \in EditorStates /\ begun \in Nat /\ begun <= MaxOperations
      /\ \A a, b \in aliases : a.alias = b.alias => a = b
      /\ aliases \subseteq [id : 1 .. 2 * MaxOperations, alias : ModelNames, model : ModelNames]
    BY RouteNats DEF RouteInv, RouteTypeOK
<1>3. editor[e].alias \in ModelNames /\ editor[e].model \in ModelNames
    BY <1>1, <1>2, EditorIs
<1>4. PICK n \in Nat : n = Cardinality(aliases) /\ IsFiniteSet(aliases) /\ n + Cardinality(Aliasing) <= begun
    BY FS_CardinalityType DEF RouteInv, AliasesCounted
<1>5. PICK a \in Nat : a = Cardinality(Aliasing) /\ a >= 1
    <2>1. PICK A : A = Aliasing /\ A \subseteq Editors /\ e \in A
        BY <1>1 DEF Aliasing
    <2>2. IsFiniteSet(A) /\ Cardinality(A) \in Nat
        BY <2>1, RouteNats, FS_Subset, FS_CardinalityType
    <2>3. Cardinality(A) # 0
        BY <2>1, <2>2, FS_EmptySet
    <2> QED BY <2>1, <2>2, <2>3
<1>6. CASE editor[e].alias \in AliasNames
    <2>1. aliases' = aliases /\ Cardinality(aliases') <= Cardinality(aliases) + 1
        BY <1>1, <1>4, <1>6
    <2> QED BY <1>1, <1>2, <1>4, <2>1, AliasStep
<1>7. CASE editor[e].alias \notin AliasNames
    <2>1. PICK id \in 1 .. 2 * MaxOperations : id = AliasIds + 1
        BY <1>2, <1>4, <1>5, RouteNats DEF AliasIds
    <2>10. AliasRow(e, id).alias = editor[e].alias
        BY DEF AliasRow
    <2>2. PICK row : row = AliasRow(e, id) /\ row.alias = editor[e].alias
        BY <2>10
    <2>3. row \in [id : 1 .. 2 * MaxOperations, alias : ModelNames, model : ModelNames]
        BY <1>3, <2>2 DEF AliasRow
    <2>4. aliases' = aliases \cup {row}
        BY <1>1, <1>7, <2>1, <2>2
    <2>5. \A b \in aliases : b.alias # row.alias
        BY <1>7, <2>2 DEF AliasNames
    <2>6. PICK old : old = aliases
        OBVIOUS
    <2>7. IsFiniteSet(old \cup {row}) /\ Cardinality(old \cup {row}) <= n + 1
        <3>1. /\ IsFiniteSet(old \cup {row})
              /\ Cardinality(old \cup {row}) = IF row \in old THEN Cardinality(old) ELSE Cardinality(old) + 1
            BY <1>4, <2>6, FS_AddElement
        <3> QED BY <1>4, <2>6, <3>1
    <2>8. \A b, c \in aliases' : b.alias = c.alias => b = c
        BY <1>2, <2>4, <2>5
    <2>9. IsFiniteSet(aliases') /\ Cardinality(aliases') <= Cardinality(aliases) + 1
        BY <1>4, <2>4, <2>6, <2>7
    <2> QED BY <1>1, <1>2, <2>3, <2>4, <2>8, <2>9, AliasStep
<1> QED BY <1>6, <1>7

\* update_alias checks the chain and writes.
LEMMA AliasUpdateStep ==
    ASSUME RouteInv, NEW e \in Editors, update_alias(e)
    PROVE  RouteInv'
<1>1. /\ editor[e].op = "alias_write" /\ editor[e].id # 0 /\ Stops(e) /\ UNCHANGED <<known, routes, ids, begun, touched>>
    BY DEF update_alias
<1>2. /\ RouteTypeOK /\ editor[e] \in EditorStates
      /\ \A a, b \in aliases : a.alias = b.alias => a = b
      /\ aliases \subseteq [id : 1 .. 2 * MaxOperations, alias : ModelNames, model : ModelNames]
    BY DEF RouteInv, RouteTypeOK
<1>3. editor[e].alias \in ModelNames /\ editor[e].model \in ModelNames /\ editor[e].id \in 1 .. 2 * MaxOperations
    BY <1>1, <1>2, EditorIs, RouteNats
<1>4. PICK n \in Nat : n = Cardinality(aliases) /\ IsFiniteSet(aliases)
    BY FS_CardinalityType DEF RouteInv, AliasesCounted
<1>10. AliasRow(e, editor[e].id).alias = editor[e].alias
    BY DEF AliasRow
<1>5. PICK new : new = AliasRow(e, editor[e].id) /\ new.alias = editor[e].alias
    BY <1>10
<1>6. new \in [id : 1 .. 2 * MaxOperations, alias : ModelNames, model : ModelNames]
    BY <1>3, <1>5 DEF AliasRow
<1>7. PICK row : row = {a \in aliases : a.id = editor[e].id}
    OBVIOUS
<1>8. CASE row = {} \/ \E a \in aliases \ row : a.alias = editor[e].alias
    <2>1. aliases' = aliases /\ Cardinality(aliases') <= Cardinality(aliases) + 1
        BY <1>4, <1>7, <1>8 DEF update_alias
    <2> QED BY <1>1, <1>2, <1>4, <2>1, AliasStep
<1>9. CASE ~(row = {} \/ \E a \in aliases \ row : a.alias = editor[e].alias)
    <2>1. aliases' = (aliases \ row) \cup {new}
        BY <1>5, <1>7, <1>9 DEF update_alias
    <2>2. \A b \in aliases \ row : b.alias # new.alias
        BY <1>5, <1>9
    <2>3. PICK old, rest : old = aliases /\ rest = old \ row
        OBVIOUS
    <2>4. IsFiniteSet(rest) /\ Cardinality(rest) \in Nat /\ Cardinality(rest) <= n
        BY <1>4, <2>3, FS_Subset, FS_CardinalityType
    <2>5. IsFiniteSet(rest \cup {new}) /\ Cardinality(rest \cup {new}) <= n + 1
        <3>1. /\ IsFiniteSet(rest \cup {new})
              /\ Cardinality(rest \cup {new}) = IF new \in rest THEN Cardinality(rest) ELSE Cardinality(rest) + 1
            BY <2>4, FS_AddElement
        <3> QED BY <2>4, <3>1
    <2>6. \A b, c \in aliases' : b.alias = c.alias => b = c
        BY <1>2, <2>1, <2>2
    <2>7. IsFiniteSet(aliases') /\ Cardinality(aliases') <= Cardinality(aliases) + 1
        BY <1>4, <2>1, <2>3, <2>5
    <2> QED BY <1>1, <1>2, <1>6, <2>1, <2>6, <2>7, AliasStep
<1> QED BY <1>8, <1>9

\* delete_alias removes one row.
LEMMA DeleteStep ==
    ASSUME RouteInv, NEW e \in Editors, delete_alias(e)
    PROVE  RouteInv'
<1>1. begun < MaxOperations /\ begun' = begun + 1 /\ UNCHANGED <<known, routes, ids, editor, touched>>
    BY DEF delete_alias
<1>2. PICK a \in aliases : aliases' = aliases \ {a}
    BY DEF delete_alias
<1>3. begun \in Nat /\ begun' \in 0 .. MaxOperations
    BY <1>1, RouteNats DEF RouteInv, RouteTypeOK
<1>4. RouteTypeOK'
    BY <1>1, <1>2, <1>3 DEF RouteInv, RouteTypeOK
<1>5. IdsKnown' /\ UntouchedKnows'
    BY <1>1 DEF RouteInv, IdsKnown, UntouchedKnows, Knows, HasOwn
<1>6. AliasesCounted'
    <2>1. Aliasing' = Aliasing
        BY <1>1 DEF Aliasing
    <2>2. PICK A : A = Aliasing /\ A \subseteq Editors
        BY DEF Aliasing
    <2>3. PICK k \in Nat : k = Cardinality(Aliasing)
        BY <2>2, RouteNats, FS_Subset, FS_CardinalityType
    <2>4. PICK old : old = aliases
        OBVIOUS
    <2>5. IsFiniteSet(old) /\ Cardinality(old) \in Nat /\ Cardinality(old) + k <= begun
        BY <2>3, <2>4, FS_CardinalityType DEF RouteInv, AliasesCounted
    <2>6. IsFiniteSet(old \ {a}) /\ Cardinality(old \ {a}) \in Nat /\ Cardinality(old \ {a}) <= Cardinality(old)
        BY <2>5, FS_Subset, FS_CardinalityType
    <2>7. Cardinality(old \ {a}) + k <= begun + 1
        BY <1>3, <2>5, <2>6
    <2> QED BY <1>1, <1>2, <2>1, <2>3, <2>4, <2>6, <2>7 DEF AliasesCounted
<1> QED BY <1>4, <1>5, <1>6 DEF RouteInv

\* delete_upstream removes the upstream and its routes; whoever is at work is touched.
LEMMA CascadeStep ==
    ASSUME RouteInv, NEW e \in Editors, delete_upstream_row(e)
    PROVE  RouteInv'
<1>1. /\ editor[e].op = "idle" /\ begun < MaxOperations /\ begun' = begun + 1 /\ WroteRoutes(e)
      /\ UNCHANGED <<aliases, ids, editor>>
    BY DEF delete_upstream_row
<1>2. PICK u \in known : known' = known \ {u} /\ routes' = {r \in routes : r.up # u}
    BY DEF delete_upstream_row
<1>3. begun \in Nat /\ begun' \in 0 .. MaxOperations
    BY <1>1, RouteNats DEF RouteInv, RouteTypeOK
<1>4. RouteTypeOK'
    BY <1>1, <1>2, <1>3 DEF RouteInv, RouteTypeOK, IndexHolds, WroteRoutes
<1>5. IdsKnown'
    BY <1>1, <1>2 DEF RouteInv, IdsKnown, HasOwn
<1>6. UntouchedKnows'
    BY <1>1 DEF UntouchedKnows, Knows, HasOwn, WroteRoutes
<1>7. AliasesCounted'
    <2>1. Aliasing' = Aliasing
        BY <1>1 DEF Aliasing
    <2>2. PICK A : A = Aliasing /\ A \subseteq Editors
        BY DEF Aliasing
    <2>3. PICK k \in Nat : k = Cardinality(Aliasing)
        BY <2>2, RouteNats, FS_Subset, FS_CardinalityType
    <2>4. PICK n \in Nat : n = Cardinality(aliases) /\ n + k <= begun
        BY <2>3, FS_CardinalityType DEF RouteInv, AliasesCounted
    <2>5. n + k <= begun + 1
        BY <1>3, <2>4
    <2> QED BY <1>1, <2>1, <2>3, <2>4, <2>5 DEF RouteInv, AliasesCounted
<1> QED BY <1>4, <1>5, <1>6, <1>7 DEF RouteInv

\* The steps that begin an operation.
LEMMA BeginsStep ==
    ASSUME RouteInv, NEW e \in Editors,
           \/ \E u \in SyncUpstreams : SyncBegins(e, u) \/ add_manual_read(e, u)
           \/ replace_check(e)
           \/ \E id \in {0} \cup {a.id : a \in aliases} : alias_check_route(e, id)
    PROVE  RouteInv'
<1>1. ASSUME NEW u \in SyncUpstreams, SyncBegins(e, u) PROVE RouteInv'
    <2>1. PICK fetched \in SUBSET ModelNames, exclude \in SUBSET ModelNames :
              Begins(e, [op |-> "sync_own", up |-> u, desired |-> fetched \ exclude])
        BY <1>1 DEF SyncBegins
    <2>2. /\ [op |-> "sync_own", up |-> u, desired |-> fetched \ exclude] \in EditorStates
          /\ [op |-> "sync_own", up |-> u, desired |-> fetched \ exclude].op = "sync_own"
        BY DEF EditorStates
    <2> QED BY <2>1, <2>2, BeginStep
<1>2. ASSUME NEW u \in SyncUpstreams, add_manual_read(e, u) PROVE RouteInv'
    <2>1. PICK models \in SUBSET ModelNames \ {{}} : Begins(e, [op |-> "add", up |-> u, models |-> models \ Patterns(routes)])
        BY <1>2 DEF add_manual_read
    <2>2. /\ [op |-> "add", up |-> u, models |-> models \ Patterns(routes)] \in EditorStates
          /\ [op |-> "add", up |-> u, models |-> models \ Patterns(routes)].op = "add"
        BY DEF EditorStates
    <2> QED BY <2>1, <2>2, BeginStep
<1>3. ASSUME replace_check(e) PROVE RouteInv'
    <2>1. PICK up \in SyncUpstreams, auto \in SUBSET ModelNames, manual \in SUBSET ModelNames :
              Begins(e, [op |-> "replace", up |-> up, auto |-> auto, manual |-> manual \ auto])
        BY <1>3 DEF replace_check
    <2>2. /\ [op |-> "replace", up |-> up, auto |-> auto, manual |-> manual \ auto] \in EditorStates
          /\ [op |-> "replace", up |-> up, auto |-> auto, manual |-> manual \ auto].op = "replace"
        BY DEF EditorStates
    <2> QED BY <2>1, <2>2, BeginStep
<1>4. ASSUME NEW id \in {0} \cup {a.id : a \in aliases}, alias_check_route(e, id) PROVE RouteInv'
    <2>1. PICK alias \in ModelNames, model \in ModelNames :
              Begins(e, [op |-> "alias_chain", id |-> id, alias |-> alias, model |-> model])
        BY <1>4 DEF alias_check_route
    <2>2. id \in 0 .. 2 * MaxOperations
        BY RouteNats DEF RouteInv, RouteTypeOK
    <2>3. /\ [op |-> "alias_chain", id |-> id, alias |-> alias, model |-> model] \in EditorStates
          /\ [op |-> "alias_chain", id |-> id, alias |-> alias, model |-> model].op = "alias_chain"
        BY <2>2 DEF EditorStates
    <2> QED BY <2>1, <2>3, BeginStep
<1> QED BY <1>1, <1>2, <1>3, <1>4

\* The steps that read.
LEMMA ReadsStep ==
    ASSUME RouteInv, NEW e \in Editors, FetchFails(e) \/ SyncReadsOwn(e) \/ SyncReadsOthers(e) \/ check_conflicts(e)
    PROVE  RouteInv'
<1>0. /\ editor[e] \in EditorStates /\ routes \subseteq RouteRows
      /\ \A r \in routes : r.id <= ids /\ \A s \in routes : s.id = r.id => s = r
    BY DEF RouteInv, RouteTypeOK, IdsKnown
<1>i. EditorIdle \in EditorStates /\ EditorIdle.op = "idle"
    BY DEF EditorStates, EditorIdle
<1>1. CASE FetchFails(e)
    <2>1. Goes(e, EditorIdle) /\ UNCHANGED <<known, routes, aliases, ids, begun, touched>>
        BY <1>1 DEF FetchFails, Stops
    <2> QED BY <1>i, <2>1, ReadStep
<1>2. CASE SyncReadsOwn(e)
    <2>1. editor[e].op = "sync_own" /\ editor[e].up \in known /\ UNCHANGED <<known, routes, aliases, ids, begun, touched>>
        BY <1>2 DEF SyncReadsOwn
    <2>2. editor[e].up \in SyncUpstreams /\ editor[e].desired \in SUBSET ModelNames
        BY <1>0, <2>1, EditorIs
    <2>3. PICK own : own = {r \in routes : r.up = editor[e].up}
        OBVIOUS
    <2>4. own \in SUBSET RouteRows
        BY <1>0, <2>3
    <2>5. [op |-> "sync_others", up |-> editor[e].up, desired |-> editor[e].desired, own |-> own] \in EditorStates
        BY <2>2, <2>4 DEF EditorStates
    <2>6. PICK s \in EditorStates : s = [op |-> "sync_others", up |-> editor[e].up, desired |-> editor[e].desired, own |-> own]
        BY <2>5
    <2>7. s.op = "sync_others" /\ s.own = own /\ s.up = editor[e].up
        BY <2>6
    <2>8. Goes(e, s)
        BY <1>2, <2>3, <2>6 DEF SyncReadsOwn
    <2>9. \A o \in s.own : o.id <= ids /\ \A r \in routes : r.id = o.id => r = o
        BY <1>0, <2>3, <2>7
    <2> QED BY <2>1, <2>3, <2>7, <2>8, <2>9, ReadStep
<1>3. CASE SyncReadsOthers(e)
    <2>1. editor[e].op = "sync_others" /\ UNCHANGED <<known, routes, aliases, ids, begun, touched>>
        BY <1>3 DEF SyncReadsOthers
    <2>2. editor[e].up \in SyncUpstreams /\ editor[e].desired \in SUBSET ModelNames /\ editor[e].own \in SUBSET RouteRows
        BY <1>0, <2>1, EditorIs
    <2>3. PICK others : others = Patterns({r \in routes : r.up # editor[e].up})
        OBVIOUS
    <2>4. others \in SUBSET ModelNames
        BY <1>0, <2>3 DEF Patterns, RouteRows
    <2>5. [op |-> "sync_write", up |-> editor[e].up, desired |-> editor[e].desired, own |-> editor[e].own,
           others |-> others] \in EditorStates
        BY <2>2, <2>4 DEF EditorStates
    <2>6. PICK s \in EditorStates : s = [op |-> "sync_write", up |-> editor[e].up, desired |-> editor[e].desired,
                                         own |-> editor[e].own, others |-> others]
        BY <2>5
    <2>7. s.op = "sync_write" /\ s.own = editor[e].own /\ s.up = editor[e].up /\ s.others = others
        BY <2>6
    <2>8. Goes(e, s)
        BY <1>3, <2>3, <2>6 DEF SyncReadsOthers
    <2>9. HasOwn(e)
        BY <2>1 DEF HasOwn
    <2>10. \A o \in s.own : o.id <= ids /\ \A r \in routes : r.id = o.id => r = o
        BY <2>7, <2>9 DEF RouteInv, IdsKnown
    <2>11. e \notin touched => s.up \in known /\ s.own = {r \in routes : r.up = s.up}
        BY <2>7, <2>9 DEF RouteInv, UntouchedKnows, Knows
    <2> QED BY <2>1, <2>3, <2>7, <2>8, <2>10, <2>11, ReadStep
<1>4. CASE check_conflicts(e)
    <2>1. editor[e].op = "alias_chain" /\ UNCHANGED <<known, routes, aliases, ids, begun, touched>>
        BY <1>4 DEF check_conflicts
    <2>2. editor[e] \in [op : {"alias_chain", "alias_write"}, id : 0 .. 2 * MaxOperations, alias : ModelNames, model : ModelNames]
        BY <1>0, <2>1, EditorIs
    <2>3. /\ [editor[e] EXCEPT !.op = "alias_write"] \in EditorStates
          /\ [editor[e] EXCEPT !.op = "alias_write"].op = "alias_write"
        BY <2>2 DEF EditorStates
    <2>4. Goes(e, EditorIdle) \/ Goes(e, [editor[e] EXCEPT !.op = "alias_write"])
        BY <1>4 DEF check_conflicts, Stops
    <2>5. CASE Goes(e, EditorIdle)
        BY <1>i, <2>1, <2>5, ReadStep
    <2>6. CASE Goes(e, [editor[e] EXCEPT !.op = "alias_write"])
        BY <2>1, <2>3, <2>6, ReadStep
    <2> QED BY <2>4, <2>5, <2>6
<1> QED BY <1>1, <1>2, <1>3, <1>4

\* Every step keeps the tables in shape and the reads of undisturbed editors true.
LEMMA RouteStep == RouteInv /\ [RouteNext]_routeVars => RouteInv'
<1> SUFFICES ASSUME RouteInv, [RouteNext]_routeVars PROVE RouteInv'
    OBVIOUS
<1>1. ASSUME NEW e \in Editors, sync_auto(e) PROVE RouteInv'
    BY <1>1, SyncStep
<1>2. ASSUME NEW e \in Editors, add_manual_routes(e) PROVE RouteInv'
    BY <1>2, AddStep
<1>3. ASSUME NEW e \in Editors, replace_routes(e) PROVE RouteInv'
    BY <1>3, ReplaceStep
<1>4. ASSUME NEW e \in Editors, create_alias(e) PROVE RouteInv'
    BY <1>4, CreateStep
<1>5. ASSUME NEW e \in Editors, update_alias(e) PROVE RouteInv'
    BY <1>5, AliasUpdateStep
<1>6. ASSUME NEW e \in Editors, delete_alias(e) PROVE RouteInv'
    BY <1>6, DeleteStep
<1>7. CASE UNCHANGED routeVars
    BY <1>7 DEF routeVars, RouteInv, RouteTypeOK, IdsKnown, UntouchedKnows, Knows, AliasesCounted, HasOwn, Aliasing
<1>8. ASSUME NEW e \in Editors, delete_upstream_row(e) PROVE RouteInv'
    BY <1>8, CascadeStep
<1> QED BY <1>1, <1>2, <1>3, <1>4, <1>5, <1>6, <1>7, <1>8, BeginsStep, ReadsStep DEF RouteNext

\* The tables of routes and aliases are well formed after every step of every handler
\* (alias handlers, replace_routes, add_manual_routes, sync_auto): an alias names one model,
\* and an upstream has at most one managed route for a pattern.
THEOREM RoutesAreSound == RouteSpec => []RouteTypeOK
<1>1. RouteInv => RouteTypeOK
    BY DEF RouteInv
<1> QED BY <1>1, RouteStarts, RouteStep, PTL DEF RouteSpec

\* sync_auto (model_sync.rs) never removes a route that an administrator made, whatever was
\* written since it read the table, and leaves exactly the upstream's models if nobody else
\* wrote: for every set of models, upstreams and handlers at work.
THEOREM SyncIsSafe == RouteSpec => SyncSafe
<1>1. RouteInv /\ [RouteNext]_routeVars =>
          [\A e \in Editors : sync_auto(e) => ManualKept /\ (e \notin touched => SyncComplete(e))]_routeVars
    BY SyncWrites
<1> QED BY <1>1, RouteStarts, RouteStep, PTL DEF RouteSpec, SyncSafe

-----------------------------------------------------------------------------
(* The console: each part takes its own steps.                             *)

\* The entity cache and the route tables keep their shape in the console as a whole: what
\* holds of each of them alone holds while the others take their steps.
THEOREM TablesAreSound == ConsoleSpec => []TablesSound
<1>1. ConsoleSpec => CatalogSpec
    <2>1. ConsoleInit => CatalogInit
        BY DEF ConsoleInit
    <2>2. [ConsoleNext]_<<focus, authVars, catalogVars, routeVars, settingsVars, pricingVars, transferVars>>
              => [CatalogNext]_catalogVars
        BY DEF ConsoleNext, Others
    <2> QED BY <2>1, <2>2, PTL DEF ConsoleSpec, CatalogSpec
<1>2. ConsoleSpec => RouteSpec
    <2>1. ConsoleInit => RouteInit
        BY DEF ConsoleInit
    <2>2. [ConsoleNext]_<<focus, authVars, catalogVars, routeVars, settingsVars, pricingVars, transferVars>>
              => [RouteNext]_routeVars
        BY DEF ConsoleNext, Others
    <2> QED BY <2>1, <2>2, PTL DEF ConsoleSpec, RouteSpec
<1>3. CatalogTypeOK /\ StaleExplained /\ RouteTypeOK => TablesSound
    BY DEF TablesSound
<1> QED BY <1>1, <1>2, <1>3, CatalogIsSound, RoutesAreSound, PTL

-----------------------------------------------------------------------------
(* Settings.                                                                 *)

Active(h) == saver[h] # Resting

\* What the handler that is alone at work has read, and is about to store, is the file's.
AloneFollows(h) ==
    /\ Active(h) /\ saver[h].kind = "put" => file_config = yamlFile /\ yaml_hot = yamlFile.hot
    /\ Active(h) /\ saver[h].kind = "file" => saver[h].new = yamlFile /\ (saver[h].at # "rows" => yaml_hot = yamlFile.hot)
    /\ saver[h].at = "select" => saver[h].base = yamlFile.hot
    /\ saver[h].at = "store" => saver[h].merged = Merge(yamlFile.hot, settings)

\* Nothing has overlapped or failed: one handler at most is at work.
Undisturbed ==
    ~disturbed => /\ \A g, h \in SettingHandlers : Active(g) /\ Active(h) => g = h
                  /\ \A h \in SettingHandlers : AloneFollows(h)

\* A row still to be stored has a value.
TodoFits ==
    \A h \in SettingHandlers : saver[h].at = "rows" /\ saver[h].kind = "put" => saver[h].todo \subseteq DOMAIN saver[h].new

SettingsInv == SettingsFollow /\ Undisturbed /\ TodoFits

\* What a handler at work can be.
LEMMA SaverIs ==
    ASSUME NEW s \in SaverStates
    PROVE  /\ s.at \in {"rest", "rows", "select", "store"}
           /\ s.at = "rest" <=> s = Resting
           /\ s # Resting => s.kind \in {"put", "file"}
           /\ s.at = "rows" /\ s.kind = "put" => s \in [at : {"rows"}, kind : {"put"}, todo : SUBSET HotKeys, new : Updates]
           /\ s.at = "rows" /\ s.kind = "file" => s \in [at : {"rows"}, kind : {"file"}, todo : SUBSET HotKeys, new : Config]
           /\ s.at = "select" => s.base \in Hot
           /\ s.at = "store" => s.merged \in Hot
           /\ s # Resting /\ s.kind = "put" => s.new \in Updates
           /\ s # Resting /\ s.kind = "file" => s.new \in Config
<1>1. CASE s = Resting
    BY <1>1 DEF Resting
<1>2. CASE s \in [at : {"rows"}, kind : {"put"}, todo : SUBSET HotKeys, new : Updates]
    BY <1>2 DEF Resting
<1>3. CASE s \in [at : {"rows"}, kind : {"file"}, todo : SUBSET HotKeys, new : Config]
    BY <1>3 DEF Resting
<1>4. CASE s \in [at : {"select"}, kind : {"put"}, new : Updates, base : Hot]
    BY <1>4 DEF Resting
<1>5. CASE s \in [at : {"select"}, kind : {"file"}, new : Config, base : Hot]
    BY <1>5 DEF Resting
<1>6. CASE s \in [at : {"store"}, kind : {"put"}, new : Updates, merged : Hot]
    BY <1>6 DEF Resting
<1>7. CASE s \in [at : {"store"}, kind : {"file"}, new : Config, merged : Hot]
    BY <1>7 DEF Resting
<1> QED BY <1>1, <1>2, <1>3, <1>4, <1>5, <1>6, <1>7 DEF SaverStates

\* A merge of file and rows has a value for every key.
LEMMA MergeType ==
    ASSUME NEW hot \in Hot, NEW rows \in [HotKeys -> [value : SettingValues, source : {"file", "ui"}]]
    PROVE  Merge(hot, rows) \in Hot
BY DEF Merge, Hot

\* The process starts with what file and rows say.
LEMMA SettingsStart == SettingsInit => SettingsInv
<1> SUFFICES ASSUME SettingsInit PROVE SettingsInv
    OBVIOUS
<1>1. PICK v \in SettingValues :
        /\ yamlFile = [hot |-> [k \in HotKeys |-> v], secret |-> v]
        /\ file_config = yamlFile /\ yaml_hot = yamlFile.hot
        /\ settings = [k \in HotKeys |-> [value |-> v, source |-> "file"]]
        /\ effective = yamlFile.hot
        /\ saver = [h \in SettingHandlers |-> Resting]
        /\ saves = 0 /\ uiSaved = [k \in HotKeys |-> Unset] /\ secretSet = v /\ disturbed = FALSE
    BY DEF SettingsInit
<1>2. yamlFile.hot = [k \in HotKeys |-> v] /\ yamlFile.secret = v
    BY <1>1
<1>3. yamlFile \in Config /\ yamlFile.hot \in Hot
    BY <1>1, <1>2 DEF Config, Hot
<1>4. settings \in [HotKeys -> [value : SettingValues, source : {"file", "ui"}]]
    BY <1>1
<1>5. Resting \in SaverStates /\ Resting.at = "rest"
    BY DEF SaverStates, Resting
<1>6. SettingsTypeOK
    <2>1. uiSaved \in [HotKeys -> SettingValues \cup {Unset}]
        BY <1>1
    <2>2. saves \in 0 .. MaxSaves
        BY <1>1, SettingsAssumption
    <2> QED BY <1>1, <1>3, <1>4, <1>5, <2>1, <2>2 DEF SettingsTypeOK
<1>7. effective = Merge(yamlFile.hot, settings)
    BY <1>1, <1>2 DEF Merge
<1>8. SettingsFollow
    BY <1>1, <1>2, <1>6, <1>7 DEF SettingsFollow, RestartChangesNothing, UiValueKept, SecretSurvivesMask
<1>9. Undisturbed /\ TodoFits
    BY <1>1, <1>5 DEF Undisturbed, TodoFits, AloneFollows, Active
<1> QED BY <1>8, <1>9 DEF SettingsInv

\* A handler moves to a state.
LEMMA SaverMoves ==
    ASSUME SettingsInv, NEW h \in SettingHandlers, NEW s \in SaverStates, Proceed(h, s)
    PROVE  /\ DOMAIN saver' = SettingHandlers /\ \A g \in SettingHandlers : saver'[g] \in SaverStates
           /\ saver'[h] = s /\ \A g \in SettingHandlers : g # h => saver'[g] = saver[g]
BY DEF SettingsInv, SettingsFollow, SettingsTypeOK, Proceed

\* A handler begins: what it must be for the copies to follow.
LEMMA SaveBegins ==
    ASSUME SettingsInv, NEW h \in SettingHandlers, NEW s \in SaverStates, BeginSave(h), Proceed(h, s),
           s.at = "rows", s.kind = "put" => s.todo \subseteq DOMAIN s.new, s.kind = "file" => s.new = yamlFile',
           s.kind = "put" => yamlFile' = yamlFile, yamlFile' \in Config,
           UNCHANGED <<file_config, yaml_hot, settings, effective, uiSaved>>,
           ~disturbed /\ AllResting => yamlFile'.secret = secretSet'
    PROVE  SettingsInv'
<1>0. /\ SettingsTypeOK /\ RestartChangesNothing /\ UiValueKept /\ Undisturbed /\ TodoFits
      /\ saver[h] = Resting /\ saves < MaxSaves /\ saves' = saves + 1
      /\ disturbed' = (disturbed \/ \E g \in SettingHandlers : saver[g] # Resting)
    BY DEF SettingsInv, SettingsFollow, BeginSave
<1>1. /\ DOMAIN saver' = SettingHandlers /\ \A g \in SettingHandlers : saver'[g] \in SaverStates
      /\ saver'[h] = s /\ \A g \in SettingHandlers : g # h => saver'[g] = saver[g]
    BY SaverMoves
<1>2. s # Resting /\ Resting.at = "rest"
    BY DEF Resting
<1>3. SettingsTypeOK'
    <2>1. saves' \in 0 .. MaxSaves
        BY <1>0, SettingsAssumption DEF SettingsTypeOK
    <2>2. disturbed' \in BOOLEAN
        BY <1>0
    <2> QED BY <1>0, <1>1, <2>1, <2>2 DEF SettingsTypeOK
<1>4. TodoFits'
    BY <1>0, <1>1 DEF TodoFits
<1>5. UiValueKept'
    BY <1>0 DEF UiValueKept
<1>6. RestartChangesNothing'
    BY <1>1, <1>2 DEF RestartChangesNothing, AllResting
<1>7. ASSUME ~disturbed' PROVE ~disturbed /\ AllResting
    BY <1>0, <1>7 DEF AllResting
<1>8. SecretSurvivesMask'
    BY <1>7 DEF SecretSurvivesMask
<1>9. Undisturbed'
    <2> SUFFICES ASSUME ~disturbed'
                 PROVE  /\ \A g, f \in SettingHandlers : Active(g)' /\ Active(f)' => g = f
                        /\ \A g \in SettingHandlers : AloneFollows(g)'
        BY DEF Undisturbed
    <2>1. /\ \A g \in SettingHandlers : saver[g] = Resting
          /\ file_config = yamlFile /\ yaml_hot = yamlFile.hot
        BY <1>0, <1>7 DEF AllResting, RestartChangesNothing
    <2>2. \A g \in SettingHandlers : g # h => saver'[g] = Resting
        BY <1>1, <2>1
    <2>3. AloneFollows(h)'
        BY <1>1, <2>1 DEF AloneFollows, Active
    <2>4. \A g \in SettingHandlers : g # h => AloneFollows(g)'
        BY <1>2, <2>2 DEF AloneFollows, Active
    <2> QED BY <2>2, <2>3, <2>4 DEF Active
<1> QED BY <1>3, <1>4, <1>5, <1>6, <1>8, <1>9 DEF SettingsInv, SettingsFollow

\* A handler at work takes a step that neither touches the file nor ends it.
LEMMA SaverStep ==
    ASSUME SettingsInv, NEW h \in SettingHandlers, NEW s \in SaverStates, Active(h), Proceed(h, s), s # Resting,
           UNCHANGED <<yamlFile, file_config, effective, saves, secretSet, disturbed>>,
           settings' \in [HotKeys -> [value : SettingValues, source : {"file", "ui"}]], yaml_hot' \in Hot,
           uiSaved' \in [HotKeys -> SettingValues \cup {Unset}], UiValueKept',
           s.at = "rows" /\ s.kind = "put" => s.todo \subseteq DOMAIN s.new,
           ~disturbed => AloneFollows(h)'
    PROVE  SettingsInv'
<1>0. SettingsTypeOK /\ SecretSurvivesMask /\ Undisturbed /\ TodoFits
    BY DEF SettingsInv, SettingsFollow
<1>1. /\ DOMAIN saver' = SettingHandlers /\ \A g \in SettingHandlers : saver'[g] \in SaverStates
      /\ saver'[h] = s /\ \A g \in SettingHandlers : g # h => saver'[g] = saver[g]
    BY SaverMoves
<1>2. SettingsTypeOK'
    BY <1>0, <1>1 DEF SettingsTypeOK
<1>3. TodoFits'
    BY <1>0, <1>1 DEF TodoFits
<1>4. RestartChangesNothing' /\ SecretSurvivesMask'
    BY <1>0, <1>1 DEF RestartChangesNothing, AllResting, SecretSurvivesMask
<1>5. Undisturbed'
    <2> SUFFICES ASSUME ~disturbed
                 PROVE  /\ \A g, f \in SettingHandlers : Active(g)' /\ Active(f)' => g = f
                        /\ \A g \in SettingHandlers : AloneFollows(g)'
        BY DEF Undisturbed
    <2>1. \A g \in SettingHandlers : g # h => saver'[g] = Resting
        BY <1>0, <1>1 DEF Undisturbed, Active
    <2>2. \A g \in SettingHandlers : g # h => AloneFollows(g)'
        BY <2>1 DEF AloneFollows, Active, Resting
    <2> QED BY <2>1, <2>2 DEF Active
<1> QED BY <1>2, <1>3, <1>4, <1>5 DEF SettingsInv, SettingsFollow


\* The steps that begin an operation.
LEMMA SaveBeginsStep ==
    ASSUME SettingsInv, NEW h \in SettingHandlers,
           \/ \E ks \in SUBSET HotKeys \ {{}} : \E updates \in [ks -> SettingValues] : put_settings(h, updates)
           \/ \E hot \in Hot, secret \in SettingValues \cup {Mask} : put_config(h, [hot |-> hot, secret |-> secret])
           \/ reload_config(h)
    PROVE  SettingsInv'
<1>0. /\ yamlFile \in Config /\ file_config \in Config
      /\ ~disturbed => yamlFile.secret = secretSet
      /\ ~disturbed /\ AllResting => file_config = yamlFile
    BY DEF SettingsInv, SettingsFollow, SettingsTypeOK, SecretSurvivesMask, RestartChangesNothing
<1>1. ASSUME NEW ks \in SUBSET HotKeys, NEW updates \in [ks -> SettingValues], put_settings(h, updates) PROVE SettingsInv'
    <2>1. DOMAIN updates = ks /\ updates \in Updates
        BY DEF Updates
    <2>2. [at |-> "rows", kind |-> "put", todo |-> ks, new |-> updates] \in SaverStates
        BY <2>1 DEF SaverStates
    <2>3. PICK s \in SaverStates : s = [at |-> "rows", kind |-> "put", todo |-> ks, new |-> updates]
        BY <2>2
    <2>4. s.at = "rows" /\ s.kind = "put" /\ s.todo = ks /\ s.new = updates
        BY <2>3
    <2>5. /\ BeginSave(h) /\ Proceed(h, s)
          /\ UNCHANGED <<yamlFile, file_config, yaml_hot, settings, effective, uiSaved, secretSet>>
        BY <1>1, <2>1, <2>3 DEF put_settings
    <2> QED BY <1>0, <2>1, <2>4, <2>5, SaveBegins
<1>2. ASSUME NEW hot \in Hot, NEW secret \in SettingValues \cup {Mask}, put_config(h, [hot |-> hot, secret |-> secret])
      PROVE  SettingsInv'
    <2>1. PICK cfg : cfg = restore_masked_fields([hot |-> hot, secret |-> secret])
        OBVIOUS
    <2>2. cfg = [hot |-> hot, secret |-> IF secret = Mask THEN file_config.secret ELSE secret]
        BY <2>1 DEF restore_masked_fields
    <2>3. cfg \in Config /\ cfg.secret = IF secret = Mask THEN file_config.secret ELSE secret
        BY <1>0, <2>2 DEF Config
    <2>4. [at |-> "rows", kind |-> "file", todo |-> HotKeys, new |-> cfg] \in SaverStates
        BY <2>3 DEF SaverStates
    <2>5. PICK s \in SaverStates : s = [at |-> "rows", kind |-> "file", todo |-> HotKeys, new |-> cfg]
        BY <2>4
    <2>6. s.at = "rows" /\ s.kind = "file" /\ s.new = cfg
        BY <2>5
    <2>7. /\ BeginSave(h) /\ Proceed(h, s) /\ yamlFile' = cfg
          /\ secretSet' = IF secret = Mask THEN secretSet ELSE secret
          /\ UNCHANGED <<file_config, yaml_hot, settings, effective, uiSaved>>
        BY <1>2, <2>1, <2>5 DEF put_config
    <2>8. ~disturbed /\ AllResting => cfg.secret = secretSet'
        BY <1>0, <2>3, <2>7
    <2> QED BY <2>3, <2>6, <2>7, <2>8, SaveBegins
<1>3. ASSUME reload_config(h) PROVE SettingsInv'
    <2>1. [at |-> "rows", kind |-> "file", todo |-> HotKeys, new |-> yamlFile] \in SaverStates
        BY <1>0 DEF SaverStates
    <2>2. PICK s \in SaverStates : s = [at |-> "rows", kind |-> "file", todo |-> HotKeys, new |-> yamlFile]
        BY <2>1
    <2>3. s.at = "rows" /\ s.kind = "file" /\ s.new = yamlFile
        BY <2>2
    <2>4. /\ BeginSave(h) /\ Proceed(h, s)
          /\ UNCHANGED <<yamlFile, file_config, yaml_hot, settings, effective, uiSaved, secretSet>>
        BY <1>3, <2>2 DEF reload_config
    <2> QED BY <1>0, <2>3, <2>4, SaveBegins
<1> QED BY <1>1, <1>2, <1>3

\* The steps that store a row: neither changes what the file contributes.
LEMMA PutRowStep ==
    ASSUME SettingsInv, NEW h \in SettingHandlers, NEW k \in HotKeys, PutRow(h, k)
    PROVE  SettingsInv'
<1>0. /\ saver[h].at = "rows" /\ saver[h].kind = "put" /\ k \in saver[h].todo
      /\ UNCHANGED <<yamlFile, file_config, yaml_hot, effective, saves, secretSet, disturbed>>
      /\ saver[h] \in SaverStates /\ UiValueKept
      /\ settings \in [HotKeys -> [value : SettingValues, source : {"file", "ui"}]]
      /\ uiSaved \in [HotKeys -> SettingValues \cup {Unset}] /\ yaml_hot \in Hot
    BY DEF PutRow, SettingsInv, SettingsFollow, SettingsTypeOK
<1>1. /\ saver[h] \in [at : {"rows"}, kind : {"put"}, todo : SUBSET HotKeys, new : Updates] /\ Active(h)
      /\ saver[h].new \in Updates
    BY <1>0, SaverIs DEF Active, Resting
<1>2. saver[h].todo \subseteq DOMAIN saver[h].new
    BY <1>0 DEF SettingsInv, TodoFits
<1>3. PICK v \in SettingValues : v = saver[h].new[k]
    BY <1>0, <1>1, <1>2 DEF Updates
<1>4. PICK todo \in SUBSET HotKeys : todo = saver[h].todo \ {k}
    BY <1>1
<1>5. /\ [saver[h] EXCEPT !.todo = todo] \in [at : {"rows"}, kind : {"put"}, todo : SUBSET HotKeys, new : Updates]
      /\ [saver[h] EXCEPT !.todo = todo].todo = todo /\ [saver[h] EXCEPT !.todo = todo].new = saver[h].new
    BY <1>1
<1>6. PICK s : s = [saver[h] EXCEPT !.todo = todo]
    OBVIOUS
<1>7. s \in SaverStates /\ s.at = "rows" /\ s.kind = "put" /\ s.todo = todo /\ s.new = saver[h].new /\ s # Resting
    BY <1>5, <1>6 DEF SaverStates, Resting
<1>8. Proceed(h, s) /\ saver'[h] = s
    <2>1. Proceed(h, s)
        BY <1>4, <1>6 DEF PutRow
    <2> QED BY <1>7, <2>1, SaverMoves
<1>9. /\ settings' = [settings EXCEPT ![k] = [value |-> v, source |-> "ui"]]
      /\ uiSaved' = [uiSaved EXCEPT ![k] = v]
    BY <1>3 DEF PutRow
<1>10. /\ settings' \in [HotKeys -> [value : SettingValues, source : {"file", "ui"}]]
       /\ uiSaved' \in [HotKeys -> SettingValues \cup {Unset}] /\ UiValueKept'
    BY <1>0, <1>9 DEF UiValueKept
<1>11. s.todo \subseteq DOMAIN s.new
    BY <1>2, <1>4, <1>7
<1>12. ~disturbed => AloneFollows(h)'
    <2>1. ~disturbed => file_config = yamlFile /\ yaml_hot = yamlFile.hot
        BY <1>0, <1>1 DEF SettingsInv, Undisturbed, AloneFollows
    <2> QED BY <1>0, <1>7, <1>8, <2>1 DEF AloneFollows
<1> QED BY <1>0, <1>1, <1>7, <1>8, <1>10, <1>11, <1>12, SaverStep

\* A reload stores the row of a key that the file gives.
LEMMA ReloadRowStep ==
    ASSUME SettingsInv, NEW h \in SettingHandlers, NEW k \in HotKeys, ReloadRow(h, k)
    PROVE  SettingsInv'
<1>0. /\ saver[h].at = "rows" /\ saver[h].kind = "file" /\ k \in saver[h].todo
      /\ UNCHANGED <<yamlFile, file_config, yaml_hot, effective, saves, uiSaved, secretSet, disturbed>>
      /\ saver[h] \in SaverStates /\ UiValueKept
      /\ settings \in [HotKeys -> [value : SettingValues, source : {"file", "ui"}]]
      /\ uiSaved \in [HotKeys -> SettingValues \cup {Unset}] /\ yaml_hot \in Hot
    BY DEF ReloadRow, SettingsInv, SettingsFollow, SettingsTypeOK
<1>1. /\ saver[h] \in [at : {"rows"}, kind : {"file"}, todo : SUBSET HotKeys, new : Config] /\ Active(h)
      /\ saver[h].new \in Config
    BY <1>0, SaverIs DEF Active, Resting
<1>3. PICK v \in SettingValues : v = saver[h].new.hot[k]
    BY <1>1 DEF Config, Hot
<1>4. PICK todo \in SUBSET HotKeys : todo = saver[h].todo \ {k}
    BY <1>1
<1>5. /\ [saver[h] EXCEPT !.todo = todo] \in [at : {"rows"}, kind : {"file"}, todo : SUBSET HotKeys, new : Config]
      /\ [saver[h] EXCEPT !.todo = todo].new = saver[h].new
    BY <1>1
<1>6. PICK s : s = [saver[h] EXCEPT !.todo = todo]
    OBVIOUS
<1>7. s \in SaverStates /\ s.at = "rows" /\ s.kind = "file" /\ s.new = saver[h].new /\ s # Resting
    BY <1>5, <1>6 DEF SaverStates, Resting
<1>8. Proceed(h, s) /\ saver'[h] = s
    <2>1. Proceed(h, s)
        BY <1>4, <1>6 DEF ReloadRow
    <2> QED BY <1>7, <2>1, SaverMoves
<1>9. PICK row \in [value : SettingValues, source : {"file", "ui"}] :
          row = FileRow(settings[k], v) /\ (settings[k].source = "ui" => row = settings[k])
    <2>1. settings[k] \in [value : SettingValues, source : {"file", "ui"}]
        BY <1>0
    <2>2. [settings[k] EXCEPT !.value = v] \in [value : SettingValues, source : {"file", "ui"}]
        BY <2>1
    <2>3. /\ FileRow(settings[k], v) \in [value : SettingValues, source : {"file", "ui"}]
          /\ settings[k].source = "ui" => FileRow(settings[k], v) = settings[k]
        BY <2>1, <2>2 DEF FileRow
    <2> QED BY <2>3
<1>10. settings' = [settings EXCEPT ![k] = row]
    BY <1>3, <1>9 DEF ReloadRow
<1>11. settings' \in [HotKeys -> [value : SettingValues, source : {"file", "ui"}]]
    BY <1>0, <1>10
<1>12. UiValueKept'
    BY <1>0, <1>9, <1>10 DEF UiValueKept
<1>13. ~disturbed => AloneFollows(h)'
    <2>1. ~disturbed => saver[h].new = yamlFile
        BY <1>0, <1>1 DEF SettingsInv, Undisturbed, AloneFollows
    <2> QED BY <1>0, <1>7, <1>8, <2>1 DEF AloneFollows
<1> QED BY <1>0, <1>1, <1>7, <1>8, <1>11, <1>12, <1>13, SaverStep


\* The base is taken, and the rows are read.
LEMMA TakeBaseStep ==
    ASSUME SettingsInv, NEW h \in SettingHandlers, TakeBase(h)
    PROVE  SettingsInv'
<1>0. /\ saver[h].at = "rows"
      /\ UNCHANGED <<yamlFile, file_config, settings, effective, saves, uiSaved, secretSet, disturbed>>
      /\ saver[h] \in SaverStates /\ UiValueKept
      /\ settings \in [HotKeys -> [value : SettingValues, source : {"file", "ui"}]]
      /\ uiSaved \in [HotKeys -> SettingValues \cup {Unset}] /\ yaml_hot \in Hot
      /\ yaml_hot' = IF saver[h].kind = "file" THEN saver[h].new.hot ELSE yaml_hot
    BY DEF TakeBase, SettingsInv, SettingsFollow, SettingsTypeOK
<1>1. Active(h) /\ saver[h].kind \in {"put", "file"}
    BY <1>0, SaverIs DEF Active, Resting
<1>2. /\ saver[h].kind = "put" => saver[h].new \in Updates
      /\ saver[h].kind = "file" => saver[h].new \in Config
    BY <1>0, <1>1, SaverIs DEF Active
<1>3. PICK base \in Hot : base = yaml_hot'
    BY <1>0, <1>1, <1>2 DEF Config
<1>4. [at |-> "select", kind |-> saver[h].kind, new |-> saver[h].new, base |-> base] \in SaverStates
    <2>1. CASE saver[h].kind = "put"
        BY <1>2, <2>1 DEF SaverStates
    <2>2. CASE saver[h].kind = "file"
        BY <1>2, <2>2 DEF SaverStates
    <2> QED BY <1>1, <2>1, <2>2
<1>5. PICK s \in SaverStates : s = [at |-> "select", kind |-> saver[h].kind, new |-> saver[h].new, base |-> base]
    BY <1>4
<1>6. s.at = "select" /\ s.kind = saver[h].kind /\ s.new = saver[h].new /\ s.base = base /\ s # Resting
    BY <1>5 DEF Resting
<1>7. Proceed(h, s)
    BY <1>3, <1>5 DEF TakeBase
<1>8. saver'[h] = s
    BY <1>7, SaverMoves
<1>9. UiValueKept'
    BY <1>0 DEF UiValueKept
<1>10. ~disturbed => AloneFollows(h)'
    <2>1. ASSUME ~disturbed
          PROVE  /\ saver[h].kind = "put" => file_config = yamlFile /\ yaml_hot = yamlFile.hot
                 /\ saver[h].kind = "file" => saver[h].new = yamlFile
        BY <1>1, <2>1 DEF SettingsInv, Undisturbed, AloneFollows
    <2>2. ASSUME ~disturbed PROVE yaml_hot' = yamlFile.hot
        BY <1>0, <1>1, <2>1, <2>2
    <2> QED BY <1>0, <1>3, <1>6, <1>8, <2>1, <2>2 DEF AloneFollows
<1> QED BY <1>0, <1>1, <1>3, <1>6, <1>7, <1>9, <1>10, SaverStep

\* The rows are read and merged with the base.
LEMMA SelectRowsStep ==
    ASSUME SettingsInv, NEW h \in SettingHandlers, SelectRows(h)
    PROVE  SettingsInv'
<1>0. /\ saver[h].at = "select"
      /\ UNCHANGED <<yamlFile, file_config, yaml_hot, settings, effective, saves, uiSaved, secretSet, disturbed>>
      /\ saver[h] \in SaverStates /\ UiValueKept
      /\ settings \in [HotKeys -> [value : SettingValues, source : {"file", "ui"}]]
      /\ uiSaved \in [HotKeys -> SettingValues \cup {Unset}] /\ yaml_hot \in Hot
    BY DEF SelectRows, SettingsInv, SettingsFollow, SettingsTypeOK
<1>1. Active(h) /\ saver[h].kind \in {"put", "file"} /\ saver[h].base \in Hot
    BY <1>0, SaverIs DEF Active, Resting
<1>2. /\ saver[h].kind = "put" => saver[h].new \in Updates
      /\ saver[h].kind = "file" => saver[h].new \in Config
    BY <1>0, <1>1, SaverIs DEF Active
<1>3. PICK merged \in Hot : merged = Merge(saver[h].base, settings)
    BY <1>0, <1>1, MergeType
<1>4. [at |-> "store", kind |-> saver[h].kind, new |-> saver[h].new, merged |-> merged] \in SaverStates
    <2>1. CASE saver[h].kind = "put"
        BY <1>2, <2>1 DEF SaverStates
    <2>2. CASE saver[h].kind = "file"
        BY <1>2, <2>2 DEF SaverStates
    <2> QED BY <1>1, <2>1, <2>2
<1>5. PICK s \in SaverStates : s = [at |-> "store", kind |-> saver[h].kind, new |-> saver[h].new, merged |-> merged]
    BY <1>4
<1>6. s.at = "store" /\ s.kind = saver[h].kind /\ s.new = saver[h].new /\ s.merged = merged /\ s # Resting
    BY <1>5 DEF Resting
<1>7. Proceed(h, s)
    BY <1>3, <1>5 DEF SelectRows
<1>8. saver'[h] = s
    BY <1>7, SaverMoves
<1>9. UiValueKept'
    BY <1>0 DEF UiValueKept
<1>10. ~disturbed => AloneFollows(h)'
    <2>1. ASSUME ~disturbed
          PROVE  /\ saver[h].kind = "put" => file_config = yamlFile /\ yaml_hot = yamlFile.hot
                 /\ saver[h].kind = "file" => saver[h].new = yamlFile /\ yaml_hot = yamlFile.hot
                 /\ saver[h].base = yamlFile.hot
        BY <1>0, <1>1, <2>1 DEF SettingsInv, Undisturbed, AloneFollows
    <2>2. Merge(yamlFile.hot, settings)' = Merge(yamlFile.hot, settings)
        BY <1>0 DEF Merge
    <2>3. ASSUME ~disturbed PROVE s.merged = Merge(yamlFile.hot, settings)
        BY <1>3, <1>6, <2>1, <2>3
    <2> QED BY <1>0, <1>6, <1>8, <2>1, <2>2, <2>3 DEF AloneFollows
<1> QED BY <1>0, <1>1, <1>6, <1>7, <1>9, <1>10, SaverStep

\* A handler comes to rest.
LEMMA StoreStep ==
    ASSUME SettingsInv, NEW h \in SettingHandlers, StoreEffective(h)
    PROVE  SettingsInv'
<1>0. /\ saver[h].at = "store" /\ Proceed(h, Resting)
      /\ UNCHANGED <<yamlFile, yaml_hot, settings, saves, uiSaved, secretSet, disturbed>>
      /\ effective' = saver[h].merged
      /\ file_config' = IF saver[h].kind = "file" THEN saver[h].new ELSE file_config
    BY DEF StoreEffective
<1>1. SettingsTypeOK /\ UiValueKept /\ SecretSurvivesMask /\ Undisturbed /\ TodoFits /\ saver[h] \in SaverStates
    BY DEF SettingsInv, SettingsFollow, SettingsTypeOK
<1>2. /\ Active(h) /\ saver[h].kind \in {"put", "file"} /\ saver[h].merged \in Hot
      /\ saver[h].kind = "file" => saver[h].new \in Config
    BY <1>0, <1>1, SaverIs DEF Active, Resting
<1>3. Resting \in SaverStates /\ Resting.at = "rest"
    BY DEF SaverStates, Resting
<1>4. /\ DOMAIN saver' = SettingHandlers /\ \A g \in SettingHandlers : saver'[g] \in SaverStates
      /\ saver'[h] = Resting /\ \A g \in SettingHandlers : g # h => saver'[g] = saver[g]
    BY <1>0, <1>3, SaverMoves
<1>5. SettingsTypeOK'
    BY <1>0, <1>1, <1>2, <1>4 DEF SettingsTypeOK
<1>6. UiValueKept' /\ SecretSurvivesMask'
    BY <1>0, <1>1 DEF UiValueKept, SecretSurvivesMask
<1>7. TodoFits'
    BY <1>1, <1>3, <1>4 DEF TodoFits
<1>8. ASSUME ~disturbed
      PROVE  /\ \A g \in SettingHandlers : saver'[g] = Resting
             /\ effective' = Merge(yamlFile.hot, settings) /\ file_config' = yamlFile /\ yaml_hot = yamlFile.hot
    BY <1>0, <1>1, <1>2, <1>4, <1>8 DEF Undisturbed, Active, AloneFollows
<1>9. RestartChangesNothing'
    <2>1. Merge(yamlFile.hot, settings)' = Merge(yamlFile.hot, settings)
        BY <1>0 DEF Merge
    <2> QED BY <1>0, <1>8, <2>1 DEF RestartChangesNothing
<1>10. Undisturbed'
    BY <1>0, <1>3, <1>8 DEF Undisturbed, Active, AloneFollows
<1> QED BY <1>5, <1>6, <1>7, <1>9, <1>10 DEF SettingsInv, SettingsFollow

\* A handler fails, and what it has stored stays.
LEMMA SaveFailsStep ==
    ASSUME SettingsInv, NEW h \in SettingHandlers, SaveFails(h)
    PROVE  SettingsInv'
<1>0. /\ Proceed(h, Resting) /\ disturbed' = TRUE
      /\ UNCHANGED <<yamlFile, file_config, yaml_hot, settings, effective, saves, uiSaved, secretSet>>
    BY DEF SaveFails
<1>1. SettingsTypeOK /\ UiValueKept /\ TodoFits
    BY DEF SettingsInv, SettingsFollow
<1>2. Resting \in SaverStates /\ Resting.at = "rest"
    BY DEF SaverStates, Resting
<1>3. /\ DOMAIN saver' = SettingHandlers /\ \A g \in SettingHandlers : saver'[g] \in SaverStates
      /\ saver'[h] = Resting /\ \A g \in SettingHandlers : g # h => saver'[g] = saver[g]
    BY <1>0, <1>2, SaverMoves
<1>4. SettingsTypeOK'
    BY <1>0, <1>1, <1>3 DEF SettingsTypeOK
<1>5. UiValueKept'
    BY <1>0, <1>1 DEF UiValueKept
<1>6. TodoFits'
    BY <1>1, <1>2, <1>3 DEF TodoFits
<1>7. Undisturbed' /\ RestartChangesNothing' /\ SecretSurvivesMask'
    BY <1>0 DEF Undisturbed, RestartChangesNothing, SecretSurvivesMask
<1> QED BY <1>4, <1>5, <1>6, <1>7 DEF SettingsInv, SettingsFollow

\* The file is edited outside the process.
LEMMA EditYamlStep ==
    ASSUME SettingsInv, NEW hot \in Hot, NEW secret \in SettingValues, EditYaml([hot |-> hot, secret |-> secret])
    PROVE  SettingsInv'
<1>0. /\ saves < MaxSaves /\ saves' = saves + 1 /\ disturbed' = TRUE /\ yamlFile' = [hot |-> hot, secret |-> secret]
      /\ UNCHANGED <<file_config, yaml_hot, settings, effective, saver, uiSaved>>
    BY DEF EditYaml
<1>1. yamlFile' \in Config
    BY <1>0 DEF Config
<1>2. saves' \in 0 .. MaxSaves
    BY <1>0, SettingsAssumption DEF SettingsInv, SettingsFollow, SettingsTypeOK
<1>3. SettingsTypeOK'
    BY <1>0, <1>1, <1>2 DEF SettingsInv, SettingsFollow, SettingsTypeOK
<1>4. UiValueKept' /\ TodoFits'
    BY <1>0 DEF SettingsInv, SettingsFollow, UiValueKept, TodoFits
<1>5. Undisturbed' /\ RestartChangesNothing' /\ SecretSurvivesMask'
    BY <1>0 DEF Undisturbed, RestartChangesNothing, SecretSurvivesMask
<1> QED BY <1>3, <1>4, <1>5 DEF SettingsInv, SettingsFollow

\* A restart reads file and rows again.
LEMMA StartAgainStep ==
    ASSUME SettingsInv, StartAgain
    PROVE  SettingsInv'
<1>0. /\ saves < MaxSaves /\ saves' = saves + 1 /\ file_config' = yamlFile /\ yaml_hot' = yamlFile.hot
      /\ effective' = Merge(yamlFile.hot, settings) /\ saver' = [h \in SettingHandlers |-> Resting]
      /\ secretSet' = yamlFile.secret /\ disturbed' = FALSE /\ UNCHANGED <<yamlFile, settings, uiSaved>>
    BY DEF StartAgain
<1>1. SettingsTypeOK /\ UiValueKept /\ yamlFile \in Config /\ yamlFile.hot \in Hot
    BY DEF SettingsInv, SettingsFollow, SettingsTypeOK, Config
<1>2. Resting \in SaverStates /\ Resting.at = "rest"
    BY DEF SaverStates, Resting
<1>3. Merge(yamlFile.hot, settings) \in Hot
    BY <1>1, MergeType DEF SettingsTypeOK
<1>4. saves' \in 0 .. MaxSaves
    BY <1>0, <1>1, SettingsAssumption DEF SettingsTypeOK
<1>5. SettingsTypeOK'
    BY <1>0, <1>1, <1>2, <1>3, <1>4 DEF SettingsTypeOK
<1>6. UiValueKept' /\ SecretSurvivesMask'
    BY <1>0, <1>1 DEF UiValueKept, SecretSurvivesMask
<1>7. RestartChangesNothing'
    <2>1. Merge(yamlFile.hot, settings)' = Merge(yamlFile.hot, settings)
        BY <1>0 DEF Merge
    <2> QED BY <1>0, <2>1 DEF RestartChangesNothing
<1>8. Undisturbed' /\ TodoFits'
    BY <1>0, <1>2 DEF Undisturbed, TodoFits, AloneFollows, Active
<1> QED BY <1>5, <1>6, <1>7, <1>8 DEF SettingsInv, SettingsFollow

\* Every step keeps the copies and the configuration in line.
LEMMA SettingsStep == SettingsInv /\ [SettingsNext]_settingsVars => SettingsInv'
<1> SUFFICES ASSUME SettingsInv, [SettingsNext]_settingsVars PROVE SettingsInv'
    OBVIOUS
<1>1. CASE UNCHANGED settingsVars
    BY <1>1 DEF settingsVars, SettingsInv, SettingsFollow, SettingsTypeOK, RestartChangesNothing, AllResting, UiValueKept,
                SecretSurvivesMask, Undisturbed, TodoFits, AloneFollows, Active, Merge
<1>2. ASSUME NEW h \in SettingHandlers, \E k \in HotKeys : PutRow(h, k) \/ ReloadRow(h, k) PROVE SettingsInv'
    BY <1>2, PutRowStep, ReloadRowStep
<1>3. ASSUME NEW h \in SettingHandlers, TakeBase(h) \/ SelectRows(h) \/ StoreEffective(h) \/ SaveFails(h) PROVE SettingsInv'
    BY <1>3, TakeBaseStep, SelectRowsStep, StoreStep, SaveFailsStep
<1>4. CASE \E hot \in Hot, secret \in SettingValues : EditYaml([hot |-> hot, secret |-> secret])
    BY <1>4, EditYamlStep
<1> QED BY <1>1, <1>2, <1>3, <1>4, SaveBeginsStep, StartAgainStep DEF SettingsNext

\* However many handlers save, reload and replace the configuration at once (settings.rs,
\* admin/settings_api.rs): a value saved in the UI stays what it was saved as, and when no two of them
\* overlapped, none failed and nobody edited the file, a restart at rest would change nothing
\* and a mask sent back has kept the secret.
THEOREM SettingsAreFollowed == SettingsSpec => []SettingsFollow
<1>1. SettingsInv => SettingsFollow
    BY DEF SettingsInv
<1> QED BY <1>1, SettingsStart, SettingsStep, PTL DEF SettingsSpec

-----------------------------------------------------------------------------
(* The price of an event, and the bill.                                      *)

\* The rates that a provider reported and that are still to be stored.
FetchTyped == fetch \in Seq([from : {"CNY", "USD", "EUR"}, to : {"CNY", "USD"}, rate : FxRates])

\* The tables behind a price.
RulesTyped == rules \in RuleTables
TablesTyped ==
    /\ minute \in 0 .. MaxMinutes /\ fxWrites \in 0 .. MaxFxWrites
    /\ RulesTyped /\ FxSound(fx) /\ FetchTyped

\* The bounds as numbers, and the providers.
LEMMA PricingNats ==
    /\ MaxMinutes \in Nat /\ MaxFxWrites \in Nat
    /\ FxProviders \subseteq {"usd_base", "cny_base", "ecb"}
BY PricingAssumption

\* The rate of a conversion, by the rows that are known.
LEMMA RateChosen ==
    ASSUME NEW reading, \A row \in reading.fx : row.source \in {"manual", "auto"}, NEW from, NEW to
    PROVE  RateFits(convert(reading, from, to), from, to, reading.fx, reading.now)
<1> DEFINE rows(a, b, source) == {r \in reading.fx : r.from = a /\ r.to = b /\ r.source = source}
           young(a, b) == {r \in rows(a, b, "auto") : reading.now - r.at <= FxStaleMax}
<1>1. ASSUME NEW a, NEW b
      PROVE  /\ rows(a, b, "manual") # {} => Direct(reading, <<a, b>>) = rows(a, b, "manual")
             /\ rows(a, b, "manual") = {} => Direct(reading, <<a, b>>) = young(a, b)
    BY DEF Direct, Pair, UsableRow
<1>2. Builtin(<<from, to>>).source = "builtin"
    BY DEF Builtin, Rate
<1>3. ASSUME NEW row, NEW n, NEW d PROVE Rate(n, d, row.source).source = row.source
    BY DEF Rate
<1>4. CASE Direct(reading, <<from, to>>) # {}
    <2>1. PICK row \in Direct(reading, <<from, to>>) : convert(reading, from, to) = Rate(row.rate, 1, row.source)
        BY <1>4 DEF convert, build_fx_set
    <2> QED BY <1>1, <1>3, <2>1 DEF RateFits
<1>5. CASE Direct(reading, <<from, to>>) = {} /\ Direct(reading, <<to, from>>) # {}
    <2>1. PICK row \in Direct(reading, <<to, from>>) : convert(reading, from, to) = Rate(1, row.rate, row.source)
        BY <1>5 DEF convert, build_fx_set
    <2> QED BY <1>1, <1>3, <1>5, <2>1 DEF RateFits
<1>6. CASE Direct(reading, <<from, to>>) = {} /\ Direct(reading, <<to, from>>) = {}
    <2>1. convert(reading, from, to) = Builtin(<<from, to>>)
        BY <1>6 DEF convert, build_fx_set
    <2> QED BY <1>1, <1>2, <1>6, <2>1 DEF RateFits
<1> QED BY <1>4, <1>5, <1>6

\* The units that have a line.
LEMMA LinesCover ==
    ASSUME NEW e, NEW u \in PriceUnits
    PROVE  (\E l \in UsageLines(e) : l.unit = u) <=>
               /\ HasQuantity(u, e)
               /\ \E r \in rules : /\ r.unit = u /\ r.enabled /\ r.from <= e.at /\ e.at <= r.to
                                   /\ r.dim \in {"", input_dimension_key(u, e)}
<1>1. Candidates(u, e) # {} <=>
          \E r \in rules : /\ r.unit = u /\ r.enabled /\ r.from <= e.at /\ e.at <= r.to
                           /\ r.dim \in {"", input_dimension_key(u, e)}
    BY DEF Candidates, in_effect
<1>2. ASSUME NEW v, NEW r
      PROVE  [unit |-> v, currency |-> r.currency, price |-> match_segment(r, e)].unit = v
    OBVIOUS
<1>3. ASSUME NEW l \in UsageLines(e), l.unit = u PROVE HasQuantity(u, e) /\ Candidates(u, e) # {}
    <2>1. PICK v \in {x \in PriceUnits : HasQuantity(x, e)} :
              l \in {[unit |-> v, currency |-> r.currency, price |-> match_segment(r, e)] : r \in Candidates(v, e)}
        BY <1>3 DEF UsageLines
    <2>2. PICK r \in Candidates(v, e) :
              l = [unit |-> v, currency |-> r.currency, price |-> match_segment(r, e)]
        BY <2>1
    <2>3. v = u
        BY <1>2, <1>3, <2>2
    <2> QED BY <2>2, <2>3
<1>4. ASSUME HasQuantity(u, e), NEW r \in Candidates(u, e) PROVE \E l \in UsageLines(e) : l.unit = u
    <2>1. PICK l : l = [unit |-> u, currency |-> r.currency, price |-> match_segment(r, e)]
        OBVIOUS
    <2>2. u \in {x \in PriceUnits : HasQuantity(x, e)}
        BY <1>4
    <2>3. l \in UsageLines(e)
        BY <2>1, <2>2 DEF UsageLines
    <2> QED BY <1>2, <2>1, <2>3
<1> QED BY <1>1, <1>3, <1>4

\* The line of a rule.
LEMMA LineOfRule ==
    ASSUME NEW e, NEW l \in UsageLines(e)
    PROVE  /\ l.unit \in PriceUnits
           /\ \E r \in Candidates(l.unit, e) : l.currency = r.currency /\ l.price = match_segment(r, e)
<1>1. PICK v \in {x \in PriceUnits : HasQuantity(x, e)} :
          l \in {[unit |-> v, currency |-> r.currency, price |-> match_segment(r, e)] : r \in Candidates(v, e)}
    BY DEF UsageLines
<1>2. PICK r \in Candidates(v, e) : l = [unit |-> v, currency |-> r.currency, price |-> match_segment(r, e)]
    BY <1>1
<1>3. l.unit = v /\ l.currency = r.currency /\ l.price = match_segment(r, e)
    BY <1>2
<1> QED BY <1>1, <1>2, <1>3

\* The remainder of a number that is less than a day away from one.
LEMMA OneDayOff ==
    ASSUME NEW d \in Nat \ {0}, NEW x \in Int
    PROVE  /\ 0 <= x /\ x < d => x % d = x
           /\ d <= x /\ x < 2 * d => x % d = x - d
           /\ (0 - d) <= x /\ x < 0 => x % d = x + d
OBVIOUS

\* A window holds the minutes met on the way from its start to its end.
LEMMA WindowIsTheWay ==
    ASSUME NEW w \in Times \X Times, NEW m \in Times
    PROVE  window_hit(w, m) <=> OnTheWay(w, m)
<1>1. PICK d \in Nat \ {0} : d = DayLength
    BY PricingAssumption
<1>2. PICK a \in 0 .. d - 1, b \in 0 .. d - 1 : a = w[1] /\ b = w[2]
    BY <1>1 DEF Times
<1>3. m \in 0 .. d - 1
    BY <1>1 DEF Times
<1>4. OnTheWay(w, m) <=> \E k \in 0 .. ((b - a) % d) : m = (a + k) % d /\ (a > b => k < (b - a) % d)
    BY <1>1, <1>2 DEF OnTheWay
<1>5. window_hit(w, m) <=> IF a <= b THEN a <= m /\ m <= b ELSE m >= a \/ m < b
    BY <1>2 DEF window_hit
<1>6. CASE a <= b
    <2>1. (b - a) % d = b - a
        BY <1>2, <1>6, OneDayOff
    <2>2. ASSUME NEW k \in 0 .. b - a PROVE (a + k) % d = a + k
        <3>1. a + k \in Int /\ 0 <= a + k /\ a + k < d
            BY <1>2, <1>6
        <3> QED BY <3>1, OneDayOff
    <2>3. (\E k \in 0 .. b - a : m = a + k) <=> a <= m /\ m <= b
        <3>1. a <= m /\ m <= b => m - a \in 0 .. b - a /\ m = a + (m - a)
            BY <1>2, <1>3
        <3> QED BY <1>2, <1>3, <3>1
    <2> QED BY <1>2, <1>4, <1>5, <1>6, <2>1, <2>2, <2>3
<1>7. CASE a > b
    <2>1. (b - a) % d = b - a + d
        BY <1>2, <1>7, OneDayOff
    <2>2. ASSUME NEW k \in 0 .. (b - a + d), k < b - a + d, m = (a + k) % d PROVE m >= a \/ m < b
        <3>1. CASE a + k < d
            <4>1. (a + k) % d = a + k
                <5>1. a + k \in Int /\ 0 <= a + k
                    BY <1>2
                <5> QED BY <3>1, <5>1, OneDayOff
            <4> QED BY <1>2, <2>2, <4>1
        <3>2. CASE a + k >= d
            <4>1. a + k < 2 * d
                BY <1>2, <2>2
            <4>2. (a + k) % d = a + k - d
                BY <1>2, <3>2, <4>1, OneDayOff
            <4> QED BY <1>2, <2>2, <4>2
        <3> QED BY <1>2, <3>1, <3>2
    <2>3. ASSUME m >= a PROVE \E k \in 0 .. (b - a + d) : k < b - a + d /\ m = (a + k) % d
        <3>1. m - a \in 0 .. (b - a + d) /\ m - a < b - a + d /\ a + (m - a) = m
            BY <1>2, <1>3, <2>3
        <3>2. m % d = m
            BY <1>3, OneDayOff
        <3> QED BY <3>1, <3>2
    <2>4. ASSUME m < b PROVE \E k \in 0 .. (b - a + d) : k < b - a + d /\ m = (a + k) % d
        <3>1. m - a + d \in 0 .. (b - a + d) /\ m - a + d < b - a + d /\ a + (m - a + d) = m + d
            BY <1>2, <1>3, <2>4
        <3>2. (m + d) % d = m
            BY <1>3, OneDayOff
        <3> QED BY <3>1, <3>2
    <2> QED BY <1>2, <1>4, <1>5, <1>7, <2>1, <2>2, <2>3, <2>4
<1> QED BY <1>2, <1>6, <1>7

\* What a segment covers, as PriceByTheClock says it.
Covers(q, r, e) ==
    LET local == e.at + TzShift
    IN  /\ q.days # {} => local \div DayLength \in q.days
        /\ q.windows # {} => \E w \in q.windows : OnTheWay(w, local % DayLength)
        /\ context_value(r, e) \in q.min .. q.max

\* An event with its time and its usage.
EventWellFormed(e) == e.at \in Nat /\ e.use \in [PriceUnits -> Int]

\* A segment that matches is one that covers the event.
LEMMA MatchesIsCovers ==
    ASSUME NEW e, EventWellFormed(e), NEW r, NEW q \in Segments
    PROVE  LET local == e.at + TzShift
           IN  segment_matches(q, context_value(r, e), local \div DayLength, local % DayLength) <=> Covers(q, r, e)
<1>1. PICK d \in Nat \ {0} : d = DayLength
    BY PricingAssumption
<1>2. PICK x \in Nat : x = e.at + TzShift
    BY PricingAssumption DEF EventWellFormed
<1>3. x % d \in Times
    <2>1. x % d \in 0 .. d - 1
        OBVIOUS
    <2> QED BY <1>1, <2>1 DEF Times
<1>4. q.windows \subseteq Times \X Times /\ q.min \in Int /\ q.max \in Int
    BY DEF Segments
<1>5. \A w \in q.windows : window_hit(w, x % d) <=> OnTheWay(w, x % d)
    BY <1>3, <1>4, WindowIsTheWay
<1>6. context_value(r, e) \in Int
    BY DEF context_value, EventWellFormed, PriceUnits, TokenUnits
<1>7. context_value(r, e) \in q.min .. q.max <=> q.min <= context_value(r, e) /\ context_value(r, e) <= q.max
    BY <1>4, <1>6
<1> QED BY <1>1, <1>2, <1>5, <1>7, Zenon DEF segment_matches, Covers

\* The price of the first segment that covers the event, else the base.
LEMMA PriceOfSegment ==
    ASSUME NEW e, EventWellFormed(e), NEW r, r.segments \in Seq(Segments)
    PROVE  LET covering == {i \in DOMAIN r.segments : Covers(r.segments[i], r, e)}
           IN  \/ covering = {} /\ match_segment(r, e) = r.base
               \/ \E i \in covering : (\A j \in covering : i <= j) /\ match_segment(r, e) = r.segments[i].price
<1> DEFINE local == e.at + TzShift
           hits == {i \in DOMAIN r.segments :
                       segment_matches(r.segments[i], context_value(r, e), local \div DayLength, local % DayLength)}
           covering == {i \in DOMAIN r.segments : Covers(r.segments[i], r, e)}
<1>1. PICK n \in Nat : DOMAIN r.segments = 1 .. n
    OBVIOUS
<1>2. \A i \in DOMAIN r.segments : r.segments[i] \in Segments
    OBVIOUS
<1>3. hits = covering
    BY <1>2, MatchesIsCovers
<1>4. match_segment(r, e) = IF hits = {} THEN r.base ELSE r.segments[Min(hits)].price
    BY Zenon DEF match_segment
<1>5. covering \in SUBSET (1 .. n)
    BY <1>1
<1> HIDE DEF hits, covering
<1>6. covering # {} => \E x \in covering : \A y \in covering : x <= y
    BY <1>5, LeastExists
<1>7. covering # {} => Min(covering) \in covering /\ \A y \in covering : Min(covering) <= y
    BY <1>6, Zenon DEF Min
<1>8. \/ covering = {} /\ match_segment(r, e) = r.base
      \/ \E i \in covering : (\A j \in covering : i <= j) /\ match_segment(r, e) = r.segments[i].price
    BY <1>3, <1>4, <1>7, Zenon
<1> QED BY <1>8 DEF covering

\* The rate that a conversion of the lines records.
LEMMA RateRecorded ==
    ASSUME NEW reading, NEW lines, NEW l \in lines, l.currency \in Currencies, NEW c \in Currencies, l.currency # c
    PROVE  (CHOOSE f \in FxUsed(reading, lines) : f.from = l.currency /\ f.to = c).rate = convert(reading, l.currency, c)
<1>1. Other(l.currency) = c
    BY DEF Currencies, Other
<1>2. ASSUME NEW f \in FxUsed(reading, lines) PROVE f.rate = convert(reading, f.from, f.to)
    <2>1. PICK k \in lines : f = [from |-> k.currency, to |-> Other(k.currency), rate |-> convert(reading, k.currency, Other(k.currency))]
        BY DEF FxUsed
    <2> QED BY <2>1
<1>3. PICK g : g = [from |-> l.currency, to |-> Other(l.currency), rate |-> convert(reading, l.currency, Other(l.currency))]
    OBVIOUS
<1>4. g \in FxUsed(reading, lines) /\ g.from = l.currency /\ g.to = c
    BY <1>1, <1>3 DEF FxUsed
<1> DEFINE h == CHOOSE f \in FxUsed(reading, lines) : f.from = l.currency /\ f.to = c
<1>5. h \in FxUsed(reading, lines) /\ h.from = l.currency /\ h.to = c
    BY <1>4, Zenon
<1> HIDE DEF h
<1>6. h.rate = convert(reading, l.currency, c)
    BY <1>2, <1>5
<1> QED BY <1>6 DEF h

\* The total computed from the recorded rates is the total that was charged.
LEMMA TotalIsAudited ==
    ASSUME NEW reading, NEW e, NEW lines, \A l \in lines : l.currency \in Currencies, NEW c \in Currencies
    PROVE  TotalIn(reading, c, lines, e) =
               SumFunction([x \in lines |->
                   IF x.currency = c THEN LineCost(x, e)
                   ELSE Converted(LineCost(x, e), (CHOOSE f \in FxUsed(reading, lines) : f.from = x.currency /\ f.to = c).rate)])
<1> DEFINE A == [l \in lines |-> IF l.currency = c THEN LineCost(l, e) ELSE Converted(LineCost(l, e), convert(reading, l.currency, c))]
           B == [x \in lines |->
                   IF x.currency = c THEN LineCost(x, e)
                   ELSE Converted(LineCost(x, e), (CHOOSE f \in FxUsed(reading, lines) : f.from = x.currency /\ f.to = c).rate)]
<1>1. ASSUME NEW l \in lines PROVE A[l] = B[l]
    <2>1. CASE l.currency = c
        BY <2>1
    <2>2. CASE l.currency # c
        <3>1. (CHOOSE f \in FxUsed(reading, lines) : f.from = l.currency /\ f.to = c).rate = convert(reading, l.currency, c)
            BY <2>2, RateRecorded
        <3> QED BY <2>2, <3>1
    <2> QED BY <2>1, <2>2
<1>2. A = B
    BY <1>1
<1>3. TotalIn(reading, c, lines, e) = SumFunction(A)
    BY DEF TotalIn
<1> HIDE DEF A, B
<1>4. TotalIn(reading, c, lines, e) = SumFunction(B)
    BY <1>2, <1>3
<1> QED BY <1>4 DEF B

\* What AuditTrail computes again.
Recomputed(c, p, e) ==
    SumFunction([x \in p.price_used |->
        IF x.currency = c THEN LineCost(x, e)
        ELSE Converted(LineCost(x, e), (CHOOSE f \in p.fx_snapshot : f.from = x.currency /\ f.to = c).rate)])

\* What PriceByTheClock says of one line.
LineJustified(x, e, table) ==
    \E r \in table :
        LET key == input_dimension_key(x.unit, e)
            active(q) == q.unit = x.unit /\ q.enabled /\ q.from <= e.at /\ e.at <= q.to
            covering == {i \in DOMAIN r.segments : Covers(r.segments[i], r, e)}
        IN  /\ active(r) /\ r.currency = x.currency
            /\ r.dim = key \/ (r.dim = "" /\ ~\E q \in table : active(q) /\ q.dim = key)
            /\ \/ covering = {} /\ x.price = r.base
               \/ \E i \in covering : (\A j \in covering : i <= j) /\ x.price = r.segments[i].price

\* An event that was logged has its time and its usage.
EventTyped == event # NoEvent => EventWellFormed(event)

\* Price fields: a record with a flag, whose totals can be computed again.
PriceOK(p, e) ==
    /\ p = [f \in DOMAIN p |-> p[f]] /\ "priced" \in DOMAIN p /\ p.priced \in BOOLEAN
    /\ p.priced => p.cost_cny = Recomputed("CNY", p, e) /\ p.cost_usd = Recomputed("USD", p, e)

\* What RateJustified, PricedIffCovered and PriceByTheClock say, of an attempt and an event.
Explained(m, e) ==
    /\ m.price.priced => \A f \in m.price.fx_snapshot : RateFits(f.rate, f.from, f.to, m.reading.fx, m.reading.now)
    /\ \A u \in PriceUnits :
          (\E x \in LinesOf(m) : x.unit = u) <=>
              /\ HasQuantity(u, e)
              /\ \E r \in m.table : /\ r.unit = u /\ r.enabled /\ r.from <= e.at /\ e.at <= r.to
                                    /\ r.dim \in {"", input_dimension_key(u, e)}
    /\ \A x \in LinesOf(m) : LineJustified(x, e, m.table)

AttemptOK(s, e) ==
    \/ s = AtRest
    \/ s.pc = "rules" /\ FxSound(s.fx)
    \/ s.pc = "insert" /\ PriceOK(s.price, e) /\ s.price # Nowhere /\ (s.made => Explained(s, e))

AttemptsOK == \A a \in Pricers : AttemptOK(attempt[a], event)
CopiesOK == \A p \in {queued, wal, task_price, log_row} : PriceOK(p, event)

\* Before the event is logged it is nowhere.
Quiet ==
    /\ event = NoEvent => attempt["poller"] = AtRest
    /\ event = NoEvent \/ attempt["poller"] # AtRest =>
           /\ queued = Nowhere /\ wal = Nowhere /\ log_row = Nowhere /\ task_price = Unpriced
           /\ attempt["writer"] = AtRest /\ attempt["replay"] = AtRest

Totalled == spent = IF log_row = Nowhere THEN <<>> ELSE <<log_row>>

\* The price that was stored with a task is that of every copy of its event.
TaskFinal ==
    task_price.priced =>
        /\ \A p \in {queued, wal, log_row} : p = Nowhere \/ p = task_price
        /\ \A a \in Inserters : /\ attempt[a].pc # "rules"
                                /\ attempt[a].pc = "insert" => attempt[a].price = task_price

BillInv ==
    /\ EventTyped /\ DOMAIN attempt = Pricers
    /\ AttemptsOK /\ CopiesOK /\ Quiet /\ Totalled /\ TaskFinal

\* The states of an attempt and the kinds of price, as records.
LEMMA PriceKinds ==
    /\ AtRest.pc = "rest" /\ Nowhere.priced = FALSE /\ Unpriced.priced = FALSE
    /\ Unpriced # Nowhere
    /\ \A e : PriceOK(Nowhere, e) /\ PriceOK(Unpriced, e)
<1>1. AtRest.pc = "rest" /\ Nowhere.priced = FALSE /\ Unpriced.priced = FALSE
    BY DEF AtRest, Nowhere, Unpriced
<1>2. DOMAIN Nowhere = {"priced", "copy"} /\ DOMAIN Unpriced = {"priced"}
    BY DEF Nowhere, Unpriced
<1>3. Unpriced # Nowhere
    BY <1>2
<1>4. Nowhere = [f \in DOMAIN Nowhere |-> Nowhere[f]] /\ Unpriced = [f \in DOMAIN Unpriced |-> Unpriced[f]]
    BY DEF Nowhere, Unpriced
<1>5. ASSUME NEW e PROVE PriceOK(Nowhere, e) /\ PriceOK(Unpriced, e)
    BY <1>1, <1>2, <1>4 DEF PriceOK
<1> QED BY <1>1, <1>3, <1>5

\* A price survives its line in the WAL.
LEMMA LineKeeps ==
    ASSUME NEW p, NEW e, PriceOK(p, e)
    PROVE  encode_line(p) = p /\ decode_line(p) = p
<1>1. p = [f \in DOMAIN p |-> p[f]] /\ "priced" \in DOMAIN p
    BY DEF PriceOK
<1>2. DOMAIN p \cup {"priced"} = DOMAIN p
    BY <1>1
<1>3. [f \in DOMAIN p |-> IF f \in DOMAIN p THEN p[f] ELSE FALSE] = [f \in DOMAIN p |-> p[f]]
    OBVIOUS
<1>4. decode_line(p) = [f \in DOMAIN p |-> IF f \in DOMAIN p THEN p[f] ELSE FALSE]
    BY <1>2, Zenon DEF decode_line
<1> QED BY <1>1, <1>3, <1>4, Zenon DEF encode_line

\* PriceJustified, by its parts.
LEMMA TrailIs ==
    ASSUME NEW p, PriceOK(p, event) PROVE AuditTrail(p)
BY Zenon DEF AuditTrail, Recomputed, PriceOK

LEMMA ExplainedIs ==
    ASSUME NEW m, Explained(m, event)
    PROVE  RateJustified(m) /\ PricedIffCovered(m) /\ PriceByTheClock(m)
<1>1. RateJustified(m) /\ PricedIffCovered(m)
    BY Zenon DEF Explained, RateJustified, PricedIffCovered
<1>2. PriceByTheClock(m)
    BY Zenon DEF Explained, PriceByTheClock, LineJustified, Covers
<1> QED BY <1>1, <1>2

\* Each line has a rule that explains it.
LEMMA LinesByTheClock ==
    ASSUME RulesTyped, NEW e, EventWellFormed(e), NEW x \in UsageLines(e)
    PROVE  x.currency \in Currencies /\ LineJustified(x, e, rules)
<1>1. PICK r \in Candidates(x.unit, e) : x.currency = r.currency /\ x.price = match_segment(r, e)
    BY LineOfRule
<1> DEFINE key == input_dimension_key(x.unit, e)
           active(q) == q.unit = x.unit /\ q.enabled /\ q.from <= e.at /\ e.at <= q.to
<1>2. r \in rules /\ active(r) /\ (r.dim = key \/ (r.dim = "" /\ ~\E q \in rules : active(q) /\ q.dim = key))
    BY DEF Candidates, in_effect
<1>3. r.currency \in Currencies /\ r.segments \in Seq(Segments)
    BY <1>2, RuleAssumption DEF RulesTyped
<1>4. LET covering == {i \in DOMAIN r.segments : Covers(r.segments[i], r, e)}
      IN  \/ covering = {} /\ x.price = r.base
          \/ \E i \in covering : (\A j \in covering : i <= j) /\ x.price = r.segments[i].price
    BY <1>1, <1>3, PriceOfSegment
<1> QED BY <1>1, <1>2, <1>3, <1>4, Zenon DEF LineJustified

\* The price that is made is one that can be explained.
LEMMA PriceIsMade ==
    ASSUME RulesTyped, NEW e, EventWellFormed(e), NEW reading, FxSound(reading.fx)
    PROVE  LET s == Priced(e, reading)
           IN  s.pc = "insert" /\ AttemptOK(s, e)
<1>1. PICK lines : lines = UsageLines(e)
    OBVIOUS
<1>2. PICK s : s = Priced(e, reading)
    OBVIOUS
<1>3. PICK p : p = price_with_rules(e, reading)
    OBVIOUS
<1>4. s.pc = "insert" /\ s.price = p /\ s.made = TRUE /\ s.reading = reading /\ s.table = rules
    BY <1>2, <1>3 DEF Priced
<1>5. \A x \in lines : x.currency \in Currencies /\ LineJustified(x, e, rules)
    BY <1>1, LinesByTheClock
<1>6. ASSUME LinesOf(s) = lines, p.priced => \A f \in p.fx_snapshot : RateFits(f.rate, f.from, f.to, reading.fx, reading.now)
      PROVE  Explained(s, e)
    <2>1. ASSUME NEW u \in PriceUnits
          PROVE  (\E x \in LinesOf(s) : x.unit = u) <=>
                     /\ HasQuantity(u, e)
                     /\ \E r \in s.table : /\ r.unit = u /\ r.enabled /\ r.from <= e.at /\ e.at <= r.to
                                           /\ r.dim \in {"", input_dimension_key(u, e)}
        <3>1. (\E x \in UsageLines(e) : x.unit = u) <=>
                  /\ HasQuantity(u, e)
                  /\ \E r \in rules : /\ r.unit = u /\ r.enabled /\ r.from <= e.at /\ e.at <= r.to
                                      /\ r.dim \in {"", input_dimension_key(u, e)}
            BY LinesCover
        <3>2. LinesOf(s) = UsageLines(e) /\ s.table = rules
            BY <1>1, <1>4, <1>6
        <3> QED BY <3>1, <3>2, Zenon
    <2>2. \A x \in LinesOf(s) : LineJustified(x, e, s.table)
        BY <1>4, <1>5, <1>6
    <2> QED BY <1>4, <1>6, <2>1, <2>2, Zenon DEF Explained
<1>7. CASE lines = {}
    <2>1. p = Unpriced
        BY <1>1, <1>3, <1>7 DEF price_with_rules
    <2>2. p.priced = FALSE /\ PriceOK(p, e) /\ p # Nowhere
        BY <2>1, PriceKinds
    <2>3. LinesOf(s) = lines
        BY <1>4, <1>7, <2>2 DEF LinesOf
    <2>4. Explained(s, e)
        BY <1>6, <2>2, <2>3
    <2> QED BY <1>2, <1>4, <2>2, <2>4 DEF AttemptOK
<1>8. CASE lines # {}
    <2>1. p = [priced |-> TRUE,
               cost_cny |-> TotalIn(reading, "CNY", lines, e), cost_usd |-> TotalIn(reading, "USD", lines, e),
               price_used |-> lines, fx_snapshot |-> FxUsed(reading, lines)]
        BY <1>1, <1>3, <1>8 DEF price_with_rules
    <2>2. /\ p.priced = TRUE /\ p.price_used = lines /\ p.fx_snapshot = FxUsed(reading, lines)
          /\ p.cost_cny = TotalIn(reading, "CNY", lines, e) /\ p.cost_usd = TotalIn(reading, "USD", lines, e)
          /\ DOMAIN p = {"priced", "cost_cny", "cost_usd", "price_used", "fx_snapshot"}
        BY <2>1
    <2>3. p = [f \in DOMAIN p |-> p[f]]
        BY <2>1
    <2>4. p.cost_cny = Recomputed("CNY", p, e) /\ p.cost_usd = Recomputed("USD", p, e)
        <3>1. "CNY" \in Currencies /\ "USD" \in Currencies
            BY DEF Currencies
        <3> QED BY <1>5, <2>2, <3>1, TotalIsAudited DEF Recomputed
    <2>5. PriceOK(p, e)
        BY <2>2, <2>3, <2>4, Zenon DEF PriceOK
    <2>6. p # Nowhere
        BY <2>2, PriceKinds
    <2>7. ASSUME NEW f \in p.fx_snapshot PROVE RateFits(f.rate, f.from, f.to, reading.fx, reading.now)
        <3>1. PICK l \in lines : f = [from |-> l.currency, to |-> Other(l.currency), rate |-> convert(reading, l.currency, Other(l.currency))]
            BY <2>2 DEF FxUsed
        <3>2. f.rate = convert(reading, f.from, f.to)
            BY <3>1
        <3>3. \A row \in reading.fx : row.source \in {"manual", "auto"}
            BY DEF FxSound
        <3> QED BY <3>2, <3>3, RateChosen
    <2>8. LinesOf(s) = lines
        BY <1>4, <2>2 DEF LinesOf
    <2>9. Explained(s, e)
        BY <1>6, <2>7, <2>8
    <2> QED BY <1>2, <1>4, <2>5, <2>6, <2>9 DEF AttemptOK
<1> QED BY <1>7, <1>8

\* An attempt moves on, the others stay.
LEMMA AttemptMoves ==
    ASSUME BillInv, NEW a \in Pricers, NEW s, Moves(a, s)
    PROVE  /\ DOMAIN attempt' = Pricers /\ attempt'[a] = s
           /\ \A b \in Pricers \ {a} : attempt'[b] = attempt[b]
           /\ UNCHANGED event /\ AttemptOK(s, event) => AttemptsOK'
<1>1. DOMAIN attempt = Pricers /\ attempt' = [attempt EXCEPT ![a] = s]
    BY DEF BillInv, Moves
<1>2. DOMAIN attempt' = Pricers /\ attempt'[a] = s /\ \A b \in Pricers \ {a} : attempt'[b] = attempt[b]
    BY <1>1
<1>3. ASSUME UNCHANGED event, AttemptOK(s, event) PROVE AttemptsOK'
    <2>1. \A b \in Pricers : AttemptOK(attempt'[b], event')
        <3> SUFFICES ASSUME NEW b \in Pricers PROVE AttemptOK(attempt'[b], event')
            OBVIOUS
        <3>1. CASE b = a
            BY <1>2, <1>3, <3>1
        <3>2. CASE b # a
            BY <1>2, <1>3, <3>2 DEF BillInv, AttemptsOK
        <3> QED BY <3>1, <3>2
    <2> QED BY <2>1 DEF AttemptsOK
<1> QED BY <1>2, <1>3

LEMMA Roles ==
    /\ Pricers = {"writer", "replay", "poller"} /\ Inserters = {"writer", "replay"}
BY DEF Pricers, Inserters

\* Nothing has been logged, priced or fetched.
LEMMA PricingStarts == PricingInit => TablesTyped /\ BillInv
<1> SUFFICES ASSUME PricingInit PROVE TablesTyped /\ BillInv
    OBVIOUS
<1>1. TablesTyped
    <2>1. rules \in RuleTables /\ FxSound(fx) /\ minute = 0 /\ fetch = <<>> /\ fxWrites = 0
        BY RuleAssumption DEF PricingInit
    <2> QED BY <2>1, PricingNats DEF TablesTyped, RulesTyped, FetchTyped
<1>2. /\ event = NoEvent /\ queued = Nowhere /\ wal = Nowhere /\ attempt = [a \in Pricers |-> AtRest]
      /\ task_price = Unpriced /\ log_row = Nowhere /\ spent = <<>>
    BY DEF PricingInit
<1>3. DOMAIN attempt = Pricers /\ \A a \in Pricers : attempt[a] = AtRest
    BY <1>2
<1>4. EventTyped /\ AttemptsOK /\ CopiesOK /\ Totalled
    BY <1>2, <1>3, PriceKinds DEF EventTyped, AttemptsOK, AttemptOK, CopiesOK, Totalled
<1>5. Quiet /\ TaskFinal
    BY <1>2, <1>3, PriceKinds, Roles DEF Quiet, TaskFinal
<1> QED BY <1>1, <1>3, <1>4, <1>5 DEF BillInv

\* An event happens.
LEMMA HappenedIs ==
    ASSUME TablesTyped, NEW e \in LoggedEvents
    PROVE  Happened(e) # NoEvent /\ EventWellFormed(Happened(e))
<1>1. PICK x : x = Happened(e)
    OBVIOUS
<1>2. x.kind = "event" /\ x.at = minute /\ x.use = e.use
    BY <1>1 DEF Happened
<1>3. minute \in Nat /\ e.use \in [PriceUnits -> Int]
    BY PricingNats, RuleAssumption DEF TablesTyped
<1>4. NoEvent.kind = "none"
    BY DEF NoEvent
<1> QED BY <1>1, <1>2, <1>3, <1>4 DEF EventWellFormed

\* Before an event there are no prices but those of nothing.
LEMMA AllQuiet ==
    ASSUME BillInv, event = NoEvent \/ attempt["poller"] # AtRest, NEW e
    PROVE  /\ queued = Nowhere /\ wal = Nowhere /\ log_row = Nowhere /\ task_price = Unpriced /\ spent = <<>>
           /\ attempt["writer"] = AtRest /\ attempt["replay"] = AtRest
           /\ \A p \in {queued, wal, task_price, log_row} : PriceOK(p, e)
BY PriceKinds DEF BillInv, Quiet, Totalled

\* A price that is handed over is in the queue or in the WAL.
LEMMA HandedIs ==
    ASSUME NEW p, NEW e, PriceOK(p, e), Handed(p), queued = Nowhere, wal = Nowhere
    PROVE  \/ queued' = p /\ wal' = Nowhere
           \/ queued' = Nowhere /\ wal' = p
BY LineKeeps DEF Handed

\* The gateway logs an event.
LEMMA LogStep ==
    ASSUME TablesTyped, BillInv, NEW e \in LoggedEvents, log_event(e)
    PROVE  BillInv'
<1>1. /\ event = NoEvent /\ event' = Happened(e) /\ Handed(Unpriced)
      /\ UNCHANGED <<attempt, task_price, log_row, spent>>
    BY DEF log_event
<1>2. event' # NoEvent /\ EventWellFormed(event')
    BY <1>1, HappenedIs
<1>3. /\ queued = Nowhere /\ wal = Nowhere /\ log_row = Nowhere /\ task_price = Unpriced /\ spent = <<>>
      /\ attempt["writer"] = AtRest /\ attempt["replay"] = AtRest /\ attempt["poller"] = AtRest
    BY <1>1, AllQuiet DEF BillInv, Quiet
<1>4. \A a \in Pricers : attempt'[a] = AtRest
    BY <1>1, <1>3, Roles
<1>5. \/ queued' = Unpriced /\ wal' = Nowhere
      \/ queued' = Nowhere /\ wal' = Unpriced
    BY <1>1, <1>3, PriceKinds, HandedIs
<1>6. EventTyped' /\ DOMAIN attempt' = Pricers
    BY <1>1, <1>2 DEF EventTyped, BillInv
<1>7. AttemptsOK' /\ CopiesOK'
    BY <1>1, <1>3, <1>4, <1>5, PriceKinds DEF AttemptsOK, AttemptOK, CopiesOK
<1>8. Quiet' /\ Totalled' /\ TaskFinal'
    <2>1. "poller" \in Pricers
        BY Roles
    <2> QED BY <1>1, <1>2, <1>3, <1>4, <2>1, PriceKinds DEF Quiet, Totalled, TaskFinal
<1> QED BY <1>6, <1>7, <1>8 DEF BillInv

\* A media task ends; its poller has read the rates.
LEMMA MediaStep ==
    ASSUME TablesTyped, BillInv, NEW e \in LoggedEvents, MediaEnds(e)
    PROVE  BillInv'
<1>1. /\ event = NoEvent /\ event' = Happened(e) /\ Moves("poller", Reading)
      /\ UNCHANGED <<queued, wal, task_price, log_row, spent>>
    BY DEF MediaEnds
<1>2. event' # NoEvent /\ EventWellFormed(event')
    BY <1>1, HappenedIs
<1>3. /\ queued = Nowhere /\ wal = Nowhere /\ log_row = Nowhere /\ task_price = Unpriced /\ spent = <<>>
      /\ attempt["writer"] = AtRest /\ attempt["replay"] = AtRest
      /\ \A p \in {queued, wal, task_price, log_row} : PriceOK(p, event')
    BY <1>1, AllQuiet
<1>4. /\ DOMAIN attempt' = Pricers /\ attempt'["poller"] = Reading
      /\ attempt'["writer"] = AtRest /\ attempt'["replay"] = AtRest
    BY <1>1, <1>3, AttemptMoves, Roles
<1>5. AttemptOK(Reading, event')
    BY DEF AttemptOK, Reading, TablesTyped
<1>6. AttemptsOK'
    BY <1>4, <1>5, Roles DEF AttemptsOK, AttemptOK
<1>7. CopiesOK' /\ Totalled' /\ EventTyped'
    BY <1>1, <1>2, <1>3 DEF CopiesOK, Totalled, EventTyped
<1>8. Quiet' /\ TaskFinal'
    BY <1>1, <1>2, <1>3, <1>4, PriceKinds DEF Quiet, TaskFinal
<1> QED BY <1>4, <1>6, <1>7, <1>8 DEF BillInv

\* While an inserter is at work or has something to insert, the event was logged.
LEMMA BusyKnown ==
    ASSUME BillInv, NEW a \in Inserters, attempt[a] # AtRest \/ Copy(a) # Nowhere
    PROVE  event # NoEvent /\ attempt["poller"] = AtRest /\ EventWellFormed(event)
BY Roles DEF BillInv, Quiet, Copy, EventTyped

\* What an inserter finds.
LEMMA CopyIs ==
    ASSUME BillInv, NEW a \in Inserters
    PROVE  PriceOK(Copy(a), event) /\ Copy(a) \in {queued, wal}
<1>1. PriceOK(queued, event) /\ PriceOK(wal, event)
    BY DEF BillInv, CopiesOK
<1>2. decode_line(wal) = wal
    BY <1>1, LineKeeps
<1> QED BY <1>1, <1>2 DEF Copy

\* An inserter clones its events, and reads the rates if there is a price to make.
LEMMA BeginInsertStep ==
    ASSUME TablesTyped, BillInv, NEW a \in Inserters, BeginInsert(a)
    PROVE  BillInv'
<1> DEFINE s == IF ToPrice(Copy(a)) THEN Reading ELSE Found(Copy(a))
<1>1. /\ Copy(a) # Nowhere /\ Moves(a, s)
      /\ UNCHANGED <<event, queued, wal, task_price, log_row, spent>>
    BY DEF BeginInsert
<1>2. a \in Pricers
    BY Roles
<1>3. event # NoEvent /\ attempt["poller"] = AtRest /\ EventWellFormed(event)
    BY <1>1, BusyKnown
<1>4. PriceOK(Copy(a), event) /\ Copy(a) \in {queued, wal}
    BY CopyIs
<1>5. AttemptOK(s, event)
    <2>1. AttemptOK(Reading, event)
        BY DEF AttemptOK, Reading, TablesTyped
    <2>2. Found(Copy(a)).pc = "insert" /\ Found(Copy(a)).price = Copy(a) /\ Found(Copy(a)).made = FALSE
        BY DEF Found
    <2>3. AttemptOK(Found(Copy(a)), event)
        BY <1>1, <1>4, <2>2 DEF AttemptOK
    <2> QED BY <2>1, <2>3
<1> HIDE DEF s
<1>6. /\ DOMAIN attempt' = Pricers /\ attempt'[a] = s /\ AttemptsOK'
      /\ \A b \in Pricers \ {a} : attempt'[b] = attempt[b]
    BY <1>1, <1>2, <1>5, AttemptMoves
<1>7. CopiesOK' /\ Totalled' /\ EventTyped'
    BY <1>1 DEF BillInv, CopiesOK, Totalled, EventTyped
<1>8. Quiet'
    <2>1. attempt'["poller"] = AtRest
        BY <1>3, <1>6, Roles
    <2> QED BY <1>1, <1>3, <2>1 DEF Quiet
<1>9. TaskFinal'
    <2> SUFFICES ASSUME task_price.priced PROVE TaskFinal'
        BY <1>1 DEF TaskFinal
    <2>1. Copy(a) = task_price
        BY <1>1, <1>4 DEF BillInv, TaskFinal
    <2>2. s = Found(task_price)
        BY <2>1 DEF s, ToPrice
    <2>3. s.pc = "insert" /\ s.price = task_price
        BY <2>2 DEF Found
    <2>4. ASSUME NEW b \in Inserters
          PROVE  attempt'[b].pc # "rules" /\ (attempt'[b].pc = "insert" => attempt'[b].price = task_price)
        <3>1. CASE b = a
            BY <1>6, <2>3, <3>1
        <3>2. CASE b # a
            BY <1>6, <3>2, Roles DEF BillInv, TaskFinal
        <3> QED BY <3>1, <3>2
    <2> QED BY <1>1, <2>4 DEF BillInv, TaskFinal
<1> QED BY <1>6, <1>7, <1>8, <1>9 DEF BillInv

\* The price is made.
LEMMA BatchStep ==
    ASSUME TablesTyped, BillInv, NEW a \in Pricers, price_batch(a)
    PROVE  BillInv'
<1> DEFINE s == Priced(event, attempt[a])
<1>1. /\ attempt[a].pc = "rules" /\ Moves(a, s)
      /\ UNCHANGED <<event, queued, wal, task_price, log_row, spent>>
    BY DEF price_batch
<1>2. attempt[a] # AtRest /\ FxSound(attempt[a].fx)
    BY <1>1, PriceKinds DEF BillInv, AttemptsOK, AttemptOK
<1>3. event # NoEvent /\ EventWellFormed(event)
    BY <1>2, Roles DEF BillInv, Quiet, EventTyped
<1>4. s.pc = "insert" /\ AttemptOK(s, event)
    BY <1>2, <1>3, PriceIsMade DEF TablesTyped
<1> HIDE DEF s
<1>5. /\ DOMAIN attempt' = Pricers /\ attempt'[a] = s /\ AttemptsOK'
      /\ \A b \in Pricers \ {a} : attempt'[b] = attempt[b]
    BY <1>1, <1>4, AttemptMoves
<1>6. CopiesOK' /\ Totalled' /\ EventTyped'
    BY <1>1 DEF BillInv, CopiesOK, Totalled, EventTyped
<1>7. s # AtRest
    BY <1>4, PriceKinds
<1>8. Quiet'
    BY <1>1, <1>2, <1>3, <1>5, <1>7, Roles DEF BillInv, Quiet
<1>9. TaskFinal'
    <2> SUFFICES ASSUME task_price.priced PROVE TaskFinal'
        BY <1>1 DEF TaskFinal
    <2>1. a \notin Inserters
        BY <1>1 DEF BillInv, TaskFinal
    <2>2. \A b \in Inserters : attempt'[b] = attempt[b]
        BY <1>5, <2>1, Roles
    <2> QED BY <1>1, <2>2 DEF BillInv, TaskFinal
<1> QED BY <1>5, <1>6, <1>8, <1>9 DEF BillInv

\* The transaction: the row is inserted once, and added once.
LEMMA RowCommitted ==
    ASSUME BillInv, NEW p, p # Nowhere, PriceOK(p, event), CommitRow(p) \/ UNCHANGED <<log_row, spent>>,
           task_price.priced => p = task_price
    PROVE  /\ Totalled' /\ PriceOK(log_row', event)
           /\ task_price.priced => log_row' = Nowhere \/ log_row' = task_price
<1>1. PriceOK(log_row, event) /\ Totalled /\ (task_price.priced => log_row = Nowhere \/ log_row = task_price)
    BY DEF BillInv, CopiesOK, TaskFinal
<1>2. CASE UNCHANGED <<log_row, spent>>
    BY <1>1, <1>2 DEF Totalled
<1>3. CASE CommitRow(p) /\ log_row = Nowhere
    <2>1. log_row' = p /\ spent' = Append(<<>>, p)
        BY <1>1, <1>3 DEF CommitRow, Totalled
    <2>2. spent' = <<p>>
        BY <2>1
    <2> QED BY <2>1, <2>2 DEF Totalled
<1>4. CASE CommitRow(p) /\ log_row # Nowhere
    BY <1>1, <1>4 DEF CommitRow, Totalled
<1> QED BY <1>2, <1>3, <1>4

\* An inserter comes to rest; its copy may have moved to the WAL or be done with.
LEMMA InserterRests ==
    ASSUME BillInv, NEW a \in Inserters, attempt[a] # AtRest, Moves(a, AtRest),
           queued' \in {queued, Nowhere}, wal' \in {wal, queued, Nowhere},
           UNCHANGED <<event, task_price>>, Totalled', PriceOK(log_row', event),
           task_price.priced => log_row' = Nowhere \/ log_row' = task_price
    PROVE  BillInv'
<1>1. a \in Pricers /\ AttemptOK(AtRest, event)
    BY Roles DEF AttemptOK
<1>2. /\ DOMAIN attempt' = Pricers /\ attempt'[a] = AtRest /\ AttemptsOK'
      /\ \A b \in Pricers \ {a} : attempt'[b] = attempt[b]
    BY <1>1, AttemptMoves
<1>3. event # NoEvent /\ attempt["poller"] = AtRest
    BY BusyKnown
<1>4. CopiesOK' /\ EventTyped'
    BY PriceKinds DEF BillInv, CopiesOK, EventTyped
<1>5. Quiet'
    BY <1>2, <1>3, Roles DEF Quiet
<1>6. TaskFinal'
    <2> SUFFICES ASSUME task_price.priced PROVE TaskFinal'
        BY DEF TaskFinal
    <2>1. ASSUME NEW b \in Inserters
          PROVE  attempt'[b].pc # "rules" /\ (attempt'[b].pc = "insert" => attempt'[b].price = task_price)
        <3>1. CASE b = a
            BY <1>2, <3>1, PriceKinds
        <3>2. CASE b # a
            BY <1>2, <3>2, Roles DEF BillInv, TaskFinal
        <3> QED BY <3>1, <3>2
    <2>2. \A p \in {queued', wal', log_row'} : p = Nowhere \/ p = task_price
        BY DEF BillInv, TaskFinal
    <2> QED BY <2>1, <2>2 DEF TaskFinal
<1> QED BY <1>2, <1>4, <1>5, <1>6 DEF BillInv

\* What an inserter that is about to insert has.
LEMMA InsertsPrice ==
    ASSUME BillInv, NEW a \in Inserters, attempt[a].pc = "insert"
    PROVE  /\ attempt[a].price # Nowhere /\ PriceOK(attempt[a].price, event) /\ attempt[a] # AtRest
           /\ task_price.priced => attempt[a].price = task_price
<1>1. a \in Pricers
    BY Roles
<1>2. attempt[a] # AtRest /\ attempt[a].pc # "rules"
    BY PriceKinds
<1>3. attempt[a].price # Nowhere /\ PriceOK(attempt[a].price, event)
    BY <1>1, <1>2 DEF BillInv, AttemptsOK, AttemptOK
<1>4. task_price.priced => attempt[a].price = task_price
    BY DEF BillInv, TaskFinal
<1> QED BY <1>2, <1>3, <1>4

LEMMA InsertStep ==
    ASSUME BillInv, NEW a \in Inserters, insert_batch(a) \/ InsertFails(a)
    PROVE  BillInv'
<1>1. wal' = encode_line(queued) => wal' = queued
    BY LineKeeps DEF BillInv, CopiesOK
<1>2. CASE insert_batch(a)
    <2>1. /\ attempt[a].pc = "insert" /\ CommitRow(attempt[a].price) /\ Moves(a, AtRest) /\ UNCHANGED <<event, task_price>>
          /\ queued' \in {queued, Nowhere} /\ wal' \in {wal, queued, Nowhere}
        BY <1>2 DEF insert_batch
    <2>2. /\ attempt[a].price # Nowhere /\ PriceOK(attempt[a].price, event) /\ attempt[a] # AtRest
          /\ task_price.priced => attempt[a].price = task_price
        BY <2>1, InsertsPrice
    <2>3. /\ Totalled' /\ PriceOK(log_row', event)
          /\ task_price.priced => log_row' = Nowhere \/ log_row' = task_price
        BY <2>1, <2>2, RowCommitted
    <2> QED BY <2>1, <2>2, <2>3, InserterRests
<1>3. CASE InsertFails(a)
    <2>1. /\ attempt[a] # AtRest /\ Moves(a, AtRest) /\ UNCHANGED <<event, task_price>>
          /\ queued' \in {queued, Nowhere} /\ wal' \in {wal, queued, Nowhere}
        BY <1>1, <1>3 DEF InsertFails
    <2>2. \/ attempt[a].pc = "insert" /\ CommitRow(attempt[a].price)
          \/ UNCHANGED <<log_row, spent>>
        BY <1>3 DEF InsertFails
    <2>3. /\ Totalled' /\ PriceOK(log_row', event)
          /\ task_price.priced => log_row' = Nowhere \/ log_row' = task_price
        <3>1. CASE attempt[a].pc = "insert" /\ CommitRow(attempt[a].price)
            <4>1. /\ attempt[a].price # Nowhere /\ PriceOK(attempt[a].price, event)
                  /\ task_price.priced => attempt[a].price = task_price
                BY <3>1, InsertsPrice
            <4> QED BY <3>1, <4>1, RowCommitted
        <3>2. CASE UNCHANGED <<log_row, spent>>
            BY <3>2 DEF BillInv, CopiesOK, TaskFinal, Totalled
        <3> QED BY <2>2, <3>1, <3>2
    <2> QED BY <2>1, <2>3, InserterRests
<1> QED BY <1>2, <1>3

\* The poller stores its price and logs the event with it.
LEMMA FinalizeStep ==
    ASSUME BillInv, finalize_succeeded
    PROVE  BillInv'
<1> DEFINE p == IF attempt["poller"].pc = "insert" THEN attempt["poller"].price ELSE Unpriced
<1>1. /\ attempt["poller"] # AtRest /\ task_price' = p /\ Handed(p) /\ Moves("poller", AtRest)
      /\ UNCHANGED <<event, log_row, spent>>
    BY DEF finalize_succeeded
<1>2. PriceOK(p, event) /\ p # Nowhere
    <2>1. CASE attempt["poller"].pc = "insert"
        <3>1. attempt["poller"].pc # "rules" /\ "poller" \in Pricers
            BY <2>1, Roles
        <3> QED BY <1>1, <2>1, <3>1 DEF BillInv, AttemptsOK, AttemptOK
    <2>2. CASE attempt["poller"].pc # "insert"
        BY <2>2, PriceKinds
    <2> QED BY <2>1, <2>2
<1> HIDE DEF p
<1>3. /\ queued = Nowhere /\ wal = Nowhere /\ log_row = Nowhere /\ spent = <<>> /\ event # NoEvent
      /\ attempt["writer"] = AtRest /\ attempt["replay"] = AtRest
    BY <1>1, AllQuiet DEF BillInv, Quiet
<1>4. \/ queued' = p /\ wal' = Nowhere
      \/ queued' = Nowhere /\ wal' = p
    BY <1>1, <1>2, <1>3, HandedIs
<1>5. DOMAIN attempt' = Pricers /\ \A a \in Pricers : attempt'[a] = AtRest
    BY <1>1, <1>3, AttemptMoves, Roles
<1>6. AttemptsOK' /\ EventTyped' /\ Totalled'
    BY <1>1, <1>3, <1>5 DEF BillInv, AttemptsOK, AttemptOK, EventTyped, Totalled
<1>7. CopiesOK'
    BY <1>1, <1>2, <1>3, <1>4, PriceKinds DEF CopiesOK
<1>8. Quiet' /\ TaskFinal'
    BY <1>1, <1>3, <1>4, <1>5, PriceKinds, Roles DEF Quiet, TaskFinal
<1> QED BY <1>5, <1>6, <1>7, <1>8 DEF BillInv

\* Nothing is logged after all, or the process dies.
LEMMA GoneStep ==
    ASSUME BillInv, FinalizeFails \/ PricerCrash
    PROVE  BillInv'
<1>1. /\ queued' \in {queued, Nowhere} /\ UNCHANGED <<wal, task_price, log_row, spent>>
      /\ DOMAIN attempt' = Pricers /\ \A a \in Pricers : attempt'[a] \in {attempt[a], AtRest}
      /\ attempt'["poller"] = AtRest
      /\ \/ event' = event /\ attempt["poller"] = AtRest
         \/ event' = NoEvent /\ attempt["poller"] # AtRest
    <2>1. CASE FinalizeFails
        <3>1. attempt["poller"] # AtRest /\ event' = NoEvent /\ Moves("poller", AtRest) /\ UNCHANGED <<queued, wal, task_price, log_row, spent>>
            BY <2>1 DEF FinalizeFails
        <3>2. "poller" \in Pricers
            BY Roles
        <3>3. DOMAIN attempt' = Pricers /\ attempt'["poller"] = AtRest /\ \A b \in Pricers \ {"poller"} : attempt'[b] = attempt[b]
            BY <3>1, <3>2, AttemptMoves
        <3> QED BY <3>1, <3>3
    <2>2. CASE PricerCrash
        <3>1. attempt' = [a \in Pricers |-> AtRest] /\ UNCHANGED <<wal, task_price, log_row, spent>> /\ queued' = Nowhere
            BY <2>2 DEF PricerCrash
        <3>2. event' = IF attempt["poller"] = AtRest THEN event ELSE NoEvent
            BY <2>2 DEF PricerCrash
        <3> QED BY <3>1, <3>2, Roles
    <2> QED BY <2>1, <2>2
<1>2. CASE event' = event /\ attempt["poller"] = AtRest
    <2>1. AttemptsOK'
        BY <1>1, <1>2 DEF BillInv, AttemptsOK, AttemptOK
    <2>2. EventTyped' /\ CopiesOK' /\ Totalled'
        BY <1>1, <1>2, PriceKinds DEF BillInv, EventTyped, CopiesOK, Totalled
    <2>3. Quiet'
        BY <1>1, <1>2, Roles DEF BillInv, Quiet
    <2>4. TaskFinal'
        BY <1>1, PriceKinds, Roles DEF BillInv, TaskFinal
    <2> QED BY <1>1, <2>1, <2>2, <2>3, <2>4 DEF BillInv
<1>3. CASE event' = NoEvent /\ attempt["poller"] # AtRest
    <2>1. /\ queued' = Nowhere /\ wal' = Nowhere /\ log_row' = Nowhere /\ task_price' = Unpriced /\ spent' = <<>>
        BY <1>1, <1>3, AllQuiet
    <2>2. \A a \in Pricers : attempt'[a] = AtRest
        BY <1>1, <1>3, AllQuiet, Roles
    <2>3. EventTyped' /\ AttemptsOK' /\ CopiesOK' /\ Totalled'
        BY <1>3, <2>1, <2>2, PriceKinds DEF EventTyped, AttemptsOK, AttemptOK, CopiesOK, Totalled
    <2>4. Quiet' /\ TaskFinal'
        BY <1>3, <2>1, <2>2, PriceKinds, Roles DEF Quiet, TaskFinal
    <2> QED BY <1>1, <2>3, <2>4 DEF BillInv
<1> QED BY <1>1, <1>2, <1>3

\* A rate is stored: it takes the place of the row of its pair and source.
LEMMA UpsertType ==
    ASSUME FxSound(fx), NEW row, Upsert(row), row.rate \in FxRates, row.source \in {"manual", "auto"}
    PROVE  FxSound(fx')
<1>1. fx' = {r \in fx : <<r.from, r.to, r.source>> # <<row.from, row.to, row.source>>} \cup {row}
    BY DEF Upsert
<1> QED BY <1>1 DEF FxSound

\* Rules, rates and the clock change on their own.
TableStep ==
    \/ put_rules \/ FetchStores \/ FetchStops \/ MinutePasses
    \/ \E from \in Currencies, rate \in FxRates : put_fx(from, Other(from), rate)
    \/ \E provider \in FxProviders, rate \in FxRates : FetchAnswers(provider, rate)

LEMMA TableStepTyped ==
    ASSUME TablesTyped, TableStep
    PROVE  TablesTyped' /\ UNCHANGED billVars
<1>1. CASE put_rules
    <2>1. /\ fxWrites < MaxFxWrites /\ fxWrites' = fxWrites + 1 /\ rules' \in RuleTables
          /\ UNCHANGED <<fx, minute, fetch, billVars>>
        BY <1>1 DEF put_rules
    <2>2. fxWrites' \in 0 .. MaxFxWrites
        BY <2>1, PricingNats DEF TablesTyped
    <2> QED BY <2>1, <2>2 DEF TablesTyped, RulesTyped, FetchTyped
<1>2. ASSUME NEW from \in Currencies, NEW rate \in FxRates, put_fx(from, Other(from), rate)
      PROVE  TablesTyped' /\ UNCHANGED billVars
    <2>1. PICK row : row = [from |-> from, to |-> Other(from), source |-> "manual", rate |-> rate, at |-> 0]
        OBVIOUS
    <2>2. row.rate \in FxRates /\ row.source \in {"manual", "auto"}
        BY <2>1
    <2>3. Upsert(row) /\ fxWrites < MaxFxWrites /\ fxWrites' = fxWrites + 1 /\ UNCHANGED <<rules, minute, fetch, billVars>>
        BY <1>2, <2>1 DEF put_fx
    <2>4. fxWrites' \in 0 .. MaxFxWrites
        BY <2>3, PricingNats DEF TablesTyped
    <2>5. FxSound(fx')
        BY <2>2, <2>3, UpsertType DEF TablesTyped
    <2> QED BY <2>3, <2>4, <2>5 DEF TablesTyped, RulesTyped, FetchTyped
<1>3. ASSUME NEW provider \in FxProviders, NEW rate \in FxRates, FetchAnswers(provider, rate)
      PROVE  TablesTyped' /\ UNCHANGED billVars
    <2>1. /\ fxWrites < MaxFxWrites /\ fxWrites' = fxWrites + 1 /\ UNCHANGED <<rules, fx, minute, billVars>>
          /\ fetch' = Reported(provider, rate)
        BY <1>3 DEF FetchAnswers
    <2>2. fxWrites' \in 0 .. MaxFxWrites
        BY <2>1, PricingNats DEF TablesTyped
    <2>3. PICK S : S = [from : {"CNY", "USD", "EUR"}, to : {"CNY", "USD"}, rate : FxRates]
        OBVIOUS
    <2>4. Reported(provider, rate) \in Seq([from : {"CNY", "USD", "EUR"}, to : {"CNY", "USD"}, rate : FxRates])
        <3>0. ASSUME NEW x \in S, NEW y \in S PROVE <<x>> \in Seq(S) /\ <<x, y>> \in Seq(S)
            OBVIOUS
        <3>1. CASE provider = "usd_base"
            <4>1. Reported(provider, rate) = <<[from |-> "USD", to |-> "CNY", rate |-> rate]>>
                BY <3>1 DEF Reported
            <4>2. [from |-> "USD", to |-> "CNY", rate |-> rate] \in S
                BY <2>3
            <4> QED BY <2>3, <3>0, <4>1, <4>2
        <3>2. CASE provider = "cny_base"
            <4>1. Reported(provider, rate) = <<[from |-> "CNY", to |-> "USD", rate |-> rate]>>
                BY <3>2 DEF Reported
            <4>2. [from |-> "CNY", to |-> "USD", rate |-> rate] \in S
                BY <2>3
            <4> QED BY <2>3, <3>0, <4>1, <4>2
        <3>3. CASE provider = "ecb"
            <4>1. Reported(provider, rate) =
                      <<[from |-> "EUR", to |-> "USD", rate |-> rate], [from |-> "EUR", to |-> "CNY", rate |-> rate]>>
                BY <3>3 DEF Reported
            <4>2. [from |-> "EUR", to |-> "USD", rate |-> rate] \in S /\ [from |-> "EUR", to |-> "CNY", rate |-> rate] \in S
                BY <2>3
            <4> QED BY <2>3, <3>0, <4>1, <4>2
        <3> QED BY <3>1, <3>2, <3>3, PricingNats
    <2> QED BY <2>1, <2>2, <2>4 DEF TablesTyped, RulesTyped, FetchTyped
<1>4. CASE FetchStores
    <2>1. fetch # <<>> /\ fetch' = Tail(fetch) /\ UNCHANGED <<rules, minute, fxWrites, billVars>>
        BY <1>4 DEF FetchStores
    <2>2. Head(fetch).rate \in FxRates /\ FetchTyped'
        <3>1. PICK S : S = [from : {"CNY", "USD", "EUR"}, to : {"CNY", "USD"}, rate : FxRates]
            OBVIOUS
        <3>2. fetch \in Seq(S)
            BY <3>1 DEF TablesTyped, FetchTyped
        <3>3. Head(fetch) \in S /\ Tail(fetch) \in Seq(S)
            BY <2>1, <3>2
        <3> QED BY <2>1, <3>1, <3>3 DEF FetchTyped
    <2>3. PICK row : row = [from |-> Head(fetch).from, to |-> Head(fetch).to, source |-> "auto", rate |-> Head(fetch).rate, at |-> minute]
        OBVIOUS
    <2>4. row.rate \in FxRates /\ row.source \in {"manual", "auto"}
        BY <2>2, <2>3
    <2>5. Upsert(row)
        BY <1>4, <2>3 DEF FetchStores
    <2>6. FxSound(fx')
        BY <2>4, <2>5, UpsertType DEF TablesTyped
    <2> QED BY <2>1, <2>2, <2>6 DEF TablesTyped, RulesTyped
<1>5. CASE FetchStops
    <2>1. fetch' = <<>> /\ UNCHANGED <<rules, fx, minute, fxWrites, billVars>>
        BY <1>5 DEF FetchStops
    <2> QED BY <2>1 DEF TablesTyped, RulesTyped, FetchTyped
<1>6. CASE MinutePasses
    <2>1. minute < MaxMinutes /\ minute' = minute + 1 /\ UNCHANGED <<rules, fx, fetch, fxWrites, billVars>>
        BY <1>6 DEF MinutePasses
    <2>2. minute' \in 0 .. MaxMinutes
        BY <2>1, PricingNats DEF TablesTyped
    <2> QED BY <2>1, <2>2 DEF TablesTyped, RulesTyped, FetchTyped
<1> QED BY <1>1, <1>2, <1>3, <1>4, <1>5, <1>6 DEF TableStep

LEMMA BillStays == ASSUME BillInv, UNCHANGED billVars PROVE BillInv'
<1>1. UNCHANGED <<event, queued, wal, attempt, task_price, log_row, spent>>
    BY DEF billVars
<1> QED BY <1>1 DEF BillInv, EventTyped, AttemptsOK, CopiesOK, Quiet, Totalled, TaskFinal

\* A step of the bill leaves the tables alone.
LEMMA TablesStay ==
    ASSUME TablesTyped, UNCHANGED tableVars PROVE TablesTyped'
BY DEF TablesTyped, RulesTyped, FetchTyped, tableVars

\* Every step keeps the prices explained and the bill in order.
LEMMA PricingStep ==
    TablesTyped /\ BillInv /\ [PricingNext]_pricingVars => TablesTyped' /\ BillInv'
<1> SUFFICES ASSUME TablesTyped, BillInv, [PricingNext]_pricingVars PROVE TablesTyped' /\ BillInv'
    OBVIOUS
<1>1. ASSUME NEW e \in LoggedEvents, log_event(e) \/ MediaEnds(e) PROVE TablesTyped' /\ BillInv'
    <2>1. BillInv'
        BY <1>1, LogStep, MediaStep
    <2>2. UNCHANGED tableVars
        BY <1>1 DEF log_event, MediaEnds
    <2> QED BY <2>1, <2>2, TablesStay
<1>2. ASSUME NEW a \in Pricers, price_batch(a) PROVE TablesTyped' /\ BillInv'
    <2>1. UNCHANGED tableVars
        BY <1>2 DEF price_batch
    <2> QED BY <1>2, <2>1, BatchStep, TablesStay
<1>3. ASSUME NEW a \in Inserters, BeginInsert(a) \/ insert_batch(a) \/ InsertFails(a) PROVE TablesTyped' /\ BillInv'
    <2>1. BillInv'
        BY <1>3, BeginInsertStep, InsertStep
    <2>2. UNCHANGED tableVars
        BY <1>3 DEF BeginInsert, insert_batch, InsertFails
    <2> QED BY <2>1, <2>2, TablesStay
<1>4. CASE finalize_succeeded \/ FinalizeFails \/ PricerCrash
    <2>1. BillInv'
        BY <1>4, FinalizeStep, GoneStep
    <2>2. UNCHANGED tableVars
        BY <1>4 DEF finalize_succeeded, FinalizeFails, PricerCrash
    <2> QED BY <2>1, <2>2, TablesStay
<1>5. CASE TableStep
    BY <1>5, TableStepTyped, BillStays
<1>6. CASE UNCHANGED pricingVars
    BY <1>6, BillStays, TablesStay DEF pricingVars
<1> QED BY <1>1, <1>2, <1>3, <1>4, <1>5, <1>6 DEF PricingNext, TableStep

\* The invariant has every price explained.
LEMMA PricesExplained ==
    ASSUME TablesTyped, BillInv PROVE PriceJustified
<1>1. \A a \in Makers : PriceOK(attempt[a].price, event) /\ Explained(attempt[a], event)
    BY PriceKinds DEF BillInv, AttemptsOK, AttemptOK, Makers
<1>2. \A p \in PricesKept : PriceOK(p, event)
    <2>1. PriceOK(Copy("writer"), event) /\ PriceOK(Copy("replay"), event)
        BY CopyIs, Roles
    <2> QED BY <1>1, <2>1 DEF PricesKept, BillInv, CopiesOK
<1>3. \A a \in Pricers : attempt[a].pc \in {"rest", "rules", "insert"}
    BY PriceKinds DEF BillInv, AttemptsOK, AttemptOK
<1>4. PricingTypeOK
    BY <1>2, <1>3 DEF PricingTypeOK, TablesTyped, RulesTyped, BillInv, PriceOK
<1>5. \A p \in PricesKept : AuditTrail(p)
    BY <1>2, TrailIs
<1>6. \A a \in Makers : RateJustified(attempt[a]) /\ PricedIffCovered(attempt[a]) /\ PriceByTheClock(attempt[a])
    BY <1>1, ExplainedIs
<1> QED BY <1>4, <1>5, <1>6 DEF PriceJustified

\* Whatever rates were entered, fetched or lost, whatever rules were changed, and however
\* often an event was priced again after an attempt that failed: a conversion prefers a manual
\* rate of its direction, never uses a fetched one that is stale, and falls back to the
\* built-in rate exactly when no other is usable; a unit is charged exactly when an enabled
\* rule in effect covers it, at the price of the first segment that covers the local time;
\* and the totals of every price, in the queue, the WAL or the table, can be computed again
\* from what is recorded with it (billing/mod.rs, billing/fx.rs).
THEOREM PriceIsJustified == PricingSpec => []PriceJustified
<1>1. TablesTyped /\ BillInv => PriceJustified
    BY PricesExplained
<1> QED BY <1>1, PricingStarts, PricingStep, PTL DEF PricingSpec

\* However the attempts to insert an event fail, lose their answer or are repeated from the WAL,
\* and whatever rules and rates they meet: its price is added to the totals exactly once, as
\* the row has it; and the price that was stored with a media task is that of its row, since
\* the line of the WAL keeps it (logging/mod.rs, logging/wal.rs, media/tasks.rs).
THEOREM BillIsKept == PricingSpec => []BillAgrees
<1>1. BillInv => BillAgrees
    BY DEF BillInv, Totalled, TaskFinal, BillAgrees
<1> QED BY <1>1, PricingStarts, PricingStep, PTL DEF PricingSpec
=============================================================================
