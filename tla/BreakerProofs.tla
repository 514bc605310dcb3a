---------------------------- MODULE BreakerProofs ----------------------------
(***************************************************************************)
(* Proofs about the circuit breaker, for any number of requests, admin     *)
(* operations and restarts, and any threshold, cap and timeout.            *)
(***************************************************************************)
EXTENDS Breaker, Recursion

-----------------------------------------------------------------------------
(* The cooldown's shift.                                                     *)

\* The powers of two up to the m-th.
Powers(m) == {f \in [0 .. m -> Nat \ {0}] : f[0] = 1 /\ \A n \in 1 .. m : f[n] = 2 * f[n - 1]}

\* There are powers of two up to every number.
LEMMA PowersExist == \A m \in Nat : Powers(m) # {}
<1> DEFINE S == {m \in Nat : Powers(m) # {}}
<1>1. 0 \in S
    <2>1. [n \in 0 .. 0 |-> 1] \in Powers(0)
        BY DEF Powers
    <2> QED BY <2>1
<1>2. ASSUME NEW m \in S PROVE m + 1 \in S
    <2>1. PICK f \in Powers(m) : TRUE
        OBVIOUS
    <2> DEFINE g == [n \in 0 .. m + 1 |-> IF n = m + 1 THEN 2 * f[m] ELSE f[n]]
    <2>2. g \in [0 .. m + 1 -> Nat \ {0}]
        BY <2>1 DEF Powers
    <2>3. ASSUME NEW n \in 1 .. m + 1 PROVE g[n] = 2 * g[n - 1]
        <3>1. CASE n = m + 1
            BY <2>1, <3>1 DEF Powers
        <3>2. CASE n # m + 1
            <4>1. n \in 1 .. m /\ n - 1 \in 0 .. m /\ n - 1 # m + 1 /\ n - 1 \in 0 .. m + 1
                BY <3>2
            <4> QED BY <2>1, <3>2, <4>1 DEF Powers
        <3> QED BY <3>1, <3>2
    <2>4. g[0] = 1
        BY <2>1 DEF Powers
    <2>5. g \in Powers(m + 1)
        <3> HIDE DEF g
        <3> QED BY <2>2, <2>3, <2>4 DEF Powers
    <2> QED BY <2>5
<1> HIDE DEF S
<1>3. S = Nat
    BY <1>1, <1>2, NaturalInduction DEF S
<1> QED BY <1>3 DEF S

\* There is one way to be them, as far as both go.
LEMMA PowersAgree ==
    ASSUME NEW m \in Nat, NEW f \in Powers(m), NEW k \in Nat, NEW g \in Powers(k)
    PROVE  \A n \in Nat : n <= m /\ n <= k => f[n] = g[n]
<1> DEFINE S == {n \in Nat : n <= m /\ n <= k => f[n] = g[n]}
<1>1. 0 \in S
    BY DEF Powers
<1>2. ASSUME NEW n \in S PROVE n + 1 \in S
    <2> SUFFICES ASSUME n + 1 <= m, n + 1 <= k PROVE f[n + 1] = g[n + 1]
        OBVIOUS
    <2>1. n + 1 \in 1 .. m /\ n + 1 \in 1 .. k /\ (n + 1) - 1 = n /\ f[n] = g[n]
        OBVIOUS
    <2> QED BY <2>1 DEF Powers
<1> HIDE DEF S
<1>3. S = Nat
    BY <1>1, <1>2, NaturalInduction DEF S
<1> QED BY <1>3 DEF S

\* The recursive function is one: it is 1 at 0, and doubles.
LEMMA ShiftDoubles == Shift = [n \in Nat |-> IF n = 0 THEN 1 ELSE 2 * Shift[n - 1]]
<1> DEFINE power == [n \in Nat |-> CHOOSE f \in Powers(n) : TRUE]
           g     == [n \in Nat |-> power[n][n]]
<1>1. \A n \in Nat : power[n] \in Powers(n)
    BY PowersExist
<1>2. ASSUME NEW n \in Nat PROVE g[n] = IF n = 0 THEN 1 ELSE 2 * g[n - 1]
    <2> HIDE DEF power
    <2>1. CASE n = 0
        BY <1>1, <2>1 DEF Powers
    <2>2. CASE n # 0
        <3>1. n - 1 \in Nat /\ n \in 1 .. n /\ n - 1 <= n
            BY <2>2
        <3>2. power[n][n] = 2 * power[n][n - 1]
            BY <1>1, <3>1 DEF Powers
        <3>3. power[n][n - 1] = power[n - 1][n - 1]
            BY <1>1, <3>1, PowersAgree
        <3> QED BY <2>2, <3>1, <3>2, <3>3
    <2> QED BY <2>1, <2>2
<1>3. g = [n \in Nat |-> IF n = 0 THEN 1 ELSE 2 * g[n - 1]]
    <2>1. g = [n \in Nat |-> g[n]]
        OBVIOUS
    <2> HIDE DEF g
    <2> QED BY <1>2, <2>1
<1> HIDE DEF g
<1>4. \E h : h = [n \in Nat |-> IF n = 0 THEN 1 ELSE 2 * h[n - 1]]
    BY <1>3
<1> QED BY <1>4 DEF Shift

\* The shift that multiplies the cooldown is positive.
LEMMA ShiftType == \A n \in Nat : Shift[n] \in Nat \ {0}
<1> DEFINE S == {n \in Nat : Shift[n] \in Nat \ {0}}
<1>1. 0 \in S
    BY ShiftDoubles
<1>2. ASSUME NEW n \in S PROVE n + 1 \in S
    <2>1. n + 1 \in Nat /\ n + 1 # 0 /\ (n + 1) - 1 = n
        OBVIOUS
    <2>2. Shift[n + 1] = 2 * Shift[n]
        BY <2>1, ShiftDoubles
    <2> QED BY <2>1, <2>2
<1> HIDE DEF S
<1>3. S = Nat
    BY <1>1, <1>2, NaturalInduction DEF S
<1> QED BY <1>3 DEF S

\* cooldown_secs gives a cooldown that is not empty and within the cap.
LEMMA CooldownType == \A n \in Nat : cooldown_secs(n) \in 1 .. MaxCooldown
  BY ShiftType, BoundAssumption DEF cooldown_secs, Least
-----------------------------------------------------------------------------
(* The invariant.                                                            *)

\* The count of a breaker that is not open.  A breaker without an entry has counted
\* nothing, so that its first failure makes one.
CountInv ==
    /\ mem.st = "none" => mem.n = 0 /\ streak = 0
    /\ FailuresCounted

\* While a request stands between closing the breaker and removing the timer, the breaker
\* may have been opened again, but its cooldown is not over: it is not half open, and the
\* timer that is about to be removed is nobody's.
TimerInv ==
    (\E r \in Request : pc[r] = "timer") => mem.st # "half" /\ (mem.st = "open" => mem.cool > 0)

BreakerInv == TypeOK /\ CountInv /\ HalfOpenTimed /\ TimerInv

\* A breaker without an entry has counted nothing, and no request is under way.
LEMMA BreakerStarts == Init => BreakerInv
  BY BoundAssumption DEF Init, BreakerInv, TypeOK, CountInv, FailuresCounted, HalfOpenTimed, TimerInv,
     FreshRow, NoEntry, NoWrite, NoTimer, Rows, Entries, Writes

\* Rows, entries and write-backs that grow older keep their type.
LEMMA OlderType ==
    /\ \A row \in Rows : Older(row) \in Rows
    /\ \A e \in Entries : Older(e) \in Entries /\ Older(e).st = e.st /\ Older(e).n = e.n
    /\ \A w \in Writes : Older(w) \in Writes
  BY BoundAssumption DEF Older, Lower, Rows, Entries, Writes

\* next_on_failure and what it writes back.
LEMMA FailureType ==
    ASSUME TypeOK, CountInv, NEW r \in Request
    PROVE  /\ AfterFailure \in Entries
           /\ AfterFailure.st \in {"closed", "open"}
           /\ AfterFailure.st = "open" => mem.st = "open" \/ AfterFailure.cool > 0
           /\ AfterFailure.st = "closed" => AfterFailure.n = mem.n + 1 /\ mem.n + 1 < Threshold
           /\ mem.st = "open" => AfterFailure = mem
           /\ mem.st = "half" => AfterFailure.st = "open"
           /\ WriteBack(r) \in Writes
<1>1. mem \in Entries /\ up[r] \in Rows
    BY DEF TypeOK
<1>2. cooldown_secs(0) \in 1 .. MaxCooldown /\ cooldown_secs(mem.n) \in 1 .. MaxCooldown
    BY <1>1, CooldownType DEF Entries
<1> HIDE DEF cooldown_secs
<1>3. /\ AfterFailure \in Entries
      /\ AfterFailure.st \in {"closed", "open"}
      /\ AfterFailure.st = "open" => mem.st = "open" \/ AfterFailure.cool > 0
      /\ AfterFailure.st = "closed" => AfterFailure.n = mem.n + 1 /\ mem.n + 1 < Threshold
      /\ mem.st = "open" => AfterFailure = mem
      /\ mem.st = "half" => AfterFailure.st = "open"
    <2>1. CASE mem.st \in {"none", "closed"}
        BY <1>1, <1>2, <2>1, BoundAssumption DEF AfterFailure, OpenFor, ClosedAt, Entries
    <2>2. CASE mem.st = "open"
        BY <1>1, <2>2 DEF AfterFailure, Entries
    <2>3. CASE mem.st = "half"
        BY <1>1, <1>2, <2>3, BoundAssumption DEF AfterFailure, OpenFor, Entries, Least
    <2> QED BY <1>1, <2>1, <2>2, <2>3 DEF Entries
<1> HIDE DEF AfterFailure
<1>4. WriteBack(r) \in Writes
    <2>1. CASE mem.st = "open"
        BY <1>1, <2>1, BoundAssumption DEF WriteBack, Writes, Rows, Least
    <2>2. CASE mem.st # "open" /\ AfterFailure.st = "open"
        BY <1>1, <1>3, <2>2, BoundAssumption DEF WriteBack, Writes, Entries
    <2>3. CASE mem.st # "open" /\ AfterFailure.st # "open"
        BY <2>3, BoundAssumption DEF WriteBack, Writes, NoWrite
    <2> QED BY <2>1, <2>2, <2>3
<1> QED BY <1>3, <1>4

\* A request that goes on keeps the types of the control points and the rows.
Places == {"idle", "candidate", "admitted", "probe", "timer", "restore", "write"}

\* A request that goes on is at one of the control points, the others where they were.
LEMMA GotoType ==
    ASSUME TypeOK, NEW r \in Request, NEW place \in Places, Goto(r, place)
    PROVE  /\ pc' \in [Request -> Places] /\ up' \in [Request -> Rows]
           /\ \A q \in Request : pc'[q] = IF q = r THEN place ELSE pc[q]
  BY BoundAssumption DEF TypeOK, Goto, Places, FreshRow, Rows

\* Every step keeps the types.
LEMMA BreakerTypeStep == BreakerInv /\ [Next]_vars => TypeOK'
<1> SUFFICES ASSUME BreakerInv, [Next]_vars PROVE TypeOK'
    OBVIOUS
<1> USE BoundAssumption DEF memVars, adminVars, histVars
<1>1. TypeOK /\ CountInv
    BY DEF BreakerInv
<1>2. FreshRow \in Rows /\ NoEntry \in Entries /\ NoWrite \in Writes /\ NoTimer \in 0 .. NoTimer
    BY DEF FreshRow, NoEntry, NoWrite, NoTimer, Rows, Entries, Writes
<1> HIDE DEF FreshRow, NoEntry, NoWrite, NoTimer
<1>3. ASSUME NEW r \in Request, Begin(r) PROVE TypeOK'
    BY <1>1, <1>3 DEF TypeOK, Begin
<1>4. ASSUME NEW r \in Request, AllowNo(r) PROVE TypeOK'
    <2>1. Goto(r, "idle") /\ "idle" \in Places
        BY <1>4 DEF AllowNo, Places
    <2>2. up[r] \in Rows
        BY <1>1 DEF TypeOK
    <2>3. mem' \in Entries
        BY <1>1, <1>4, <2>2 DEF AllowNo, OpenFor, TypeOK, Cooling, Rows, Entries
    <2> QED BY <1>1, <1>4, <2>1, <2>3, GotoType DEF AllowNo, TypeOK, Places
<1>5. ASSUME NEW r \in Request, AllowYes(r) PROVE TypeOK'
    <2>1. PICK place \in Places : Goto(r, place)
        BY <1>5 DEF AllowYes, Places
    <2>2. mem' \in Entries
        BY <1>1, <1>5 DEF AllowYes, ClosedAt, HalfOpenAt, TypeOK, Entries
    <2>3. since' \in 0 .. NoTimer
        BY <1>1, <1>5 DEF AllowYes, TypeOK, NoTimer
    <2> QED BY <1>1, <1>5, <2>1, <2>2, <2>3, GotoType DEF AllowYes, TypeOK, Places
<1>6. ASSUME NEW r \in Request, AllowBypass(r) PROVE TypeOK'
    <2>1. Goto(r, "admitted") /\ "admitted" \in Places
        BY <1>6 DEF AllowBypass, Places
    <2> QED BY <1>1, <1>2, <1>6, <2>1, GotoType DEF AllowBypass, TypeOK, Places
<1>7. ASSUME NEW r \in Request, Leave(r) PROVE TypeOK'
    <2>1. Goto(r, "idle") /\ "idle" \in Places
        BY <1>7 DEF Leave, Places
    <2> QED BY <1>1, <1>7, <2>1, GotoType DEF Leave, TypeOK, Places
<1>8. ASSUME NEW r \in Request, OnSuccess(r) PROVE TypeOK'
    <2>1. Goto(r, "timer") /\ "timer" \in Places
        BY <1>8 DEF OnSuccess, Places
    <2>2. mem' \in Entries
        BY <1>8 DEF OnSuccess, ClosedAt, Entries
    <2> QED BY <1>1, <1>8, <2>1, <2>2, GotoType DEF OnSuccess, TypeOK, Places
<1>9. ASSUME NEW r \in Request, RemoveTimer(r) PROVE TypeOK'
    <2>1. PICK place \in Places : Goto(r, place)
        BY <1>9 DEF RemoveTimer, Places
    <2> QED BY <1>1, <1>2, <1>9, <2>1, GotoType DEF RemoveTimer, TypeOK, Places
<1>10. ASSUME NEW r \in Request, Restore(r) PROVE TypeOK'
    <2>1. Goto(r, "idle") /\ "idle" \in Places
        BY <1>10 DEF Restore, Places
    <2>2. db' \in Rows
        BY <1>1, <1>2, <1>10 DEF Restore, TypeOK
    <2> QED BY <1>1, <1>10, <2>1, <2>2, GotoType DEF Restore, TypeOK, Places
<1>11. ASSUME NEW r \in Request, OnFailure(r) PROVE TypeOK'
    <2>1. PICK place \in Places : Goto(r, place)
        BY <1>11 DEF OnFailure, Onward, Places
    <2>2. mem' \in Entries /\ WriteBack(r) \in Writes
        BY <1>1, <1>11, FailureType DEF OnFailure
    <2>3. since' \in 0 .. NoTimer /\ streak' \in 0 .. MaxOpens /\ lastCool' \in 0 .. MaxCooldown
        BY <1>1, <1>2, <1>11, <2>2 DEF OnFailure, TypeOK, Least, Entries
    <2>4. wr' \in [Request -> Writes]
        BY <1>1, <1>11, <2>2 DEF OnFailure, TypeOK
    <2> QED BY <1>1, <1>11, <2>1, <2>2, <2>3, <2>4, GotoType DEF OnFailure, TypeOK, Places
<1>12. ASSUME NEW r \in Request, FailureIgnored(r) PROVE TypeOK'
    <2>1. PICK place \in Places : Goto(r, place)
        BY <1>12 DEF FailureIgnored, Onward, Places
    <2> QED BY <1>1, <1>12, <2>1, GotoType DEF FailureIgnored, TypeOK, Places
<1>13. ASSUME NEW r \in Request, WriteDb(r) PROVE TypeOK'
    <2>1. PICK place \in Places : Goto(r, place)
        BY <1>13 DEF WriteDb, Onward, Places
    <2>2. wr[r] \in Writes /\ db \in Rows
        BY <1>1 DEF TypeOK
    <2>3. db' \in Rows /\ ban' \in 0 .. MaxCooldown
        BY <1>1, <1>13, <2>2 DEF WriteDb, TypeOK, Rows, Writes
    <2> QED BY <1>1, <1>2, <1>13, <2>1, <2>3, GotoType DEF WriteDb, TypeOK, Places
<1>14. ASSUME Admin PROVE TypeOK'
    <2>1. ASSUME NEW op \in {"disable", "enable", "edit"}, AdminRead(op) PROVE TypeOK'
        BY <1>1, <2>1 DEF AdminRead, Event, TypeOK
    <2>2. CASE AdminWrite
        <3>1. db' \in Rows
            BY <1>1, <1>2, <2>2 DEF AdminWrite, TypeOK, Rows
        <3> QED BY <1>1, <1>2, <2>2, <3>1 DEF AdminWrite, TypeOK
    <2>3. CASE AdminReload
        BY <1>1, <2>3 DEF AdminReload, TypeOK
    <2>4. CASE AdminFails
        BY <1>1, <1>2, <2>4 DEF AdminFails, TypeOK
    <2>5. CASE AdminReset
        BY <1>1, <1>2, <2>5 DEF AdminReset, TypeOK
    <2>6. CASE Reload
        BY <1>1, <2>6 DEF Reload, Event, TypeOK
    <2>7. CASE SwitchAuto
        BY <1>1, <2>7 DEF SwitchAuto, Event, TypeOK
    <2>8. CASE ClearAuto
        BY <1>1, <1>2, <2>8 DEF ClearAuto, TypeOK
    <2> QED BY <1>14, <2>1, <2>2, <2>3, <2>4, <2>5, <2>6, <2>7, <2>8 DEF Admin
<1>15. CASE Restart
    BY <1>1, <1>2, <1>15 DEF Restart, Event, TypeOK
<1>16. CASE Tick
    <2>1. since' \in 0 .. NoTimer
        BY <1>1, <1>2, <1>16 DEF Tick, TypeOK, Least, NoTimer
    <2>2. ban' \in 0 .. MaxCooldown
        BY <1>1, <1>16 DEF Tick, TypeOK, Lower
    <2>3. up' \in [Request -> Rows] /\ wr' \in [Request -> Writes]
        BY <1>1, <1>16, OlderType DEF Tick, TypeOK
    <2> QED BY <1>1, <1>16, <2>1, <2>2, <2>3, OlderType DEF Tick, TypeOK
<1>17. CASE UNCHANGED vars
    BY <1>1, <1>17 DEF vars, TypeOK
<1> QED BY <1>3, <1>4, <1>5, <1>6, <1>7, <1>8, <1>9, <1>10, <1>11, <1>12, <1>13, <1>14, <1>15, <1>16, <1>17
        DEF Next, Serve

\* Every step keeps the count right, the half-open state timed and the late removal of the
\* timer harmless.
LEMMA BreakerKept ==
    ASSUME BreakerInv, [Next]_vars
    PROVE  CountInv' /\ HalfOpenTimed' /\ TimerInv'
<1> USE BoundAssumption DEF memVars, adminVars, histVars
<1> DEFINE Kept == CountInv' /\ HalfOpenTimed' /\ TimerInv'
<1>1. TypeOK /\ CountInv /\ HalfOpenTimed /\ TimerInv /\ mem \in Entries /\ since \in 0 .. NoTimer
    BY DEF BreakerInv, TypeOK
<1>2. ASSUME UNCHANGED <<mem, since, streak>>,
             \A q \in Request : pc'[q] = "timer" => pc[q] = "timer"
      PROVE  Kept
    BY <1>1, <1>2 DEF CountInv, FailuresCounted, HalfOpenTimed, TimerInv
<1>3. ASSUME mem' = NoEntry, since' = NoTimer, streak' = 0 PROVE Kept
    BY <1>3 DEF CountInv, FailuresCounted, HalfOpenTimed, TimerInv, NoEntry
<1>4. ASSUME NEW r \in Request, Begin(r) PROVE Kept
    BY <1>1, <1>2, <1>4 DEF Begin, TypeOK
<1>5. ASSUME NEW r \in Request, AllowNo(r) PROVE Kept
    <2>1. Goto(r, "idle") /\ "idle" \in Places
        BY <1>5 DEF AllowNo, Places
    <2>2. \A q \in Request : pc'[q] = "timer" => pc[q] = "timer"
        BY <1>1, <2>1, GotoType
    <2>3. CASE Cooling(up[r]) /\ mem.st = "none"
        <3>1. mem'.st = "open" /\ mem'.cool = up[r].cool /\ mem'.cool > 0
            BY <1>5, <2>3 DEF AllowNo, OpenFor, Cooling
        <3> QED BY <1>1, <1>5, <3>1, <2>2 DEF CountInv, FailuresCounted, HalfOpenTimed, TimerInv
    <2>4. CASE ~(Cooling(up[r]) /\ mem.st = "none")
        BY <1>2, <1>5, <2>2, <2>4 DEF AllowNo
    <2> QED BY <2>3, <2>4
<1>6. ASSUME NEW r \in Request, AllowYes(r) PROVE Kept
    <2>1. PICK place \in Places : Goto(r, place) /\ place # "timer"
        BY <1>6 DEF AllowYes, Places
    <2>2. \A q \in Request : pc'[q] = "timer" => pc[q] = "timer"
        BY <1>1, <2>1, GotoType
    <2>3. CASE mem.st = "none"
        BY <1>1, <1>6, <2>2, <2>3 DEF AllowYes, ClosedAt, CountInv, FailuresCounted, HalfOpenTimed, TimerInv
    <2>4. CASE mem.st = "closed"
        BY <1>2, <1>6, <2>2, <2>4 DEF AllowYes
    <2>5. CASE mem.st = "open"
        <3>1. mem'.st = "half" /\ since' = 0 /\ mem.cool = 0
            BY <1>6, <2>5 DEF AllowYes, HalfOpenAt, Passes
        <3> QED BY <1>1, <1>6, <2>2, <2>5, <3>1
                DEF CountInv, FailuresCounted, HalfOpenTimed, TimerInv, NoTimer
    <2>6. CASE mem.st = "half"
        BY <1>1, <1>6, <2>2, <2>6 DEF AllowYes, CountInv, FailuresCounted, HalfOpenTimed, TimerInv, NoTimer
    <2> QED BY <1>1, <2>3, <2>4, <2>5, <2>6 DEF Entries
<1>7. ASSUME NEW r \in Request, AllowBypass(r) PROVE Kept
    BY <1>3, <1>7 DEF AllowBypass
<1>8. ASSUME NEW r \in Request, Leave(r) PROVE Kept
    <2>1. Goto(r, "idle") /\ "idle" \in Places
        BY <1>8 DEF Leave, Places
    <2> QED BY <1>1, <1>2, <1>8, <2>1, GotoType DEF Leave
<1>9. ASSUME NEW r \in Request, OnSuccess(r) PROVE Kept
    BY <1>9 DEF OnSuccess, ClosedAt, CountInv, FailuresCounted, HalfOpenTimed, TimerInv
<1>10. ASSUME NEW r \in Request, RemoveTimer(r) PROVE Kept
    <2>1. PICK place \in Places : Goto(r, place) /\ place # "timer"
        BY <1>10 DEF RemoveTimer, Places
    <2>2. mem.st # "half"
        BY <1>1, <1>10 DEF RemoveTimer, TimerInv
    <2> QED BY <1>1, <1>10, <2>1, <2>2, GotoType
            DEF RemoveTimer, CountInv, FailuresCounted, HalfOpenTimed, TimerInv
<1>11. ASSUME NEW r \in Request, Restore(r) PROVE Kept
    <2>1. Goto(r, "idle") /\ "idle" \in Places
        BY <1>11 DEF Restore, Places
    <2> QED BY <1>1, <1>2, <1>11, <2>1, GotoType DEF Restore
<1>12. ASSUME NEW r \in Request, OnFailure(r) PROVE Kept
    <2>1. PICK place \in Places : Goto(r, place) /\ place # "timer"
        BY <1>12 DEF OnFailure, Onward, Places
    <2>2. \A q \in Request : pc'[q] = "timer" => pc[q] = "timer"
        BY <1>1, <2>1, GotoType
    <2>3. /\ mem'.st \in {"closed", "open"}
          /\ mem'.st = "open" => mem.st = "open" \/ mem'.cool > 0
          /\ mem'.st = "closed" => mem'.n = mem.n + 1 /\ mem.n + 1 < Threshold
          /\ mem.st = "open" => mem' = mem
          /\ mem.st = "half" => mem'.st = "open"
        BY <1>1, <1>12, FailureType DEF OnFailure
    <2>4. CountInv'
        <3> SUFFICES ASSUME mem'.st = "closed" PROVE mem'.n = streak' /\ streak' < Threshold
            BY <2>3 DEF CountInv, FailuresCounted
        <3>1. mem.st \in {"none", "closed"} /\ mem.n = streak
            BY <1>1, <2>3 DEF CountInv, FailuresCounted, Entries
        <3>2. streak' = Least(streak + 1, MaxOpens)
            BY <1>12, <3>1 DEF OnFailure
        <3> QED BY <1>1, <2>3, <3>1, <3>2 DEF Least, TypeOK
    <2>5. TimerInv'
        BY <1>1, <2>2, <2>3 DEF TimerInv
    <2> QED BY <2>3, <2>4, <2>5 DEF HalfOpenTimed
<1>13. ASSUME NEW r \in Request, FailureIgnored(r) PROVE Kept
    <2>1. PICK place \in Places : Goto(r, place) /\ place # "timer"
        BY <1>13 DEF FailureIgnored, Onward, Places
    <2> QED BY <1>1, <1>2, <1>13, <2>1, GotoType DEF FailureIgnored
<1>14. ASSUME NEW r \in Request, WriteDb(r) PROVE Kept
    <2>1. PICK place \in Places : Goto(r, place) /\ place # "timer"
        BY <1>14 DEF WriteDb, Onward, Places
    <2> QED BY <1>1, <1>2, <1>14, <2>1, GotoType DEF WriteDb
<1>15. ASSUME Admin PROVE Kept
    <2>1. CASE AdminReset
        BY <1>3, <2>1 DEF AdminReset
    <2>2. CASE ~AdminReset
        BY <1>2, <1>15, <2>2
           DEF Admin, AdminRead, AdminWrite, AdminReload, AdminFails, Reload, SwitchAuto, ClearAuto
    <2> QED BY <2>1, <2>2
<1>16. CASE Restart
    BY <1>3, <1>16 DEF Restart
<1>17. CASE Tick
    <2>1. mem'.st = mem.st /\ mem'.n = mem.n
        BY <1>1, <1>17, OlderType DEF Tick
    <2>2. since # NoTimer => since' # NoTimer
        BY <1>1, <1>17 DEF Tick, Least, NoTimer
    <2> QED BY <1>1, <1>17, <2>1, <2>2 DEF Tick, CountInv, FailuresCounted, HalfOpenTimed, TimerInv
<1>18. CASE UNCHANGED vars
    BY <1>2, <1>18 DEF vars
<1> QED BY <1>4, <1>5, <1>6, <1>7, <1>8, <1>9, <1>10, <1>11, <1>12, <1>13, <1>14, <1>15, <1>16, <1>17, <1>18
        DEF Next, Serve

\* Among any number of concurrent requests, admin operations and restarts the breaker counts
\* each failure once, opens at the threshold, and is never half open without the timer that
\* frees it: the removal of a timer after the lock is released never removes a probe's.
THEOREM BreakerIsExact == Spec => []BreakerExact
<1>1. BreakerInv /\ [Next]_vars => BreakerInv'
    BY BreakerTypeStep, BreakerKept DEF BreakerInv
<1>2. BreakerInv => BreakerExact
    BY DEF BreakerInv, CountInv, BreakerExact
<1> QED BY <1>1, <1>2, BreakerStarts, PTL DEF Spec

\* No write-back of a request, however late it arrives, touches a manual disable: only an
\* admin handler changes such a row.
THEOREM ManualDisableStays == Spec => ManualStays
<1> DEFINE Stays == db.by = "manual" /\ apc' = apc => db' \in {db, Older(db)}
<1>1. ASSUME [Next]_vars PROVE [Stays]_vars
    <2> SUFFICES ASSUME db.by = "manual", apc' = apc PROVE db' \in {db, Older(db)}
        OBVIOUS
    <2> USE DEF memVars, adminVars, histVars
    <2>1. ASSUME NEW r \in Request, Begin(r) \/ Serve(r) PROVE db' = db
        BY <2>1 DEF Begin, Serve, AllowNo, AllowYes, AllowBypass, Leave, OnSuccess, RemoveTimer, Restore,
                    OnFailure, FailureIgnored, WriteDb
    <2>2. CASE Admin
        <3>1. ~AdminWrite
            BY DEF AdminWrite
        <3> QED BY <2>2, <3>1
                DEF Admin, AdminRead, AdminReload, AdminFails, AdminReset, Reload, SwitchAuto, ClearAuto
    <2>3. CASE Restart
        BY <2>3 DEF Restart
    <2>4. CASE Tick
        BY <2>4 DEF Tick
    <2>5. CASE UNCHANGED vars
        BY <2>5 DEF vars
    <2> QED BY <1>1, <2>1, <2>2, <2>3, <2>4, <2>5 DEF Next
<1> QED BY <1>1, PTL DEF Spec, ManualStays

=============================================================================
