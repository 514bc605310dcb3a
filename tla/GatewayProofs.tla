---------------------------- MODULE GatewayProofs ----------------------------
(***************************************************************************)
(* Proofs about the request path, for any number of requests, any table of *)
(* routes, any upstreams and errors: what a request leaves in the log, the *)
(* order of its attempts, and the key it holds.                            *)
(***************************************************************************)
EXTENDS Gateway, SequenceTheorems, FiniteSetTheorems, TLAPS

-----------------------------------------------------------------------------
(* What is true of one request.                                              *)

Early   == {"start", "quota", "route", "begin"}
Trying  == {"build", "call", "onFailure"}
Won     == {"onSuccess", "image", "complete", "discard", "respond"}
Bodies  == {"stream", "closed"}
OnTrail == Trying \cup Won \cup Bodies
Holding == {"build", "call", "onFailure", "onSuccess", "image", "complete", "discard", "release"}

\* The candidates are different routes, the better ones first.
WellOrdered(att) ==
    \A i, j \in DOMAIN att : i < j => att[i] # att[j] /\ Priority(att[i]) <= Priority(att[j])

\* The last k attempts were at the first candidate, the others at f routes that are no
\* longer candidates.
Trail(att, h, f, k) ==
    /\ att # <<>> /\ k <= Len(h)
    /\ \A i \in DOMAIN h : i > Len(h) - k => h[i].route = Head(att)
    /\ \A i \in DOMAIN h : i <= Len(h) - k => \A j \in DOMAIN att : h[i].route # att[j]
    /\ Cardinality({h[i].route : i \in 1..(Len(h) - k)}) = f

\* The attempts went from better priorities to worse ones, and none was worse than x.
Rising(h) == \A i, j \in DOMAIN h : i < j => Priority(h[i].route) <= Priority(h[j].route)
NoneWorse(h, x) == \A i \in DOMAIN h : Priority(h[i].route) <= Priority(x)

\* Attempts at the first candidate, from the place of the handler.
Made(c) == IF c.pc = "build" THEN 0 ELSE IF c.pc = "call" THEN c.idx ELSE c.idx + 1

\* The attempt before allows the next one.
MayTry(kind, h, k) ==
    h # <<>> => IF k > 0 THEN MayRetry(Last(h)) ELSE MayLeave(kind, Last(h))

\* The attempts that were made and may be made.
AttemptsGood(c) ==
    /\ c.pc \in Early => c.hist = <<>> /\ c.failed = 0
    /\ c.pc \in OnTrail \cup {"begin"} => WellOrdered(c.att) /\ c.att # <<>>
    /\ c.pc \in OnTrail => Trail(c.att, c.hist, c.failed, Made(c)) /\ NoneWorse(c.hist, Head(c.att))
    /\ Disciplined(c.in.kind, c.hist) /\ Rising(c.hist)
    /\ c.pc \in {"build", "call"} => MayTry(c.in.kind, c.hist, Made(c))
    /\ c.pc \in {"call", "onFailure", "onSuccess"} => c.idx <= Table[Head(c.att)].retries
    /\ c.pc = "onFailure" => Last(c.hist).res \in Error
    /\ c.pc \in Won => Last(c.hist).res = "ok"

\* The events of a request tell its attempts.
Tells(c) == TellsAttempts(c.in.kind, c.hist, c.events)

\* The events that were written and will be written.
EventsGood(c) ==
    /\ c.pc \in Early \cup Trying \cup Won => c.events = <<>>
    /\ c.pc = "release" => Len(c.events) = 1 /\ c.events[1].status = c.out
    /\ LoggedOnce(c) /\ Tells(c)
    /\ c.pc \in Bodies =>
         /\ Len(c.events) + c.tee.spawned + (IF c.tee.ctx THEN 1 ELSE 0) = 1
         /\ c.tee.finalized \/ c.pc = "closed" => ~c.tee.ctx
         /\ c.answer = 200 /\ \A i \in DOMAIN c.events : c.events[i].status = 200
    /\ c.pc \notin Bodies => c.tee = NoTee

\* The key that is held and the answer that was given.
KeyGood(c) ==
    /\ c.pc # "start" => c.in \in Input
    /\ c.pc = "begin" => ~c.in.stream
    /\ c.held => ~c.in.stream /\ c.pc \notin Early
    /\ c.pc \in {"complete", "discard", "release"} => c.held
    /\ c.pc = "complete" => c.out \in {200, 202}
    /\ c.pc = "image" => c.in.kind = "images"
    /\ c.pc \in Early \cup Trying \cup Won \cup {"release"} => c.answer = 0

Good(c) == c \in Handling /\ AttemptsGood(c) /\ EventsGood(c) /\ KeyGood(c)

-----------------------------------------------------------------------------
(* What is true of the row of the key.                                       *)

\* A request that holds the key and has not settled it owns the row.
HoldersOwn == \A r \in Request : q[r].held /\ q[r].pc \in Holding =>
                store.status = "processing" /\ store.by = r

\* A completed row has the answer of a request that succeeded, and that it gives or gave.
CompletedEarned ==
    store.status = "completed" =>
      LET c == q[store.by] IN
      /\ store.by \in Request /\ store.code \in {200, 202}
      /\ c.pc \in {"respond", "answered", "gone"} /\ c.out = store.code
      /\ c.answer \in {0, store.code} /\ Last(c.hist).res = "ok"

ReplaysRow == \A r \in Request : q[r].pc = "replayed" =>
                store.status = "completed" /\ q[r].answer = store.code

RowInv ==
    /\ store.status = "processing" => store.by \in Request
    /\ KeySettled /\ HoldersOwn /\ CompletedEarned /\ ReplaysRow

GatewayInv == TypeOK /\ (\A r \in Request : Good(q[r])) /\ RowInv
-----------------------------------------------------------------------------
(* The candidates and their order.                                           *)

\* The fields of a route.
LEMMA RouteTyped ==
    ASSUME NEW x \in Route
    PROVE  /\ x \in Nat /\ Up(x) \in Upstream /\ Priority(x) \in Nat
           /\ Table[x].weight \in Nat /\ Table[x].retries \in Nat /\ Table[x].lock \in BOOLEAN
  BY TableAssumption DEF Up, Priority

\* A function on 1..n is a sequence of length n.
LEMMA FunctionIsSeq ==
    ASSUME NEW S, NEW n \in Nat, NEW f \in [1..n -> S]
    PROVE  f \in Seq(S) /\ Len(f) = n /\ DOMAIN f = 1..n
<1>1. f \in Seq(S)
    BY SeqDef
<1>2. Len(f) \in Nat /\ 1..Len(f) = 1..n
    BY <1>1, LenProperties
<1> QED BY <1>1, <1>2

\* Every draw of order_candidates gives different routes, the better priorities first.
LEMMA OrderIsGood ==
    ASSUME NEW cands \in SUBSET Route, NEW order \in order_candidates(cands)
    PROVE  order \in Seq(Route) /\ WellOrdered(order)
<1>1. IsFiniteSet(cands) /\ Cardinality(cands) \in Nat
    BY TableAssumption, FS_Subset, FS_CardinalityType
<1>2. /\ order \in [1..Cardinality(cands) -> cands]
      /\ \E d : \A i, j \in DOMAIN order : i < j => Before(d, order[i], order[j])
    BY DEF order_candidates
<1>3. order \in Seq(Route) /\ DOMAIN order = 1..Cardinality(cands)
    BY <1>1, <1>2, FunctionIsSeq
<1>4. ASSUME NEW d, NEW x \in Route, NEW y \in Route, Before(d, x, y)
      PROVE  x # y /\ Priority(x) <= Priority(y)
    BY <1>4, RouteTyped DEF Before, Priority
<1>5. \A i \in DOMAIN order : order[i] \in Route
    BY <1>2
<1> QED BY <1>2, <1>3, <1>4, <1>5 DEF WellOrdered

\* Moving a candidate of the best priority to the front keeps the order.
LEMMA MoveIsGood ==
    ASSUME NEW att \in Seq(Route), WellOrdered(att), NEW pos \in DOMAIN att,
           Priority(att[pos]) = Priority(att[1])
    PROVE  MovedFirst(att, pos) \in Seq(Route) /\ WellOrdered(MovedFirst(att, pos))
<1> DEFINE new == MovedFirst(att, pos)
<1>1. Len(att) \in Nat /\ DOMAIN att = 1..Len(att) /\ \A i \in DOMAIN att : att[i] \in Route
    OBVIOUS
<1>2. /\ DOMAIN new = 1..Len(att)
      /\ \A i \in 1..Len(att) :
            new[i] = IF i = 1 THEN att[pos] ELSE IF i <= pos THEN att[i - 1] ELSE att[i]
    BY <1>1 DEF MovedFirst
<1>3. \A i \in 1..Len(att) : new[i] \in Route
    BY <1>1, <1>2
<1>4. new \in [1..Len(att) -> Route]
    BY <1>1, <1>3 DEF MovedFirst
<1>5. new \in Seq(Route)
    BY <1>1, <1>4, FunctionIsSeq
<1>6. \A i \in DOMAIN att : Priority(att[i]) \in Nat
    BY <1>1, RouteTyped
<1>7. \A i \in 1..pos : Priority(att[i]) = Priority(att[1])
    BY <1>1, <1>6 DEF WellOrdered
<1>8. ASSUME NEW i \in 1..Len(att), NEW j \in 1..Len(att), i < j
      PROVE  new[i] # new[j] /\ Priority(new[i]) <= Priority(new[j])
    <2>1. CASE j <= pos
      <3>1. new[j] = att[j - 1] /\ j - 1 \in 1..pos /\ j - 1 # pos
        BY <1>1, <1>2, <1>8, <2>1
      <3>2. new[i] = att[IF i = 1 THEN pos ELSE i - 1] /\ (i = 1 \/ i - 1 \in 1..pos)
        BY <1>1, <1>2, <1>8, <2>1
      <3>3. Priority(new[i]) = Priority(att[1]) /\ Priority(new[j]) = Priority(att[1])
        BY <1>1, <1>7, <3>1, <3>2
      <3>4. new[i] # new[j]
        BY <1>1, <1>8, <2>1, <3>1, <3>2 DEF WellOrdered
      <3> QED BY <1>1, <1>6, <3>3, <3>4
    <2>2. CASE j > pos
      <3>1. new[j] = att[j]
        BY <1>1, <1>2, <1>8, <2>2
      <3>2. PICK k \in 1..Len(att) : new[i] = att[k] /\ k < j
        BY <1>1, <1>2, <1>8, <2>2
      <3> QED BY <1>1, <3>1, <3>2 DEF WellOrdered
    <2> QED BY <1>1, <2>1, <2>2
<1> QED BY <1>2, <1>5, <1>8 DEF WellOrdered

\* A set of natural numbers has a least member.
LEMMA LeastExists ==
    ASSUME NEW S \in SUBSET Nat, S # {}
    PROVE  \E i \in S : \A j \in S : i <= j
<1> DEFINE Below == OpToRel(<, Nat)
<1>1. IsWellFoundedOn(Below, Nat)
    BY NatLessThanWellFounded, Zenon
<1>2. PICK x \in S : \A y \in S : ~(<<y, x>> \in Below)
    <2> HIDE DEF Below
    <2> QED BY <1>1, WFMin
<1>3. \A y \in S : ~(y < x)
    BY <1>2 DEF OpToRel
<1> QED BY <1>3

\* The pinned upstream goes first only within the best priority.
LEMMA PinKeepsOrder ==
    ASSUME NEW att \in Seq(Route), WellOrdered(att), NEW up
    PROVE  reorder_pinned_first(att, up) \in Seq(Route) /\ WellOrdered(reorder_pinned_first(att, up))
<1> DEFINE At == {i \in DOMAIN att : /\ Up(att[i]) = up
                                     /\ Table[att[i]].priority = Table[att[1]].priority}
           pos == CHOOSE i \in At : \A j \in At : i <= j
<1>1. CASE At = {}
    BY <1>1 DEF reorder_pinned_first
<1>2. CASE At # {}
    <2>1. At \in SUBSET Nat
      OBVIOUS
    <2>2. pos \in At
      <3> HIDE DEF At
      <3> QED BY <1>2, <2>1, LeastExists
    <2>3. pos \in DOMAIN att /\ Priority(att[pos]) = Priority(att[1])
      <3> HIDE DEF pos
      <3> QED BY <2>2 DEF Priority
    <2>4. reorder_pinned_first(att, up) = MovedFirst(att, pos)
      BY <1>2 DEF reorder_pinned_first
    <2> HIDE DEF pos, At
    <2> QED BY <2>3, <2>4, MoveIsGood
<1> QED BY <1>1, <1>2

\* What decide_mode keeps and the pin moves is in order.
LEMMA AttemptsAreGood ==
    ASSUME NEW kind, NEW order \in Seq(Route), WellOrdered(order), NEW att \in Attempts(kind, order)
    PROVE  att \in Seq(Route) /\ WellOrdered(att)
<1> DEFINE At == {i \in DOMAIN order : kind # "chat" \/ ModeOf[Up(order[i])] # "none"}
           n == Cardinality(At)
           InOrder == {f \in [1..n -> At] : \A i, j \in DOMAIN f : i < j => f[i] < f[j]}
           served == {[i \in 1..n |-> order[f[i]]] : f \in InOrder}
<1>1. DOMAIN order = 1..Len(order) /\ Len(order) \in Nat /\ \A i \in DOMAIN order : order[i] \in Route
    OBVIOUS
<1>2. At \subseteq 1..Len(order) /\ n \in Nat
    <2>1. At \subseteq 1..Len(order)
      BY <1>1
    <2>2. IsFiniteSet(1..Len(order))
      BY <1>1, FS_Interval
    <2> QED BY <2>1, <2>2, FS_Subset, FS_CardinalityType
<1>3. ASSUME NEW s \in served
      PROVE  s \in Seq(Route) /\ WellOrdered(s)
    <2> HIDE DEF At, n
    <2>1. PICK f \in [1..n -> At] : /\ \A i, j \in 1..n : i < j => f[i] < f[j]
                                    /\ s = [i \in 1..n |-> order[f[i]]]
      OBVIOUS
    <2>2. s \in [1..n -> Route]
      BY <1>1, <1>2, <2>1
    <2>3. s \in Seq(Route) /\ DOMAIN s = 1..n
      BY <1>2, <2>2, FunctionIsSeq
    <2>4. ASSUME NEW i \in 1..n, NEW j \in 1..n, i < j
          PROVE  s[i] # s[j] /\ Priority(s[i]) <= Priority(s[j])
      <3>1. f[i] \in DOMAIN order /\ f[j] \in DOMAIN order /\ f[i] < f[j]
        BY <1>1, <1>2, <2>1, <2>4
      <3>2. s[i] = order[f[i]] /\ s[j] = order[f[j]]
        BY <2>1
      <3> QED BY <3>1, <3>2 DEF WellOrdered
    <2> QED BY <2>3, <2>4 DEF WellOrdered
<1>4. att \in served \/ \E s \in served : att = reorder_pinned_first(s, pin)
    BY DEF Attempts
<1> HIDE DEF served
<1> QED BY <1>3, <1>4, PinKeepsOrder

-----------------------------------------------------------------------------
(* The attempts.                                                             *)

\* The attempts of a history are at routes.
LEMMA AttemptTyped ==
    ASSUME NEW h \in Seq(Attempt)
    PROVE  /\ Len(h) \in Nat /\ DOMAIN h = 1..Len(h)
           /\ \A i \in DOMAIN h : h[i] \in Attempt /\ h[i].route \in Route
           /\ h # <<>> => Len(h) \in DOMAIN h /\ Last(h) \in Attempt /\ Last(h).route \in Route
<1>1. Len(h) \in Nat /\ DOMAIN h = 1..Len(h) /\ \A i \in DOMAIN h : h[i] \in Attempt
    OBVIOUS
<1>2. \A a \in Attempt : a.route \in Route
    BY DEF Attempt
<1>3. h # <<>> => Len(h) > 0
    OBVIOUS
<1> QED BY <1>1, <1>2, <1>3 DEF Last

\* The routes tried in the first m attempts, of which there are finitely many.
LEMMA RoutesFinite ==
    ASSUME NEW h \in Seq(Attempt), NEW S, \A i \in S : i \in DOMAIN h
    PROVE  IsFiniteSet({h[i].route : i \in S})
<1>1. {h[i].route : i \in S} \subseteq Route
    BY AttemptTyped
<1> QED BY <1>1, TableAssumption, FS_Subset

AtLast(h) == {i \in DOMAIN h : h[i].route = Last(h).route}
RoutesOf(h) == {h[i].route : i \in DOMAIN h}

\* What is counted in an event is what the trail says.
LEMMA TrailCounts ==
    ASSUME NEW att \in Seq(Route), NEW h \in Seq(Attempt), NEW f \in Nat, NEW k \in Nat, k > 0,
           Trail(att, h, f, k)
    PROVE  /\ h # <<>> /\ Last(h).route = Head(att)
           /\ Cardinality(AtLast(h)) = k /\ Cardinality(RoutesOf(h)) = f + 1
<1>1. Len(h) \in Nat /\ DOMAIN h = 1..Len(h) /\ \A i \in DOMAIN h : h[i].route \in Route
    BY AttemptTyped
<1>2. /\ att # <<>> /\ k <= Len(h)
      /\ \A i \in DOMAIN h : i > Len(h) - k => h[i].route = Head(att)
      /\ \A i \in DOMAIN h : i <= Len(h) - k => \A j \in DOMAIN att : h[i].route # att[j]
      /\ Cardinality({h[i].route : i \in 1..(Len(h) - k)}) = f
    BY DEF Trail
<1>3. Head(att) = att[1] /\ 1 \in DOMAIN att
    BY <1>2
<1>4. h # <<>> /\ Last(h).route = Head(att)
    BY <1>1, <1>2 DEF Last
<1>5. {i \in DOMAIN h : h[i].route = Last(h).route} = (Len(h) - k + 1)..Len(h)
    BY <1>1, <1>2, <1>3, <1>4
<1>6. Cardinality((Len(h) - k + 1)..Len(h)) = k
    <2> PICK n \in Nat : n = Len(h)
      BY <1>1
    <2>1. k <= n /\ n - k + 1 \in Int /\ n \in Int
      BY <1>2
    <2>2. Cardinality((n - k + 1)..n) = IF n - k + 1 > n THEN 0 ELSE n - (n - k + 1) + 1
      BY <2>1, FS_Interval
    <2> QED BY <2>1, <2>2
<1>7. Cardinality({h[i].route : i \in DOMAIN h}) = f + 1
    <2>1. PICK S : S = {h[i].route : i \in 1..(Len(h) - k)}
      OBVIOUS
    <2>2. IsFiniteSet(S)
      <3> PICK T : T = 1..(Len(h) - k)
        OBVIOUS
      <3>1. \A i \in T : i \in DOMAIN h
        BY <1>1
      <3>2. IsFiniteSet({h[i].route : i \in T})
        BY <3>1, RoutesFinite
      <3> QED BY <2>1, <3>2
    <2>3. Head(att) \notin S
      BY <1>1, <1>2, <1>3, <2>1
    <2>4. {h[i].route : i \in DOMAIN h} = S \cup {Head(att)}
      <3>1. ASSUME NEW i \in DOMAIN h PROVE h[i].route \in S \cup {Head(att)}
        BY <1>1, <1>2, <2>1
      <3>2. Len(h) \in DOMAIN h /\ h[Len(h)].route = Head(att)
        BY <1>1, <1>2
      <3>3. S \subseteq {h[i].route : i \in DOMAIN h}
        BY <1>1, <2>1
      <3> QED BY <3>1, <3>2, <3>3
    <2> QED BY <1>2, <2>1, <2>2, <2>3, <2>4, FS_AddElement
<1> QED BY <1>4, <1>5, <1>6, <1>7 DEF AtLast, RoutesOf

\* A candidate that was tried and given up is one of those that failed.
LEMMA TrailAdvances ==
    ASSUME NEW att \in Seq(Route), NEW h \in Seq(Attempt), NEW f \in Nat, NEW k \in Nat, k > 0,
           Trail(att, h, f, k), WellOrdered(att), Len(att) > 1, NoneWorse(h, Head(att))
    PROVE  /\ Tail(att) \in Seq(Route) /\ Tail(att) # <<>> /\ WellOrdered(Tail(att))
           /\ Trail(Tail(att), h, f + 1, 0) /\ NoneWorse(h, Head(Tail(att)))
<1>1. Len(h) \in Nat /\ DOMAIN h = 1..Len(h) /\ \A i \in DOMAIN h : h[i].route \in Route
    BY AttemptTyped
<1>2. att # <<>> /\ Len(att) \in Nat /\ Len(att) > 1
    BY DEF Trail
<1>3. /\ Tail(att) \in Seq(Route) /\ Tail(att) # <<>> /\ Len(Tail(att)) = Len(att) - 1
      /\ \A i \in 1..Len(Tail(att)) : Tail(att)[i] = att[i + 1]
      /\ Head(Tail(att)) = att[2] /\ Head(att) = att[1]
    <2>1. /\ Tail(att) \in Seq(Route) /\ Len(Tail(att)) = Len(att) - 1
          /\ \A i \in 1..Len(Tail(att)) : Tail(att)[i] = att[i + 1]
      BY <1>2, HeadTailProperties
    <2> PICK t \in Seq(Route) : t = Tail(att)
      BY <2>1
    <2>2. Len(t) \in Nat /\ Len(t) > 0
      BY <1>2, <2>1
    <2>3. t # <<>> /\ 1 \in 1..Len(t)
      <3>1. 1 \in 1..Len(t) /\ Len(t) # 0
        BY <2>2
      <3>2. Len(<<>>) = 0
        OBVIOUS
      <3> QED BY <3>1, <3>2, Zenon
    <2>4. Head(t) = t[1]
      BY <2>3
    <2> QED BY <1>2, <2>1, <2>3, <2>4
<1>4. WellOrdered(Tail(att))
    BY <1>2, <1>3 DEF WellOrdered
<1>5. \A i \in 1..Len(Tail(att)) : Tail(att)[i] # att[1]
    BY <1>2, <1>3 DEF WellOrdered
<1>6. ASSUME NEW i \in DOMAIN h, NEW j \in DOMAIN Tail(att)
      PROVE  h[i].route # Tail(att)[j]
    <2>1. j \in 1..Len(Tail(att)) /\ j + 1 \in DOMAIN att
      BY <1>2, <1>3
    <2>2. i > Len(h) - k \/ i <= Len(h) - k
      BY <1>1
    <2> QED BY <1>3, <1>5, <2>1, <2>2 DEF Trail
<1>7. Cardinality({h[i].route : i \in 1..(Len(h) - 0)}) = f + 1
    <2>1. 1..(Len(h) - 0) = DOMAIN h
      BY <1>1
    <2>2. Cardinality({h[i].route : i \in DOMAIN h}) = f + 1
      BY TrailCounts DEF RoutesOf
    <2> QED BY <2>1, <2>2
<1>8. Trail(Tail(att), h, f + 1, 0)
    BY <1>1, <1>3, <1>6, <1>7 DEF Trail
<1>9. NoneWorse(h, Head(Tail(att)))
    <2>1. Priority(att[1]) <= Priority(att[2]) /\ Priority(att[1]) \in Nat /\ Priority(att[2]) \in Nat
      BY <1>2, RouteTyped DEF WellOrdered
    <2>2. \A i \in DOMAIN h : Priority(h[i].route) \in Nat /\ Priority(h[i].route) <= Priority(att[1])
      BY <1>1, <1>3, RouteTyped DEF NoneWorse
    <2> QED BY <1>3, <2>1, <2>2 DEF NoneWorse
<1> QED BY <1>3, <1>4, <1>8, <1>9

\* One more attempt at the first candidate.
Tries(att, h, e) == Append(h, [route |-> Head(att), res |-> e])

\* An attempt more at the first candidate.
LEMMA TrailGrows ==
    ASSUME NEW att \in Seq(Route), NEW h \in Seq(Attempt), NEW f \in Nat, NEW k \in Nat,
           NEW e \in UpstreamError \cup ConvertError \cup {"ok"},
           Trail(att, h, f, k), Rising(h), NoneWorse(h, Head(att))
    PROVE  LET new == Tries(att, h, e) IN
           /\ new \in Seq(Attempt) /\ Len(new) = Len(h) + 1 /\ Last(new) = [route |-> Head(att), res |-> e]
           /\ new # <<>> /\ Last(new).route = Head(att) /\ Last(new).res = e
           /\ \A i \in DOMAIN h : new[i] = h[i]
           /\ Trail(att, new, f, k + 1) /\ Rising(new) /\ NoneWorse(new, Head(att))
<1> DEFINE new == Tries(att, h, e)
           a == [route |-> Head(att), res |-> e]
<1>1. Len(h) \in Nat /\ DOMAIN h = 1..Len(h) /\ \A i \in DOMAIN h : h[i].route \in Route
    BY AttemptTyped
<1>2. att # <<>> /\ Head(att) \in Route /\ Head(att) = att[1] /\ 1 \in DOMAIN att
    BY DEF Trail
<1>3. a \in Attempt /\ a.route = Head(att) /\ a.res = e
    BY <1>2 DEF Attempt
<1>4. /\ new \in Seq(Attempt) /\ Len(new) = Len(h) + 1 /\ DOMAIN new = 1..(Len(h) + 1)
      /\ \A i \in DOMAIN h : new[i] = h[i]
      /\ new[Len(h) + 1] = a
    <2> HIDE DEF a
    <2> QED BY <1>1, <1>3, AppendProperties DEF Tries, a
<1> HIDE DEF new, a
<1>5. Last(new) = a /\ new # <<>>
    BY <1>1, <1>4 DEF Last
<1>6. Trail(att, new, f, k + 1)
    <2>1. k + 1 <= Len(new)
      BY <1>1, <1>4 DEF Trail
    <2>2. \A i \in DOMAIN new : i > Len(new) - (k + 1) => new[i].route = Head(att)
      BY <1>1, <1>3, <1>4 DEF Trail
    <2>3. \A i \in DOMAIN new : i <= Len(new) - (k + 1) => i \in DOMAIN h /\ i <= Len(h) - k
      BY <1>1, <1>4
    <2>4. \A i \in DOMAIN new : i <= Len(new) - (k + 1) => \A j \in DOMAIN att : new[i].route # att[j]
      BY <1>4, <2>3 DEF Trail
    <2>5. {new[i].route : i \in 1..(Len(new) - (k + 1))} = {h[i].route : i \in 1..(Len(h) - k)}
      <3>1. Len(new) - (k + 1) = Len(h) - k
        BY <1>1, <1>4
      <3>2. \A i \in 1..(Len(h) - k) : i \in DOMAIN h
        BY <1>1
      <3> QED BY <1>4, <3>1, <3>2
    <2> QED BY <1>2, <2>1, <2>2, <2>4, <2>5 DEF Trail
<1>7. NoneWorse(new, Head(att))
    BY <1>1, <1>2, <1>3, <1>4, RouteTyped DEF NoneWorse
<1>8. Rising(new)
    <2>1. ASSUME NEW i \in DOMAIN new, NEW j \in DOMAIN new, i < j
          PROVE  Priority(new[i].route) <= Priority(new[j].route)
      <3>1. i \in DOMAIN h /\ new[i] = h[i]
        BY <1>1, <1>4, <2>1
      <3>2. CASE j = Len(h) + 1
        BY <1>3, <1>4, <3>1, <3>2 DEF NoneWorse
      <3>3. CASE j # Len(h) + 1
        BY <1>1, <1>4, <2>1, <3>1, <3>3 DEF Rising
      <3> QED BY <3>2, <3>3
    <2> QED BY <2>1 DEF Rising
<1> QED BY <1>3, <1>4, <1>5, <1>6, <1>7, <1>8 DEF new, a

\* The next attempt is allowed by the one before it, and the retries are not used up.
LEMMA DisciplineGrows ==
    ASSUME NEW att \in Seq(Route), NEW h \in Seq(Attempt), NEW f \in Nat, NEW k \in Nat, NEW kind,
           NEW e \in UpstreamError \cup ConvertError \cup {"ok"},
           Trail(att, h, f, k), Rising(h), NoneWorse(h, Head(att)),
           Disciplined(kind, h), MayTry(kind, h, k), k <= Table[Head(att)].retries
    PROVE  Disciplined(kind, Tries(att, h, e))
<1>1. Len(h) \in Nat /\ DOMAIN h = 1..Len(h) /\ \A i \in DOMAIN h : h[i].route \in Route
    BY AttemptTyped
<1>2. PICK new \in Seq(Attempt) : new = Tries(att, h, e)
    BY TrailGrows
<1>3. /\ Len(new) = Len(h) + 1 /\ DOMAIN new = 1..(Len(h) + 1)
      /\ \A i \in DOMAIN h : new[i] = h[i]
      /\ new[Len(h) + 1].route = Head(att)
    <2>1. /\ Len(new) = Len(h) + 1 /\ Last(new).route = Head(att)
          /\ \A i \in DOMAIN h : new[i] = h[i]
      BY <1>2, TrailGrows
    <2>2. Last(new) = new[Len(h) + 1] /\ DOMAIN new = 1..(Len(h) + 1)
      BY <1>1, <2>1 DEF Last
    <2> QED BY <2>1, <2>2
<1>4. /\ att # <<>> /\ k <= Len(h) /\ Head(att) = att[1] /\ 1 \in DOMAIN att
      /\ \A i \in DOMAIN h : i > Len(h) - k => h[i].route = Head(att)
      /\ \A i \in DOMAIN h : i <= Len(h) - k => h[i].route # Head(att)
    BY DEF Trail
<1>5. Table[Head(att)].retries \in Nat
    BY <1>4, RouteTyped
<1>6. ASSUME NEW i \in 1..(Len(new) - 1)
      PROVE  IF new[i + 1].route = new[i].route THEN MayRetry(new[i]) ELSE MayLeave(kind, new[i])
    <2>1. i \in DOMAIN h /\ new[i] = h[i]
      BY <1>1, <1>3
    <2>2. CASE i = Len(h)
      <3>1. h # <<>> /\ Last(h) = h[i] /\ new[i + 1].route = Head(att)
        BY <1>1, <1>3, <2>1, <2>2 DEF Last
      <3>2. h[i].route = Head(att) <=> k > 0
        BY <1>1, <1>4, <2>2, <2>1
      <3> QED BY <2>1, <3>1, <3>2 DEF MayTry
    <2>3. CASE i # Len(h)
      <3>1. i \in 1..(Len(h) - 1) /\ i + 1 \in DOMAIN h
        BY <1>1, <1>3, <2>1, <2>3
      <3> QED BY <1>3, <2>1, <3>1 DEF Disciplined
    <2> QED BY <2>2, <2>3
<1>7. ASSUME NEW i \in DOMAIN new, NEW j \in DOMAIN new, i < j, new[i].route = new[j].route
      PROVE  /\ j - i <= Table[new[i].route].retries
             /\ \A l \in i..j : new[l].route = new[i].route
    <2>1. i \in DOMAIN h /\ new[i] = h[i]
      BY <1>1, <1>3, <1>7
    <2>2. CASE j = Len(h) + 1
      <3>1. h[i].route = Head(att)
        BY <1>3, <1>7, <2>1, <2>2
      <3>2. i > Len(h) - k
        BY <1>1, <1>4, <2>1, <3>1
      <3>3. j - i <= Table[new[i].route].retries
        BY <1>1, <1>4, <1>5, <2>1, <2>2, <3>1, <3>2
      <3>4. ASSUME NEW l \in i..j PROVE new[l].route = Head(att)
        <4>1. l = Len(h) + 1 \/ (l \in DOMAIN h /\ l > Len(h) - k)
          BY <1>1, <2>1, <2>2, <3>2
        <4> QED BY <1>3, <1>4, <4>1
      <3> QED BY <2>1, <3>1, <3>3, <3>4
    <2>3. CASE j # Len(h) + 1
      <3>1. j \in DOMAIN h /\ \A l \in i..j : l \in DOMAIN h
        BY <1>1, <1>3, <2>1, <2>3
      <3>2. new[j] = h[j] /\ \A l \in i..j : new[l] = h[l]
        BY <1>3, <3>1
      <3>3. j - i <= Table[h[i].route].retries /\ \A l \in i..j : h[l].route = h[i].route
        BY <1>7, <2>1, <3>1, <3>2 DEF Disciplined
      <3> QED BY <2>1, <3>2, <3>3
    <2> QED BY <2>2, <2>3
<1>8. Disciplined(kind, new)
    BY <1>6, <1>7 DEF Disciplined
<1> QED BY <1>2, <1>8

-----------------------------------------------------------------------------
(* A request at work: what holds from the first attempt to the answer.       *)

\* The fields of a request.
LEMMA Fields ==
    ASSUME NEW c \in Handling
    PROVE  /\ c.pc \in Place /\ c.in \in Input \cup {None} /\ c.att \in Seq(Route)
           /\ c.idx \in Nat /\ c.failed \in Nat /\ c.last_idx \in Nat
           /\ c.held \in BOOLEAN /\ c.dberr \in BOOLEAN /\ c.out \in Status /\ c.answer \in Status
           /\ c.hist \in Seq(Attempt) /\ c.events \in Seq(LogEvent) /\ c.tee \in TeeStream
  BY DEF Handling

\* k attempts were made at the first candidate, and nothing was logged or answered.
AtWork(c, k) ==
    /\ c \in Handling /\ c.in \in Input
    /\ c.att # <<>> /\ WellOrdered(c.att)
    /\ Trail(c.att, c.hist, c.failed, k) /\ NoneWorse(c.hist, Head(c.att))
    /\ Disciplined(c.in.kind, c.hist) /\ Rising(c.hist)
    /\ c.events = <<>> /\ c.answer = 0 /\ c.tee = NoTee
    /\ c.held => ~c.in.stream

\* The handler moved on, and its attempts, events and key are the same.
SameWork(c, d) ==
    /\ d.in = c.in /\ d.att = c.att /\ d.failed = c.failed /\ d.hist = c.hist
    /\ d.events = c.events /\ d.answer = c.answer /\ d.tee = c.tee /\ d.held = c.held

\* A request whose attempts, events and key are the same is still at work.
LEMMA WorkMoves ==
    ASSUME NEW c, NEW k, AtWork(c, k), NEW d \in Handling, SameWork(c, d)
    PROVE  AtWork(d, k)
  BY Zenon DEF AtWork, SameWork

\* A good request that has a candidate in hand is at work.
LEMMA GoodWorks ==
    ASSUME NEW c, Good(c), c.pc \in Trying \cup Won
    PROVE  AtWork(c, Made(c)) /\ Made(c) \in Nat
<1>1. /\ c \in Handling /\ c.pc \in OnTrail /\ c.pc \notin Early /\ c.pc \notin Bodies
      /\ c.pc \in Early \cup Trying \cup Won /\ c.pc # "start"
    BY DEF Good, OnTrail, Trying, Won, Early, Bodies
<1>2. c.idx \in Nat
    BY <1>1, Fields
<1>3. Made(c) \in Nat
    BY <1>2 DEF Made
<1>4. AtWork(c, Made(c))
    BY <1>1 DEF AtWork, Good, AttemptsGood, EventsGood, KeyGood
<1> QED BY <1>3, <1>4

\* A request at work is good if its place fits the attempts and the key.
LEMMA WorkIsGood ==
    ASSUME NEW c, c.pc \in Trying \cup Won, AtWork(c, Made(c)),
           c.pc \in {"build", "call"} => MayTry(c.in.kind, c.hist, Made(c)),
           c.pc \in {"call", "onFailure", "onSuccess"} => c.idx <= Table[Head(c.att)].retries,
           c.pc = "onFailure" => Last(c.hist).res \in Error,
           c.pc \in Won => Last(c.hist).res = "ok",
           c.pc \in {"complete", "discard"} => c.held,
           c.pc = "complete" => c.out \in {200, 202},
           c.pc = "image" => c.in.kind = "images"
    PROVE  Good(c)
<1>1. /\ c.pc \notin Early /\ c.pc \notin Bodies /\ c.pc \notin {"answered", "gone", "unauthorized", "replayed"}
      /\ c.pc \notin {"start", "release", "begin", "closed"}
    BY DEF Trying, Won, Early, Bodies
<1>2. c \in Handling /\ DOMAIN c.events = {}
    BY DEF AtWork
<1>3. AttemptsGood(c)
    BY <1>1 DEF AttemptsGood, AtWork
<1>4. EventsGood(c)
    BY <1>1, <1>2 DEF EventsGood, AtWork, LoggedOnce, Tells, TellsAttempts
<1>5. KeyGood(c)
    BY <1>1 DEF KeyGood, AtWork
<1> QED BY <1>2, <1>3, <1>4, <1>5 DEF Good

\* The event ev is all that d adds to c, and it is about k attempts at the first candidate.
EventOf(c, k, d, ev) ==
    /\ d.in = c.in /\ d.hist = c.hist /\ d.events = Append(c.events, ev)
    /\ ev.retry = c.failed + k - 1
    /\ \/ ev.up = Up(Head(c.att))
       \/ c.in.kind = "images" /\ ev.up = None /\ ev.status \notin {200, 202}

\* An event written at the end of the attempts tells them.
LEMMA EventTells ==
    ASSUME NEW c, NEW k \in Nat, k > 0, AtWork(c, k), NEW d \in Handling, NEW ev \in LogEvent,
           EventOf(c, k, d, ev)
    PROVE  Tells(d) /\ Len(d.events) = 1 /\ d.events[1] = ev /\ DOMAIN d.events = {1}
<1>1. /\ c.att \in Seq(Route) /\ c.hist \in Seq(Attempt) /\ c.failed \in Nat
      /\ Trail(c.att, c.hist, c.failed, k) /\ c.events = <<>>
    BY Fields DEF AtWork
<1>2. PICK att \in Seq(Route) : att = c.att
    BY <1>1
<1>3. PICK h \in Seq(Attempt) : h = c.hist
    BY <1>1
<1>4. PICK f \in Nat : f = c.failed
    BY <1>1
<1>5. Trail(att, h, f, k)
    BY <1>1, <1>2, <1>3, <1>4
<1>6. /\ h # <<>> /\ Last(h).route = Head(att)
      /\ Cardinality(AtLast(h)) = k /\ Cardinality(RoutesOf(h)) = f + 1
    BY <1>5, TrailCounts
<1>7. Len(d.events) = 1 /\ d.events[1] = ev /\ DOMAIN d.events = {1}
    <2>1. d.events = <<ev>>
      BY <1>1 DEF EventOf
    <2> QED BY <2>1
<1>8. ev.retry = k - 1 + (f + 1) - 1
    BY <1>4 DEF EventOf
<1>9. Tells(d)
    BY <1>2, <1>3, <1>6, <1>7, <1>8 DEF EventOf, Tells, TellsAttempts, AtLast, RoutesOf
<1> QED BY <1>7, <1>9

-----------------------------------------------------------------------------
(* What the operators of the handler make of a request.                      *)

\* A request whose event is written: answered, about to release its key, or gone.
LEMMA LoggedIsGood ==
    ASSUME NEW d \in Handling, d.pc \in {"answered", "release"}, d.in \in Input,
           d.held => ~d.in.stream, d.tee = NoTee,
           Disciplined(d.in.kind, d.hist), Rising(d.hist), Tells(d), Len(d.events) = 1,
           d.pc = "answered" => d.events[1].status = d.answer,
           d.pc = "release" => d.events[1].status = d.out /\ d.held /\ d.answer = 0
    PROVE  Good(d)
<1>1. /\ d.pc \notin Early /\ d.pc \notin OnTrail /\ d.pc \notin Bodies /\ d.pc # "begin"
      /\ d.pc \notin Trying /\ d.pc \notin Won
    BY DEF Early, OnTrail, Bodies, Trying, Won
<1>2. AttemptsGood(d)
    BY <1>1 DEF AttemptsGood, Won
<1>3. EventsGood(d)
    BY <1>1 DEF EventsGood, LoggedOnce
<1>4. KeyGood(d)
    BY <1>1 DEF KeyGood
<1> QED BY <1>2, <1>3, <1>4 DEF Good

\* The fields of an event.
LEMMA EventTyped ==
    ASSUME NEW status \in Status, NEW up \in Upstream \cup {None}, NEW retry \in Nat
    PROVE  /\ Event(status, up, retry) \in LogEvent /\ Event(status, up, retry).status = status
           /\ Event(status, up, retry).up = up /\ Event(status, up, retry).retry = retry
  BY DEF Event, LogEvent

\* Logging adds an event and nothing else.
LEMMA LoggedFields ==
    ASSUME NEW c \in Handling, NEW ev \in LogEvent
    PROVE  LET d == Logged(c, ev) IN
           /\ d \in Handling /\ d.events = Append(c.events, ev)
           /\ d.pc = c.pc /\ d.in = c.in /\ d.att = c.att /\ d.idx = c.idx /\ d.failed = c.failed
           /\ d.last_idx = c.last_idx /\ d.held = c.held /\ d.dberr = c.dberr /\ d.out = c.out
           /\ d.answer = c.answer /\ d.hist = c.hist /\ d.tee = c.tee
<1>1. c.events \in Seq(LogEvent)
    BY Fields
<1>2. PICK es \in Seq(LogEvent) : es = Append(c.events, ev)
    BY <1>1, AppendProperties
<1> QED BY <1>2 DEF Logged, Handling

\* An answer changes the place and the status, and nothing else.
LEMMA AnsweredFields ==
    ASSUME NEW c \in Handling, NEW status \in Status
    PROVE  LET d == Answered(c, status) IN
           /\ d \in Handling /\ d.pc = "answered" /\ d.answer = status
           /\ d.in = c.in /\ d.att = c.att /\ d.idx = c.idx /\ d.failed = c.failed
           /\ d.last_idx = c.last_idx /\ d.held = c.held /\ d.dberr = c.dberr /\ d.out = c.out
           /\ d.hist = c.hist /\ d.events = c.events /\ d.tee = c.tee
  BY DEF Answered, Handling, Place

\* A request that is refused before any attempt.
LEMMA RefuseGood ==
    ASSUME NEW c, Good(c), c.pc \in Early, c.in \in Input, NEW status \in Status
    PROVE  /\ Good(Refuse(c, status)) /\ Refuse(c, status).pc = "answered"
           /\ Refuse(c, status).held = c.held /\ Refuse(c, status).dberr = c.dberr
           /\ Refuse(c, status).in = c.in
<1>1. c \in Handling /\ c.hist = <<>> /\ c.events = <<>> /\ ~c.held /\ c.tee = NoTee
    BY DEF Good, AttemptsGood, EventsGood, KeyGood, Early, Bodies
<1>2. PICK ev \in LogEvent : ev = Event(status, None, 0) /\ ev.status = status /\ ev.up = None /\ ev.retry = 0
    BY EventTyped
<1>3. PICK b \in Handling : /\ b = Logged(c, ev) /\ b.events = Append(c.events, ev) /\ b.in = c.in
                            /\ b.held = c.held /\ b.hist = c.hist /\ b.tee = c.tee /\ b.dberr = c.dberr
    BY <1>1, LoggedFields
<1>4. PICK d \in Handling : /\ d = Answered(b, status) /\ d.pc = "answered" /\ d.answer = status
                            /\ d.events = b.events /\ d.in = b.in /\ d.held = b.held
                            /\ d.hist = b.hist /\ d.tee = b.tee /\ d.dberr = b.dberr
    BY AnsweredFields
<1>5. d = Refuse(c, status)
    BY <1>2, <1>3, <1>4 DEF Refuse
<1>6. d.events = <<ev>> /\ Len(d.events) = 1 /\ d.events[1] = ev
    BY <1>1, <1>3, <1>4
<1>7. Tells(d)
    BY <1>1, <1>2, <1>3, <1>4, <1>6 DEF Tells, TellsAttempts
<1>8. Disciplined(d.in.kind, d.hist) /\ Rising(d.hist)
    BY <1>1, <1>3, <1>4 DEF Disciplined, Rising
<1>9. Good(d)
    BY <1>1, <1>2, <1>3, <1>4, <1>6, <1>7, <1>8, LoggedIsGood
<1> QED BY <1>3, <1>4, <1>5, <1>9

\* The statuses of failures and the upstream in their event.
LEMMA FailureTyped ==
    ASSUME NEW kind, NEW e \in UpstreamError \cup ConvertError
    PROVE  FailStatus(kind, e) \in Status /\ FailStatus(kind, e) \notin {200, 202}
  BY DEF FailStatus, Code, Status, UpstreamError, ConvertError

\* What a step does to the key of a request: it stays as it is, or the request is about to
\* release it, or it is gone.
SameKey(c, d) == d.held = c.held /\ d.dberr = c.dberr /\ d.in = c.in

\* The last candidate has failed: the failure event tells the attempts.
LEMMA AllFailedGood ==
    ASSUME NEW c, NEW e \in UpstreamError \cup ConvertError, NEW f \in Nat, c.failed = f + 1,
           AtWork([c EXCEPT !.failed = f], c.last_idx + 1), c \in Handling
    PROVE  /\ Good(AllFailed(c, e)) /\ SameKey(c, AllFailed(c, e))
           /\ AllFailed(c, e).pc = IF c.held THEN "release" ELSE "answered"
<1>1. PICK w : w = [c EXCEPT !.failed = f]
    OBVIOUS
<1>2. /\ w \in Handling /\ w.failed = f /\ SameKey(c, w) /\ w.att = c.att /\ w.hist = c.hist
      /\ w.events = c.events /\ w.answer = c.answer /\ w.tee = c.tee
    BY <1>1 DEF Handling, SameKey
<1>3. PICK k \in Nat : k = c.last_idx + 1 /\ k > 0
    BY Fields
<1>4. AtWork(w, k)
    BY <1>1, <1>3
<1>5. /\ c.in \in Input /\ c.att \in Seq(Route) /\ c.att # <<>> /\ c.events = <<>> /\ c.answer = 0
      /\ c.tee = NoTee /\ (c.held => ~c.in.stream)
      /\ Disciplined(c.in.kind, c.hist) /\ Rising(c.hist) /\ Trail(c.att, c.hist, f, k)
    BY <1>2, <1>4, Fields DEF AtWork, SameKey
<1>6. Head(c.att) \in Route /\ Up(Head(c.att)) \in Upstream /\ Last(c.hist).route = Head(c.att)
    <2>1. Head(c.att) \in Route /\ Up(Head(c.att)) \in Upstream
      BY <1>5, RouteTyped
    <2>2. c.hist \in Seq(Attempt)
      BY Fields
    <2>3. Last(c.hist).route = Head(c.att)
      BY <1>3, <1>5, <2>2, TrailCounts
    <2> QED BY <2>1, <2>3
<1>7. PICK status \in Status : status = FailStatus(c.in.kind, e) /\ status \notin {200, 202}
    BY FailureTyped
<1>8. PICK n \in Nat : n = c.last_idx + c.failed - 1 /\ n = f + k - 1
    <2>1. PICK l \in Nat : l = c.last_idx
      BY Fields
    <2>2. l + (f + 1) - 1 \in Nat /\ l + (f + 1) - 1 = f + (l + 1) - 1
      OBVIOUS
    <2> QED BY <1>3, <2>1, <2>2
<1>9. PICK up \in Upstream \cup {None} : up = IF c.in.kind = "images" THEN None ELSE Up(Last(c.hist).route)
    BY <1>6
<1>10. PICK ev \in LogEvent : /\ ev = FailEvent(c, status)
                              /\ ev.status = status /\ ev.up = up /\ ev.retry = n
    <2>1. FailEvent(c, status) = Event(status, up, n)
      BY <1>8, <1>9 DEF FailEvent
    <2> QED BY <2>1, EventTyped
<1>11. PICK b \in Handling : /\ b = Logged(c, ev) /\ b.events = Append(c.events, ev) /\ SameKey(c, b)
                             /\ b.hist = c.hist /\ b.tee = c.tee /\ b.answer = c.answer
    BY LoggedFields DEF SameKey
<1>12. PICK d : d = IF c.held THEN [b EXCEPT !.pc = "release", !.out = status] ELSE Answered(b, status)
    OBVIOUS
<1>13. /\ d \in Handling /\ d.events = b.events /\ SameKey(b, d) /\ d.hist = b.hist /\ d.tee = b.tee
       /\ c.held => d.pc = "release" /\ d.out = status /\ d.answer = b.answer
       /\ ~c.held => d.pc = "answered" /\ d.answer = status
    <2>1. CASE c.held
      BY <1>12, <2>1 DEF Handling, SameKey, Place, Awaiting
    <2>2. CASE ~c.held
      BY <1>12, <2>2, AnsweredFields DEF SameKey
    <2> QED BY <2>1, <2>2
<1>14. d = AllFailed(c, e)
    BY <1>7, <1>10, <1>11, <1>12 DEF AllFailed
<1>15. SameKey(c, d) /\ d.hist = w.hist /\ d.in = w.in /\ d.events = Append(w.events, ev)
    BY <1>2, <1>11, <1>13 DEF SameKey
<1>16. Tells(d) /\ Len(d.events) = 1 /\ d.events[1] = ev
    <2>1. ev.retry = w.failed + k - 1
      BY <1>2, <1>8, <1>10
    <2>2. \/ ev.up = Up(Head(w.att))
          \/ w.in.kind = "images" /\ ev.up = None /\ ev.status \notin {200, 202}
      BY <1>2, <1>6, <1>7, <1>9, <1>10 DEF SameKey
    <2>3. EventOf(w, k, d, ev)
      BY <1>15, <2>1, <2>2 DEF EventOf
    <2> QED BY <1>3, <1>4, <1>13, <2>3, EventTells
<1>17. Good(d)
    <2>1. /\ d.in \in Input /\ (d.held => ~d.in.stream) /\ d.tee = NoTee
          /\ Disciplined(d.in.kind, d.hist) /\ Rising(d.hist) /\ d.held = c.held
      BY <1>2, <1>5, <1>11, <1>13, <1>15 DEF SameKey
    <2>2. /\ d.pc \in {"answered", "release"}
          /\ d.pc = "answered" => d.events[1].status = d.answer
          /\ d.pc = "release" => d.events[1].status = d.out /\ d.held /\ d.answer = 0
      BY <1>5, <1>10, <1>11, <1>13, <1>16, <2>1
    <2> QED BY <1>13, <1>16, <2>1, <2>2, LoggedIsGood
<1> QED BY <1>13, <1>14, <1>15, <1>17

\* A candidate given up: the next one is tried, or all have failed.
LEMMA FailCandidateGood ==
    ASSUME NEW c, NEW i \in Nat, NEW e \in UpstreamError \cup ConvertError, NEW stop \in BOOLEAN,
           AtWork(c, i + 1), ~stop => MayLeave(c.in.kind, Last(c.hist))
    PROVE  LET d == FailCandidate(c, i, e, stop) IN
           /\ Good(d) /\ SameKey(c, d) /\ d.pc \in {"build", "release", "answered"}
           /\ c.held => d.pc \in {"build", "release"}
<1>1. c \in Handling /\ c.att \in Seq(Route) /\ c.hist \in Seq(Attempt) /\ c.failed \in Nat
    BY Fields DEF AtWork
<1>2. PICK f \in Nat : f = c.failed
    BY <1>1
<1>3. PICK g \in Nat : g = f + 1
    OBVIOUS
<1>4. PICK d : d = [c EXCEPT !.failed = g, !.last_idx = i]
    OBVIOUS
<1>5. /\ d \in Handling /\ d.failed = g /\ d.last_idx = i /\ SameKey(c, d) /\ d.att = c.att
      /\ d.hist = c.hist /\ d.events = c.events /\ d.answer = c.answer /\ d.tee = c.tee
    BY <1>1, <1>4 DEF Handling, SameKey
<1>6. CASE stop \/ Len(c.att) = 1
    <2>1. FailCandidate(c, i, e, stop) = AllFailed(d, e)
      BY <1>2, <1>3, <1>4, <1>6 DEF FailCandidate
    <2>2. PICK w : w = [d EXCEPT !.failed = f]
      OBVIOUS
    <2>3. w \in Handling /\ SameWork(c, w)
      BY <1>2, <1>5, <2>2 DEF Handling, SameKey, SameWork
    <2>4. AtWork(w, d.last_idx + 1)
      BY <1>5, <2>3, WorkMoves
    <2>5. /\ Good(AllFailed(d, e)) /\ SameKey(d, AllFailed(d, e))
          /\ AllFailed(d, e).pc = IF d.held THEN "release" ELSE "answered"
      BY <1>3, <1>5, <2>2, <2>4, AllFailedGood
    <2> QED BY <1>5, <2>1, <2>5 DEF SameKey
<1>7. CASE ~(stop \/ Len(c.att) = 1)
    <2>1. Len(c.att) > 1
      <3>1. c.att # <<>>
        BY DEF AtWork
      <3>2. PICK n \in Nat : n = Len(c.att) /\ n # 0
        BY <1>1, <3>1
      <3>3. n # 1 /\ n # 0
        BY <1>7, <3>2
      <3>4. n > 1
        BY <3>3
      <3> QED BY <3>2, <3>4
    <2>2. PICK k \in Nat : k = i + 1 /\ k > 0
      OBVIOUS
    <2>3. /\ Tail(c.att) \in Seq(Route) /\ Tail(c.att) # <<>> /\ WellOrdered(Tail(c.att))
          /\ Trail(Tail(c.att), c.hist, c.failed + 1, 0) /\ NoneWorse(c.hist, Head(Tail(c.att)))
      <3>1. Trail(c.att, c.hist, c.failed, k) /\ WellOrdered(c.att) /\ NoneWorse(c.hist, Head(c.att))
        BY <2>2 DEF AtWork
      <3> QED BY <1>1, <2>1, <2>2, <3>1, TrailAdvances
    <2>4. PICK t \in Seq(Route) : t = Tail(c.att)
      BY <2>3
    <2>5. PICK n : n = [d EXCEPT !.att = t, !.pc = "build"]
      OBVIOUS
    <2>6. n = FailCandidate(c, i, e, stop)
      BY <1>2, <1>3, <1>4, <1>5, <1>7, <2>4, <2>5 DEF FailCandidate
    <2>7. /\ n \in Handling /\ n.pc = "build" /\ n.att = t /\ n.failed = g /\ SameKey(c, n)
          /\ n.hist = c.hist /\ n.events = c.events /\ n.answer = c.answer /\ n.tee = c.tee
      BY <1>5, <2>5 DEF Handling, SameKey, Place, Awaiting
    <2>8. Made(n) = 0
      BY <2>7 DEF Made
    <2>9. AtWork(n, 0)
      <3>1. Trail(t, c.hist, g, 0) /\ WellOrdered(t) /\ t # <<>> /\ NoneWorse(c.hist, Head(t))
        BY <1>2, <1>3, <2>3, <2>4
      <3> QED BY <2>7, <3>1 DEF AtWork, SameKey
    <2>10. MayTry(n.in.kind, n.hist, 0)
      BY <1>7, <2>7 DEF MayTry, SameKey
    <2>11. Good(n)
      BY <2>7, <2>8, <2>9, <2>10, WorkIsGood DEF Trying, Won
    <2> QED BY <2>6, <2>7, <2>11
<1> QED BY <1>6, <1>7

\* An attempt at the first candidate.
LEMMA TriedWorks ==
    ASSUME NEW c, NEW k \in Nat, AtWork(c, k), NEW e \in UpstreamError \cup ConvertError \cup {"ok"},
           MayTry(c.in.kind, c.hist, k), k <= Table[Head(c.att)].retries
    PROVE  LET d == Tried(c, e) IN
           /\ d \in Handling /\ AtWork(d, k + 1) /\ SameKey(c, d)
           /\ d.att = c.att /\ d.pc = c.pc /\ d.idx = c.idx
           /\ Last(d.hist).res = e /\ Last(d.hist).route = Head(d.att)
<1>1. /\ c \in Handling /\ c.att \in Seq(Route) /\ c.hist \in Seq(Attempt) /\ c.failed \in Nat
      /\ Trail(c.att, c.hist, c.failed, k) /\ Rising(c.hist) /\ NoneWorse(c.hist, Head(c.att))
      /\ Disciplined(c.in.kind, c.hist)
    BY Fields DEF AtWork
<1>2. PICK h \in Seq(Attempt) : h = Tries(c.att, c.hist, e)
    BY <1>1, TrailGrows
<1>3. /\ Trail(c.att, h, c.failed, k + 1) /\ Rising(h) /\ NoneWorse(h, Head(c.att))
      /\ Last(h).res = e /\ Last(h).route = Head(c.att)
    BY <1>1, <1>2, TrailGrows
<1>4. Disciplined(c.in.kind, h)
    BY <1>1, <1>2, DisciplineGrows
<1>5. PICK d : d = [c EXCEPT !.hist = h]
    OBVIOUS
<1>6. d = Tried(c, e)
    BY <1>2, <1>5 DEF Tried, Tries
<1>7. /\ d \in Handling /\ d.hist = h /\ SameKey(c, d) /\ d.att = c.att /\ d.pc = c.pc /\ d.idx = c.idx
      /\ d.failed = c.failed /\ d.events = c.events /\ d.answer = c.answer /\ d.tee = c.tee
    BY <1>1, <1>5 DEF Handling, SameKey
<1>8. AtWork(d, k + 1)
    BY <1>3, <1>4, <1>7 DEF AtWork, SameKey
<1> QED BY <1>3, <1>6, <1>7, <1>8

\* After an error: a retry, the next candidate, or the end.
LEMMA AfterErrorGood ==
    ASSUME NEW c, AtWork(c, c.idx + 1), NEW e \in Error, Last(c.hist).res = e,
           Last(c.hist).route = Head(c.att), c.idx <= Table[Head(c.att)].retries
    PROVE  LET d == AfterError(c, Head(c.att), e) IN
           /\ Good(d) /\ SameKey(c, d) /\ d.pc \in {"call", "build", "release", "answered"}
           /\ c.held => d.pc \in {"call", "build", "release"}
<1>1. /\ c \in Handling /\ c.att \in Seq(Route) /\ c.hist \in Seq(Attempt) /\ c.att # <<>>
      /\ e \in UpstreamError
    BY Fields, UpstreamAssumption DEF AtWork
<1>2. PICK x \in Route : x = Head(c.att)
    BY <1>1
<1>3. PICK i \in Nat : i = c.idx
    BY <1>1, Fields
<1>4. Table[x].retries \in Nat /\ Table[x].lock \in BOOLEAN
    BY RouteTyped
<1>5. CASE retryable(x, e) /\ ~Table[x].lock /\ i < Table[x].retries
    <2>1. PICK k \in Nat : k = i + 1 /\ k > 0 /\ k <= Table[x].retries
      BY <1>4, <1>5
    <2>2. PICK d : d = [c EXCEPT !.idx = k, !.pc = "call"]
      OBVIOUS
    <2>3. d = AfterError(c, x, e)
      BY <1>3, <1>5, <2>1, <2>2 DEF AfterError
    <2>4. d \in Handling /\ d.pc = "call" /\ d.idx = k /\ SameKey(c, d) /\ SameWork(c, d)
      BY <1>1, <2>2 DEF Handling, SameKey, SameWork, Place, Awaiting
    <2>5. AtWork(c, k) /\ AtWork(d, k) /\ Made(d) = k
      BY <1>3, <2>1, <2>4, WorkMoves DEF Made
    <2>6. MayTry(d.in.kind, d.hist, k)
      BY <1>2, <1>5, <2>1, <2>4 DEF MayTry, MayRetry, SameWork
    <2>7. Good(d)
      <3>1. d.idx <= Table[Head(d.att)].retries
        BY <1>2, <2>1, <2>4 DEF SameWork
      <3> QED BY <2>4, <2>5, <2>6, <3>1, WorkIsGood DEF Trying, Won
    <2> QED BY <1>2, <2>3, <2>4, <2>7
<1>6. CASE ~(retryable(x, e) /\ ~Table[x].lock /\ i < Table[x].retries)
    <2>1. PICK stop \in BOOLEAN : stop <=> (Table[x].lock \/ no_failover(c.in.kind, e))
      OBVIOUS
    <2>2. AfterError(c, x, e) = FailCandidate(c, i, e, Table[x].lock \/ no_failover(c.in.kind, e))
      BY <1>3, <1>6 DEF AfterError
    <2>3. FailCandidate(c, i, e, Table[x].lock \/ no_failover(c.in.kind, e)) = FailCandidate(c, i, e, stop)
      BY <2>1 DEF FailCandidate
    <2>4. ~stop => MayLeave(c.in.kind, Last(c.hist))
      BY <1>1, <1>2, <2>1 DEF MayLeave, UpstreamError
    <2>5. AtWork(c, i + 1) /\ e \in UpstreamError \cup ConvertError
      BY <1>1, <1>3
    <2>6. LET d == FailCandidate(c, i, e, stop) IN
          /\ Good(d) /\ SameKey(c, d) /\ d.pc \in {"build", "release", "answered"}
          /\ c.held => d.pc \in {"build", "release"}
      BY <2>4, <2>5, FailCandidateGood
    <2> QED BY <1>2, <2>2, <2>3, <2>6
<1> QED BY <1>2, <1>3, <1>5, <1>6

\* A result: the key is settled first, or the result is logged and sent.
LEMMA RespondGood ==
    ASSUME NEW c, AtWork(c, c.idx + 1), Last(c.hist).res = "ok", NEW status \in {200, 202, 502}
    PROVE  LET d == Respond(c, status) IN
           /\ Good(d) /\ SameKey(c, d) /\ d.pc \in {"discard", "complete", "answered"}
           /\ c.held => d.pc \in {"discard", "complete"}
<1>1. c \in Handling /\ c.att \in Seq(Route) /\ c.att # <<>> /\ c.events = <<>> /\ status \in Status
    BY Fields DEF AtWork, Status
<1>2. Head(c.att) \in Route /\ Up(Head(c.att)) \in Upstream
    BY <1>1, RouteTyped
<1>3. CASE c.held
    <2>1. PICK p \in {"discard", "complete"} : p = IF status = 502 THEN "discard" ELSE "complete"
      OBVIOUS
    <2>2. PICK d : d = [c EXCEPT !.out = status, !.pc = p]
      OBVIOUS
    <2>3. d = Respond(c, status)
      BY <1>3, <2>1, <2>2 DEF Respond
    <2>4. d \in Handling /\ d.pc = p /\ d.out = status /\ SameKey(c, d) /\ SameWork(c, d) /\ d.idx = c.idx
      BY <1>1, <2>2 DEF Handling, SameKey, SameWork, Place, Awaiting
    <2>5. AtWork(d, Made(d))
      BY <2>4, WorkMoves DEF Made
    <2>6. Good(d)
      <3>1. d.pc \in Won /\ d.pc \notin {"build", "call", "onFailure", "onSuccess", "image"}
        BY <2>4 DEF Won
      <3>2. Last(d.hist).res = "ok" /\ d.held /\ (d.pc = "complete" => d.out \in {200, 202})
        BY <1>3, <2>1, <2>4 DEF SameWork
      <3> QED BY <2>5, <3>1, <3>2, WorkIsGood
    <2> QED BY <2>3, <2>4, <2>6
<1>4. CASE ~c.held
    <2>1. PICK i \in Nat : i = c.idx
      BY <1>1, Fields
    <2>2. PICK f \in Nat : f = c.failed
      BY <1>1, Fields
    <2>3. PICK n \in Nat : n = i + f /\ n = f + (i + 1) - 1
      OBVIOUS
    <2>4. PICK ev \in LogEvent : /\ ev = Event(status, Up(Head(c.att)), n)
                                 /\ ev.status = status /\ ev.up = Up(Head(c.att)) /\ ev.retry = n
      BY <1>1, <1>2, EventTyped
    <2>5. PICK b \in Handling : /\ b = Logged(c, ev) /\ b.events = Append(c.events, ev) /\ SameKey(c, b)
                                /\ b.hist = c.hist /\ b.tee = c.tee
      BY <1>1, LoggedFields DEF SameKey
    <2>6. PICK d \in Handling : /\ d = Answered(b, status) /\ d.pc = "answered" /\ d.answer = status
                                /\ SameKey(b, d) /\ d.events = b.events /\ d.hist = b.hist /\ d.tee = b.tee
      BY <1>1, AnsweredFields DEF SameKey
    <2>7. d = Respond(c, status)
      BY <1>4, <2>1, <2>2, <2>3, <2>4, <2>5, <2>6 DEF Respond
    <2>8. Tells(d) /\ Len(d.events) = 1 /\ d.events[1] = ev
      <3>1. PICK k \in Nat : k = i + 1 /\ k > 0
        OBVIOUS
      <3>2. AtWork(c, k) /\ ev.retry = c.failed + k - 1
        BY <2>1, <2>2, <2>3, <2>4, <3>1
      <3>3. d.in = c.in /\ d.hist = c.hist /\ d.events = Append(c.events, ev)
        BY <2>5, <2>6 DEF SameKey
      <3>4. \/ ev.up = Up(Head(c.att))
            \/ c.in.kind = "images" /\ ev.up = None /\ ev.status \notin {200, 202}
        BY <2>4
      <3>5. EventOf(c, k, d, ev)
        BY <3>2, <3>3, <3>4 DEF EventOf
      <3> QED BY <3>1, <3>2, <3>5, EventTells
    <2>9. Good(d)
      <3>1. /\ d.in \in Input /\ (d.held => ~d.in.stream) /\ d.tee = NoTee
            /\ Disciplined(d.in.kind, d.hist) /\ Rising(d.hist)
        BY <2>5, <2>6 DEF SameKey, AtWork
      <3> QED BY <2>4, <2>6, <2>8, <3>1, LoggedIsGood
    <2> QED BY <1>4, <2>5, <2>6, <2>7, <2>9 DEF SameKey
<1> QED BY <1>3, <1>4

-----------------------------------------------------------------------------
(* The steps.                                                                *)

\* A step of a request that leaves the row alone does not give up a key it has not settled,
\* takes none, and keeps a result that was stored.
Calm(c, d) ==
    /\ c.dberr => d.dberr
    /\ c.held /\ c.pc \in Holding \cup {"gone"} => d.dberr \/ (d.held /\ d.pc \in Holding \cup {"gone"})
    /\ d.held /\ d.pc \in Holding => c.held /\ c.pc \in Holding
    /\ d.pc = "replayed" => store.status = "completed" /\ d.answer = store.code
    /\ c.pc \in {"respond", "answered", "gone"} =>
         /\ d.pc \in {"respond", "answered", "gone"} /\ d.out = c.out /\ d.hist = c.hist
         /\ d.answer \in {c.answer, c.out}

\* One request moves to a good state, the others stay.
LEMMA AllGood ==
    ASSUME TypeOK, \A s \in Request : Good(q[s]), NEW r \in Request, NEW d, Good(d), Put(r, d)
    PROVE  /\ q' \in [Request -> Handling] /\ q'[r] = d /\ \A s \in Request : Good(q'[s])
           /\ \A s \in Request \ {r} : q'[s] = q[s]
<1>1. q \in [Request -> Handling] /\ d \in Handling /\ q' = [q EXCEPT ![r] = d]
    BY DEF TypeOK, Good, Put
<1>2. q' \in [Request -> Handling] /\ q'[r] = d /\ \A s \in Request \ {r} : q'[s] = q[s]
    BY <1>1
<1> QED BY <1>2

\* A calm step to a good state keeps the invariant.
LEMMA StepIsGood ==
    ASSUME GatewayInv, NEW r \in Request, NEW d, Put(r, d), Good(d), Calm(q[r], d),
           store' = store, blocked' \subseteq Upstream, pin' \in Upstream \cup {None}
    PROVE  GatewayInv'
<1>1. /\ TypeOK /\ RowInv /\ \A s \in Request : Good(q[s])
    BY DEF GatewayInv
<1>2. /\ q' \in [Request -> Handling] /\ q'[r] = d /\ \A s \in Request : Good(q'[s])
      /\ \A s \in Request \ {r} : q'[s] = q[s]
    BY <1>1, AllGood
<1>3. TypeOK'
    BY <1>1, <1>2 DEF TypeOK
<1>4. (store.status = "processing" => store.by \in Request)' /\ KeySettled'
    <2>1. (store.status = "processing" => store.by \in Request)'
      BY <1>1 DEF RowInv
    <2>2. ASSUME store.status = "processing"
          PROVE  \/ q'[store.by].dberr
                 \/ q'[store.by].held /\ q'[store.by].pc \in Holding \cup {"gone"}
      BY <1>1, <1>2, <2>2 DEF RowInv, KeySettled, Calm, Holding
    <2> QED BY <2>1, <2>2 DEF KeySettled, Holding
<1>5. HoldersOwn'
    BY <1>1, <1>2 DEF RowInv, HoldersOwn, Calm
<1>6. CompletedEarned'
    <2>1. ASSUME store.status = "completed"
          PROVE  /\ store.by \in Request /\ store.code \in {200, 202}
                 /\ q'[store.by].pc \in {"respond", "answered", "gone"} /\ q'[store.by].out = store.code
                 /\ q'[store.by].answer \in {0, store.code} /\ Last(q'[store.by].hist).res = "ok"
      <3>1. /\ store.by \in Request /\ store.code \in {200, 202}
            /\ q[store.by].pc \in {"respond", "answered", "gone"} /\ q[store.by].out = store.code
            /\ q[store.by].answer \in {0, store.code} /\ Last(q[store.by].hist).res = "ok"
        BY <1>1, <2>1 DEF RowInv, CompletedEarned
      <3>2. CASE store.by = r
        BY <1>2, <3>1, <3>2 DEF Calm
      <3>3. CASE store.by # r
        BY <1>2, <3>1, <3>3
      <3> QED BY <3>2, <3>3
    <2> QED BY <2>1 DEF CompletedEarned
<1>7. ReplaysRow'
    BY <1>1, <1>2 DEF RowInv, ReplaysRow, Calm
<1> QED BY <1>2, <1>3, <1>4, <1>5, <1>6, <1>7 DEF GatewayInv, RowInv

\* A step of the same key within the attempts.
LEMMA WorkIsCalm ==
    ASSUME NEW c, NEW d, SameKey(c, d), c.pc \in Holding,
           d.pc \in Holding \cup {"answered", "gone"}, c.held => d.pc \in Holding \cup {"gone"}
    PROVE  Calm(c, d)
  BY DEF Calm, SameKey, Holding

\* A step before the key was taken.
LEMMA EarlyIsCalm ==
    ASSUME NEW c, NEW d, ~c.held, d.held = c.held, c.dberr => d.dberr, d.pc # "replayed",
           c.pc \notin {"respond", "answered", "gone"}
    PROVE  Calm(c, d)
  BY DEF Calm

\* A request that goes on before its first attempt, or is refused without an event.
LEMMA EarlyGood ==
    ASSUME NEW c, Good(c), NEW d \in Handling, c.pc \in Early, d.in \in Input,
           d.pc \in {"start", "quota", "route", "unauthorized", "replayed"},
           d.hist = c.hist, d.failed = c.failed, d.events = c.events, d.tee = c.tee, d.held = c.held,
           d.pc \in Early => d.answer = 0
    PROVE  Good(d)
<1>1. /\ c.hist = <<>> /\ c.failed = 0 /\ c.events = <<>> /\ ~c.held /\ c.tee = NoTee
    BY DEF Good, AttemptsGood, EventsGood, KeyGood, Early, Bodies
<1>2. /\ d.pc \notin OnTrail /\ d.pc \notin Bodies /\ d.pc # "begin" /\ d.pc \notin {"answered", "release"}
      /\ d.pc \notin Trying /\ d.pc \notin Won
    BY DEF OnTrail, Bodies, Trying, Won
<1>3. AttemptsGood(d)
    <2>1. Disciplined(d.in.kind, d.hist) /\ Rising(d.hist)
      BY <1>1 DEF Disciplined, Rising
    <2> QED BY <1>1, <1>2, <2>1 DEF AttemptsGood, Trying, Won
<1>4. EventsGood(d)
    BY <1>1, <1>2 DEF EventsGood, LoggedOnce, Tells, TellsAttempts, Bodies
<1>5. KeyGood(d)
    BY <1>1, <1>2 DEF KeyGood, Trying, Won
<1> QED BY <1>3, <1>4, <1>5 DEF Good

\* A request arrives: it is refused for its key, refused with an event, or goes on.
LEMMA ArriveStep ==
    ASSUME GatewayInv, NEW r \in Request, Arrive(r)
    PROVE  GatewayInv'
<1>1. PICK c \in Handling : c = q[r] /\ Good(c) /\ c.pc = "start"
    BY DEF GatewayInv, TypeOK, Arrive
<1>2. PICK in \in Input : LET b == [q[r] EXCEPT !.in = in] IN
         \/ Put(r, [b EXCEPT !.pc = "unauthorized", !.answer = 401])
         \/ \E status \in {400, 403, 429} : Put(r, Refuse(b, status))
         \/ Put(r, [b EXCEPT !.pc = "quota"])
    BY DEF Arrive
<1>3. PICK b : b = [c EXCEPT !.in = in]
    OBVIOUS
<1>4. /\ b \in Handling /\ b.in = in /\ b.pc = c.pc /\ b.held = c.held /\ b.dberr = c.dberr
      /\ b.hist = c.hist /\ b.failed = c.failed /\ b.events = c.events /\ b.tee = c.tee /\ b.answer = c.answer
    BY <1>3 DEF Handling
<1>5. ~c.held /\ c.answer = 0 /\ c.pc \in Early /\ c.pc \notin {"respond", "answered", "gone"}
    BY <1>1 DEF Good, KeyGood, Early
<1>6. Good(b)
    BY <1>1, <1>4, <1>5, EarlyGood
<1>7. store' = store /\ blocked' \subseteq Upstream /\ pin' \in Upstream \cup {None}
    BY DEF Arrive, shared, GatewayInv, TypeOK
<1>8. CASE Put(r, [b EXCEPT !.pc = "unauthorized", !.answer = 401])
    <2>0. PICK status \in Status : status = 401
      BY DEF Status
    <2>1. PICK d : d = [b EXCEPT !.pc = "unauthorized", !.answer = status]
      OBVIOUS
    <2>2. /\ d \in Handling /\ d.pc = "unauthorized" /\ d.in = in /\ d.held = c.held /\ d.dberr = c.dberr
          /\ d.hist = c.hist /\ d.failed = c.failed /\ d.events = c.events /\ d.tee = c.tee
      <3>1. "unauthorized" \in Place
        BY DEF Place
      <3> QED BY <1>4, <2>1, <3>1 DEF Handling
    <2>3. Good(d)
      BY <1>1, <1>5, <2>2, EarlyGood DEF Early
    <2>4. Calm(c, d)
      BY <1>5, <2>2, EarlyIsCalm
    <2> QED BY <1>1, <1>7, <1>8, <2>0, <2>1, <2>3, <2>4, StepIsGood
<1>9. CASE Put(r, [b EXCEPT !.pc = "quota"])
    <2>1. PICK d : d = [b EXCEPT !.pc = "quota"]
      OBVIOUS
    <2>2. /\ d \in Handling /\ d.pc = "quota" /\ d.in = in /\ d.held = c.held /\ d.dberr = c.dberr
          /\ d.hist = c.hist /\ d.failed = c.failed /\ d.events = c.events /\ d.tee = c.tee /\ d.answer = 0
      BY <1>4, <1>5, <2>1 DEF Handling, Place, Awaiting
    <2>3. Good(d)
      BY <1>1, <1>5, <2>2, EarlyGood
    <2>4. Calm(c, d)
      BY <1>5, <2>2, EarlyIsCalm
    <2> QED BY <1>1, <1>7, <1>9, <2>1, <2>3, <2>4, StepIsGood
<1>10. CASE \E status \in {400, 403, 429} : Put(r, Refuse(b, status))
    <2>1. PICK status \in {400, 403, 429} : Put(r, Refuse(b, status))
      BY <1>10
    <2>2. PICK d : d = Refuse(b, status)
      OBVIOUS
    <2>3. Good(d) /\ d.pc = "answered" /\ d.held = b.held /\ d.dberr = b.dberr
      BY <1>4, <1>5, <1>6, <2>2, RefuseGood DEF Status
    <2>4. Calm(c, d)
      BY <1>4, <1>5, <2>3, EarlyIsCalm
    <2> QED BY <1>1, <1>7, <2>1, <2>2, <2>3, <2>4, StepIsGood
<1> QED BY <1>1, <1>2, <1>3, <1>8, <1>9, <1>10

\* A request that is refused, at any place before the first attempt.
LEMMA RefusalStep ==
    ASSUME GatewayInv, NEW r \in Request, q[r].pc \in Early \ {"start"}, NEW status \in Status,
           Put(r, Refuse(q[r], status)), UNCHANGED shared
    PROVE  GatewayInv'
<1>1. PICK c \in Handling : c = q[r] /\ Good(c)
    BY DEF GatewayInv, TypeOK
<1>2. c.in \in Input /\ ~c.held /\ c.pc \in Early /\ c.pc \notin {"respond", "answered", "gone"}
    BY <1>1 DEF Good, KeyGood, Early
<1>3. PICK d : d = Refuse(c, status)
    OBVIOUS
<1>4. Good(d) /\ d.pc = "answered" /\ d.held = c.held /\ d.dberr = c.dberr
    BY <1>1, <1>2, <1>3, RefuseGood
<1>5. Calm(c, d)
    BY <1>2, <1>4, EarlyIsCalm
<1>6. store' = store /\ blocked' \subseteq Upstream /\ pin' \in Upstream \cup {None}
    BY DEF shared, GatewayInv, TypeOK
<1> QED BY <1>1, <1>3, <1>4, <1>5, <1>6, StepIsGood

\* The quota refuses the request or lets it go on.
LEMMA CheckQuotaStep ==
    ASSUME GatewayInv, NEW r \in Request, CheckQuota(r)
    PROVE  GatewayInv'
<1>1. PICK c \in Handling : c = q[r] /\ Good(c) /\ c.pc = "quota"
    BY DEF GatewayInv, TypeOK, CheckQuota
<1>2. CASE \E status \in {429, 503} : Put(r, Refuse(q[r], status))
    BY <1>1, <1>2, RefusalStep DEF CheckQuota, Early, Status
<1>3. CASE Put(r, [q[r] EXCEPT !.pc = "route"])
    <2>1. PICK d : d = [c EXCEPT !.pc = "route"]
      OBVIOUS
    <2>2. /\ d \in Handling /\ d.pc = "route" /\ d.in = c.in /\ d.held = c.held /\ d.dberr = c.dberr
          /\ d.hist = c.hist /\ d.failed = c.failed /\ d.events = c.events /\ d.tee = c.tee
          /\ d.answer = c.answer
      BY <2>1 DEF Handling, Place
    <2>3. c.in \in Input /\ ~c.held /\ c.pc \in Early /\ c.answer = 0
      BY <1>1 DEF Good, KeyGood, Early
    <2>4. Good(d)
      BY <1>1, <2>2, <2>3, EarlyGood
    <2>5. Calm(c, d)
      BY <1>1, <2>2, <2>3, EarlyIsCalm
    <2>6. store' = store /\ blocked' \subseteq Upstream /\ pin' \in Upstream \cup {None}
      BY DEF CheckQuota, shared, GatewayInv, TypeOK
    <2> QED BY <1>1, <1>3, <2>1, <2>4, <2>5, <2>6, StepIsGood
<1> QED BY <1>2, <1>3 DEF CheckQuota

\* The candidates are put in order; nothing was tried yet.
LEMMA RoutedGood ==
    ASSUME NEW c, Good(c), c.pc \in {"route", "begin"}, NEW d \in Handling, d.pc \in {"begin", "build"},
           d.att # <<>>, WellOrdered(d.att), d.in = c.in, d.failed = c.failed, d.hist = c.hist,
           d.events = c.events, d.answer = c.answer, d.tee = c.tee, d.pc = "begin" => d.held = c.held,
           ~d.in.stream \/ ~d.held, d.pc = "begin" => ~d.in.stream
    PROVE  Good(d)
<1>1. /\ c.hist = <<>> /\ c.failed = 0 /\ c.events = <<>> /\ ~c.held /\ c.tee = NoTee
      /\ c.in \in Input /\ c.answer = 0
    BY DEF Good, AttemptsGood, EventsGood, KeyGood, Early, Bodies
<1>2. Disciplined(d.in.kind, d.hist) /\ Rising(d.hist)
    BY <1>1 DEF Disciplined, Rising
<1>3. CASE d.pc = "build"
    <2>1. Made(d) = 0
      BY <1>3 DEF Made
    <2>2. Trail(d.att, d.hist, d.failed, 0)
      <3>1. Len(d.hist) = 0 /\ DOMAIN d.hist = {}
        BY <1>1
      <3>2. {d.hist[i].route : i \in 1..(Len(d.hist) - 0)} = {}
        BY <3>1
      <3>3. Cardinality({}) = 0
        BY FS_EmptySet
      <3>4. d.failed = 0 /\ 0 <= Len(d.hist)
        BY <1>1, <3>1
      <3>5. Cardinality({d.hist[i].route : i \in 1..(Len(d.hist) - 0)}) = d.failed
        BY <3>2, <3>3, <3>4
      <3> QED BY <3>1, <3>4, <3>5 DEF Trail
    <2>3. NoneWorse(d.hist, Head(d.att)) /\ MayTry(d.in.kind, d.hist, 0)
      BY <1>1 DEF NoneWorse, MayTry
    <2>4. AtWork(d, 0)
      BY <1>1, <1>2, <2>2, <2>3 DEF AtWork
    <2> QED BY <1>3, <2>1, <2>3, <2>4, WorkIsGood DEF Trying, Won
<1>4. CASE d.pc = "begin"
    <2>1. d.pc \notin OnTrail /\ d.pc \notin Bodies /\ d.pc \notin Trying /\ d.pc \notin Won /\ d.pc \in Early
      BY <1>4 DEF OnTrail, Bodies, Trying, Won, Early
    <2>2. AttemptsGood(d)
      BY <1>1, <1>2, <1>4, <2>1 DEF AttemptsGood
    <2>3. EventsGood(d)
      BY <1>1, <1>4, <2>1 DEF EventsGood, LoggedOnce, Tells, TellsAttempts
    <2>4. KeyGood(d)
      BY <1>1, <1>4, <2>1 DEF KeyGood
    <2> QED BY <2>2, <2>3, <2>4 DEF Good
<1> QED BY <1>3, <1>4

\* The candidates are chosen and put in order, or there are none.
LEMMA ChooseRoutesStep ==
    ASSUME GatewayInv, NEW r \in Request, ChooseRoutes(r)
    PROVE  GatewayInv'
<1>1. PICK c \in Handling : c = q[r] /\ Good(c) /\ c.pc = "route" /\ c.pc \in Early \ {"start"}
    BY DEF GatewayInv, TypeOK, ChooseRoutes, Early
<1>2. c.in \in Input /\ ~c.held
    BY <1>1 DEF Good, KeyGood
<1>3. store' = store /\ blocked' \subseteq Upstream /\ pin' \in Upstream \cup {None} /\ UNCHANGED shared
    BY DEF ChooseRoutes, shared, GatewayInv, TypeOK
<1>4. CASE \E status \in {404, 503, 400} : Put(r, Refuse(q[r], status))
    BY <1>1, <1>3, <1>4, RefusalStep DEF Status
<1> DEFINE built(att) == [q[r] EXCEPT !.att = att, !.pc = IF q[r].in.idem THEN "begin" ELSE "build"]
<1>5. ASSUME NEW cands \in SUBSET Eligible(q[r].in.kind), NEW order \in order_candidates(cands),
             NEW att \in Attempts(q[r].in.kind, order), att # <<>>, ~(q[r].in.idem /\ q[r].in.stream),
             Put(r, built(att))
      PROVE  GatewayInv'
    <2>1. cands \in SUBSET Route
      BY DEF Eligible
    <2>2. order \in Seq(Route) /\ WellOrdered(order)
      BY <2>1, OrderIsGood
    <2>3. att \in Seq(Route) /\ WellOrdered(att)
      BY <2>2, AttemptsAreGood
    <2>4. PICK p \in {"begin", "build"} : p = IF c.in.idem THEN "begin" ELSE "build"
      OBVIOUS
    <2>5. PICK d : d = [c EXCEPT !.att = att, !.pc = p]
      OBVIOUS
    <2>6. /\ d \in Handling /\ d.pc = p /\ d.att = att /\ d.in = c.in /\ d.held = c.held /\ d.dberr = c.dberr
          /\ d.hist = c.hist /\ d.failed = c.failed /\ d.events = c.events /\ d.tee = c.tee
          /\ d.answer = c.answer
      BY <2>3, <2>5 DEF Handling, Place, Awaiting
    <2>7. Good(d)
      BY <1>1, <1>2, <1>5, <2>3, <2>4, <2>6, RoutedGood
    <2>8. Calm(c, d)
      BY <1>1, <1>2, <2>6, EarlyIsCalm
    <2>9. Put(r, d)
      BY <1>1, <1>5, <2>4, <2>5
    <2> QED BY <1>1, <1>3, <2>7, <2>8, <2>9, StepIsGood
<1>6. ASSUME NEW cands \in SUBSET Eligible(q[r].in.kind), NEW order \in order_candidates(cands),
             NEW att \in Attempts(q[r].in.kind, order),
             \/ att = <<>> /\ Put(r, Refuse(q[r], 503))
             \/ att # <<>> /\ q[r].in.idem /\ Put(r, Refuse(q[r], 400))
             \/ /\ att # <<>> /\ ~(q[r].in.idem /\ q[r].in.stream)
                /\ Put(r, built(att))
      PROVE  GatewayInv'
    <2> HIDE DEF built
    <2>1. CASE Put(r, Refuse(q[r], 503)) \/ Put(r, Refuse(q[r], 400))
      BY <1>4, <2>1
    <2>2. CASE /\ att # <<>> /\ ~(q[r].in.idem /\ q[r].in.stream)
               /\ Put(r, built(att))
      BY <1>5, <2>2
    <2> QED BY <1>6, <2>1, <2>2
<1> QED BY <1>4, <1>6, Zenon DEF ChooseRoutes

\* The key is taken: the row is processing, and belongs to the request.
LEMMA TakeStep ==
    ASSUME GatewayInv, NEW r \in Request, NEW d, Put(r, d), Good(d), store.status = "free",
           store' = [status |-> "processing", by |-> r, code |-> 0],
           d.dberr \/ (d.held /\ d.pc \in Holding), d.pc # "replayed", UNCHANGED <<blocked, pin>>
    PROVE  GatewayInv'
<1>1. /\ TypeOK /\ RowInv /\ \A s \in Request : Good(q[s])
    BY DEF GatewayInv
<1>2. /\ q' \in [Request -> Handling] /\ q'[r] = d /\ \A s \in Request : Good(q'[s])
      /\ \A s \in Request \ {r} : q'[s] = q[s]
    BY <1>1, AllGood
<1>3. store'.status = "processing" /\ store'.by = r /\ store'.code = 0
    OBVIOUS
<1>4. TypeOK'
    BY <1>1, <1>2 DEF TypeOK, Status
<1>5. KeySettled'
    BY <1>2, <1>3 DEF KeySettled, Holding
<1>6. HoldersOwn'
    BY <1>1, <1>2, <1>3 DEF RowInv, HoldersOwn
<1>7. CompletedEarned'
    BY <1>3 DEF CompletedEarned
<1>8. ReplaysRow'
    BY <1>1, <1>2, <1>3 DEF RowInv, ReplaysRow
<1> QED BY <1>2, <1>3, <1>4, <1>5, <1>6, <1>7, <1>8 DEF GatewayInv, RowInv

\* A statement on the row that failed is remembered, and nothing else.
LEMMA ErrorGood ==
    ASSUME NEW c, Good(c)
    PROVE  LET d == [c EXCEPT !.dberr = TRUE] IN
           /\ Good(d) /\ d.dberr /\ d.pc = c.pc /\ d.held = c.held /\ d.out = c.out /\ d.hist = c.hist
           /\ d.answer = c.answer
<1>1. c \in Handling
    BY DEF Good
<1>2. PICK d : d = [c EXCEPT !.dberr = TRUE]
    OBVIOUS
<1>3. /\ d \in Handling /\ d.dberr /\ d.pc = c.pc /\ d.in = c.in /\ d.att = c.att /\ d.idx = c.idx
      /\ d.failed = c.failed /\ d.held = c.held /\ d.out = c.out /\ d.answer = c.answer
      /\ d.hist = c.hist /\ d.events = c.events /\ d.tee = c.tee
    BY <1>1, <1>2 DEF Handling
<1>4. Made(d) = Made(c)
    BY <1>3 DEF Made
<1>5. AttemptsGood(d)
    BY <1>3, <1>4, Zenon DEF Good, AttemptsGood
<1>6. EventsGood(d)
    <2>1. LoggedOnce(d)
      BY <1>3 DEF Good, EventsGood, LoggedOnce
    <2>2. Tells(d)
      BY <1>3 DEF Good, EventsGood, Tells
    <2> QED BY <1>3, <2>1, <2>2 DEF Good, EventsGood
<1>7. KeyGood(d)
    BY <1>3, Zenon DEF Good, KeyGood
<1> QED BY <1>2, <1>3, <1>5, <1>6, <1>7 DEF Good

\* The key is taken, refused, replayed, or the statement fails.
LEMMA BeginStep ==
    ASSUME GatewayInv, NEW r \in Request, Begin(r)
    PROVE  GatewayInv'
<1>1. PICK c \in Handling : c = q[r] /\ Good(c) /\ c.pc = "begin" /\ c.pc \in Early \ {"start"}
    BY DEF GatewayInv, TypeOK, Begin, Early
<1>2. c.in \in Input /\ ~c.held /\ ~c.in.stream /\ c.att # <<>> /\ WellOrdered(c.att) /\ c.answer = 0
    BY <1>1 DEF Good, KeyGood, AttemptsGood, Early
<1>3. blocked' = blocked /\ pin' = pin /\ blocked' \subseteq Upstream /\ pin' \in Upstream \cup {None}
    BY DEF Begin, GatewayInv, TypeOK
<1>4. CASE /\ store.status = "free"
           /\ store' = [status |-> "processing", by |-> r, code |-> 0]
           /\ Put(r, [q[r] EXCEPT !.held = TRUE, !.pc = "build"])
    <2>1. PICK d : d = [c EXCEPT !.held = TRUE, !.pc = "build"]
      OBVIOUS
    <2>2. /\ d \in Handling /\ d.pc = "build" /\ d.att = c.att /\ d.in = c.in /\ d.held
          /\ d.hist = c.hist /\ d.failed = c.failed /\ d.events = c.events /\ d.tee = c.tee
          /\ d.answer = c.answer
      BY <2>1 DEF Handling, Place, Awaiting
    <2>3. Good(d)
      BY <1>1, <1>2, <2>2, RoutedGood
    <2>4. d.pc \in Holding /\ d.pc # "replayed"
      BY <2>2 DEF Holding
    <2> QED BY <1>1, <1>3, <1>4, <2>1, <2>2, <2>3, <2>4, TakeStep
<1>5. CASE Put(r, Refuse(q[r], 409)) /\ UNCHANGED store
    BY <1>1, <1>3, <1>5, RefusalStep DEF Status, shared
<1>6. CASE /\ store.status = "completed"
           /\ Put(r, [q[r] EXCEPT !.pc = "replayed", !.answer = store.code])
           /\ UNCHANGED store
    <2>1. PICK code \in Status : code = store.code
      BY DEF GatewayInv, TypeOK
    <2>2. PICK d : d = [c EXCEPT !.pc = "replayed", !.answer = code]
      OBVIOUS
    <2>3. /\ d \in Handling /\ d.pc = "replayed" /\ d.answer = code /\ d.in = c.in /\ d.held = c.held
          /\ d.dberr = c.dberr /\ d.hist = c.hist /\ d.failed = c.failed /\ d.events = c.events /\ d.tee = c.tee
      BY <2>2 DEF Handling, Place
    <2>4. Good(d)
      BY <1>1, <1>2, <2>3, EarlyGood DEF Early
    <2>5. Calm(c, d)
      BY <1>1, <1>2, <1>6, <2>1, <2>3 DEF Calm
    <2> QED BY <1>1, <1>3, <1>6, <2>1, <2>2, <2>4, <2>5, StepIsGood
<1>7. CASE /\ Put(r, [Refuse(q[r], 500) EXCEPT !.dberr = TRUE])
           /\ \/ UNCHANGED store
              \/ store.status = "free" /\ store' = [status |-> "processing", by |-> r, code |-> 0]
    <2>1. PICK b : b = Refuse(c, 500)
      OBVIOUS
    <2>2. Good(b) /\ b.pc = "answered" /\ b.held = c.held
      BY <1>1, <1>2, <2>1, RefuseGood DEF Status
    <2>3. PICK d : d = [b EXCEPT !.dberr = TRUE]
      OBVIOUS
    <2>4. Good(d) /\ d.dberr /\ d.pc = "answered" /\ d.held = c.held
      BY <2>2, <2>3, ErrorGood
    <2>5. Put(r, d)
      BY <1>1, <1>7, <2>1, <2>3
    <2>6. CASE UNCHANGED store
      <3>1. Calm(c, d)
        BY <1>1, <1>2, <2>4, EarlyIsCalm
      <3> QED BY <1>1, <1>3, <2>4, <2>5, <2>6, <3>1, StepIsGood
    <2>7. CASE store.status = "free" /\ store' = [status |-> "processing", by |-> r, code |-> 0]
      BY <1>3, <2>4, <2>5, <2>7, TakeStep
    <2> QED BY <1>7, <2>6, <2>7
<1> QED BY <1>4, <1>5, <1>6, <1>7 DEF Begin

\* The outbound request is built, or its conversion fails.
LEMMA BuildStep ==
    ASSUME GatewayInv, NEW r \in Request, Build(r)
    PROVE  GatewayInv'
<1>1. PICK c \in Handling : c = q[r] /\ Good(c) /\ c.pc = "build" /\ c.pc \in Holding /\ c.pc \in Trying \cup Won
    BY DEF GatewayInv, TypeOK, Build, Holding, Trying
<1>2. store' = store /\ blocked' \subseteq Upstream /\ pin' \in Upstream \cup {None}
    BY DEF Build, shared, GatewayInv, TypeOK
<1>3. Made(c) = 0 /\ AtWork(c, 0) /\ MayTry(c.in.kind, c.hist, 0)
    BY <1>1, GoodWorks DEF Made, Good, AttemptsGood
<1>4. c.att \in Seq(Route) /\ c.att # <<>> /\ Head(c.att) \in Route /\ Table[Head(c.att)].retries \in Nat
    BY <1>3, Fields, RouteTyped DEF AtWork
<1>5. CASE Put(r, [q[r] EXCEPT !.pc = "call", !.idx = 0])
    <2>1. PICK zero \in Nat : zero = 0
      OBVIOUS
    <2>2. PICK d : d = [c EXCEPT !.pc = "call", !.idx = zero]
      OBVIOUS
    <2>3. d \in Handling /\ d.pc = "call" /\ d.idx = zero /\ SameWork(c, d) /\ SameKey(c, d)
      BY <2>2 DEF Handling, SameKey, SameWork, Place, Awaiting
    <2>4. Made(d) = 0 /\ AtWork(d, 0)
      BY <1>3, <2>1, <2>3, WorkMoves DEF Made
    <2>5. d.idx <= Table[Head(d.att)].retries /\ MayTry(d.in.kind, d.hist, 0)
      BY <1>3, <1>4, <2>1, <2>3 DEF SameWork
    <2>6. Good(d)
      BY <2>3, <2>4, <2>5, WorkIsGood DEF Trying, Won
    <2>7. Calm(c, d)
      BY <1>1, <2>3, WorkIsCalm DEF Holding
    <2> QED BY <1>1, <1>2, <1>5, <2>1, <2>2, <2>6, <2>7, StepIsGood
<1>6. ASSUME NEW e \in ConvertError, Put(r, FailCandidate(Tried(q[r], e), 0, e, e = "parse"))
      PROVE  GatewayInv'
    <2>1. PICK b : b = Tried(c, e)
      OBVIOUS
    <2>2. /\ AtWork(b, 0 + 1) /\ SameKey(c, b) /\ Last(b.hist).res = e
          /\ Last(b.hist).route = Head(b.att)
      BY <1>3, <1>4, <2>1, TriedWorks
    <2>3. PICK stop \in BOOLEAN : stop <=> (e = "parse")
      OBVIOUS
    <2>4. ~stop => MayLeave(b.in.kind, Last(b.hist))
      BY <2>2, <2>3 DEF MayLeave, ConvertError, no_failover, client_causal
    <2>5. PICK d : d = FailCandidate(b, 0, e, stop)
      OBVIOUS
    <2>6. d = FailCandidate(Tried(q[r], e), 0, e, e = "parse")
      BY <1>1, <2>1, <2>3, <2>5 DEF FailCandidate
    <2>7. /\ Good(d) /\ SameKey(b, d) /\ d.pc \in {"build", "release", "answered"}
          /\ b.held => d.pc \in {"build", "release"}
      BY <2>2, <2>4, <2>5, FailCandidateGood
    <2>8. Calm(c, d)
      BY <1>1, <2>2, <2>7, WorkIsCalm DEF SameKey, Holding
    <2> QED BY <1>1, <1>2, <1>6, <2>6, <2>7, <2>8, StepIsGood
<1> QED BY <1>5, <1>6 DEF Build

\* The call fails.
LEMMA CallFailsStep ==
    ASSUME GatewayInv, NEW r \in Request, CallFails(r)
    PROVE  GatewayInv'
<1>1. PICK c \in Handling : c = q[r] /\ Good(c) /\ c.pc = "call" /\ c.pc \in Holding /\ c.pc \in Trying \cup Won
    BY DEF GatewayInv, TypeOK, CallFails, Holding, Trying
<1>2. PICK i \in Nat : i = c.idx
    BY Fields
<1>3. AtWork(c, i) /\ MayTry(c.in.kind, c.hist, i) /\ i <= Table[Head(c.att)].retries
    BY <1>1, <1>2, GoodWorks DEF Made, Good, AttemptsGood
<1>4. PICK e \in Error : LET b == Tried(q[r], e)  x == Head(b.att) IN
         /\ blocked' = IF auth_failure(e) THEN blocked \cup {Up(x)} ELSE blocked
         /\ Put(r, IF retryable(x, e) THEN [b EXCEPT !.pc = "onFailure"] ELSE AfterError(b, x, e))
    BY DEF CallFails
<1>5. PICK b : b = Tried(c, e)
    OBVIOUS
<1>6. e \in UpstreamError
    BY UpstreamAssumption
<1>7. /\ b \in Handling /\ AtWork(b, i + 1) /\ SameKey(c, b) /\ b.att = c.att /\ b.idx = i
      /\ Last(b.hist).res = e /\ Last(b.hist).route = Head(b.att)
    BY <1>2, <1>3, <1>5, <1>6, TriedWorks
<1>8. Head(b.att) \in Route /\ Up(Head(b.att)) \in Upstream
    BY <1>7, Fields, RouteTyped DEF AtWork
<1>9. store' = store /\ blocked' \subseteq Upstream /\ pin' \in Upstream \cup {None}
    <2>1. blocked' \subseteq blocked \cup {Up(Head(b.att))}
      BY <1>1, <1>4, <1>5
    <2> QED BY <1>8, <2>1 DEF CallFails, GatewayInv, TypeOK
<1>10. CASE retryable(Head(b.att), e)
    <2>1. PICK d : d = [b EXCEPT !.pc = "onFailure"]
      OBVIOUS
    <2>2. Put(r, d)
      BY <1>1, <1>4, <1>5, <1>10, <2>1
    <2>3. d \in Handling /\ d.pc = "onFailure" /\ d.idx = i /\ SameWork(b, d) /\ SameKey(b, d)
      BY <1>7, <2>1 DEF Handling, SameKey, SameWork, Place, Awaiting
    <2>4. Made(d) = i + 1 /\ AtWork(d, i + 1)
      BY <1>7, <2>3, WorkMoves DEF Made
    <2>5. d.idx <= Table[Head(d.att)].retries /\ Last(d.hist).res \in Error
      BY <1>3, <1>7, <2>3 DEF SameWork
    <2>6. Good(d)
      BY <2>3, <2>4, <2>5, WorkIsGood DEF Trying, Won
    <2>7. Calm(c, d)
      BY <1>1, <1>7, <2>3, WorkIsCalm DEF Holding, SameKey
    <2> QED BY <1>1, <1>9, <2>2, <2>6, <2>7, StepIsGood
<1>11. CASE ~retryable(Head(b.att), e)
    <2>1. PICK d : d = AfterError(b, Head(b.att), e)
      OBVIOUS
    <2>2. Put(r, d)
      BY <1>1, <1>4, <1>5, <1>11, <2>1
    <2>3. /\ Good(d) /\ SameKey(b, d) /\ d.pc \in {"call", "build", "release", "answered"}
          /\ b.held => d.pc \in {"call", "build", "release"}
      BY <1>3, <1>7, <2>1, AfterErrorGood
    <2>4. Calm(c, d)
      BY <1>1, <1>7, <2>3, WorkIsCalm DEF SameKey, Holding
    <2> QED BY <1>1, <1>9, <2>2, <2>3, <2>4, StepIsGood
<1> QED BY <1>10, <1>11

\* The last attempt of a request that is past its call was at the first candidate.
LEMMA LastIsHead ==
    ASSUME NEW c, NEW i \in Nat, AtWork(c, i + 1)
    PROVE  /\ c.att \in Seq(Route) /\ c.att # <<>> /\ Head(c.att) \in Route /\ Up(Head(c.att)) \in Upstream
           /\ c.hist \in Seq(Attempt) /\ c.hist # <<>> /\ Last(c.hist).route = Head(c.att)
<1>1. /\ c.att \in Seq(Route) /\ c.att # <<>> /\ c.hist \in Seq(Attempt) /\ c.failed \in Nat
      /\ Trail(c.att, c.hist, c.failed, i + 1)
    BY Fields DEF AtWork
<1>2. PICK k \in Nat : k = i + 1 /\ k > 0
    OBVIOUS
<1>3. c.hist # <<>> /\ Last(c.hist).route = Head(c.att)
    BY <1>1, <1>2, TrailCounts
<1> QED BY <1>1, <1>3, RouteTyped

\* The breaker was told of the failure: retry, failover or the end.
LEMMA OnFailureStep ==
    ASSUME GatewayInv, NEW r \in Request, OnFailure(r)
    PROVE  GatewayInv'
<1>1. PICK c \in Handling : c = q[r] /\ Good(c) /\ c.pc = "onFailure" /\ c.pc \in Holding /\ c.pc \in Trying \cup Won
    BY DEF GatewayInv, TypeOK, OnFailure, Holding, Trying
<1>2. store' = store /\ blocked' \subseteq Upstream /\ pin' \in Upstream \cup {None}
    BY DEF OnFailure, shared, GatewayInv, TypeOK
<1>3. c.idx \in Nat /\ AtWork(c, c.idx + 1) /\ c.idx <= Table[Head(c.att)].retries /\ Last(c.hist).res \in Error
    BY <1>1, Fields, GoodWorks DEF Made, Good, AttemptsGood
<1>4. Last(c.hist).route = Head(c.att)
    BY <1>3, LastIsHead
<1>5. PICK e \in Error : e = Last(c.hist).res
    BY <1>3
<1>6. PICK d : d = AfterError(c, Head(c.att), e)
    OBVIOUS
<1>7. /\ Good(d) /\ SameKey(c, d) /\ d.pc \in {"call", "build", "release", "answered"}
      /\ c.held => d.pc \in {"call", "build", "release"}
    BY <1>3, <1>4, <1>5, <1>6, AfterErrorGood
<1>8. Calm(c, d)
    BY <1>1, <1>7, WorkIsCalm DEF Holding
<1>9. Put(r, d)
    BY <1>1, <1>5, <1>6 DEF OnFailure
<1> QED BY <1>1, <1>2, <1>7, <1>8, <1>9, StepIsGood

\* The call succeeds.
LEMMA CallSucceedsStep ==
    ASSUME GatewayInv, NEW r \in Request, CallSucceeds(r)
    PROVE  GatewayInv'
<1>1. PICK c \in Handling : c = q[r] /\ Good(c) /\ c.pc = "call" /\ c.pc \in Holding /\ c.pc \in Trying \cup Won
    BY DEF GatewayInv, TypeOK, CallSucceeds, Holding, Trying
<1>2. store' = store /\ blocked' \subseteq Upstream /\ pin' \in Upstream \cup {None}
    BY DEF CallSucceeds, shared, GatewayInv, TypeOK
<1>3. PICK i \in Nat : i = c.idx
    BY Fields
<1>4. AtWork(c, i) /\ MayTry(c.in.kind, c.hist, i) /\ i <= Table[Head(c.att)].retries
    BY <1>1, <1>3, GoodWorks DEF Made, Good, AttemptsGood
<1>5. PICK b : b = Tried(c, "ok")
    OBVIOUS
<1>6. /\ b \in Handling /\ AtWork(b, i + 1) /\ SameKey(c, b) /\ b.att = c.att /\ b.idx = i
      /\ Last(b.hist).res = "ok"
    BY <1>3, <1>4, <1>5, TriedWorks
<1>7. PICK d : d = [b EXCEPT !.pc = "onSuccess"]
    OBVIOUS
<1>8. d \in Handling /\ d.pc = "onSuccess" /\ d.idx = i /\ SameWork(b, d) /\ SameKey(b, d)
    BY <1>6, <1>7 DEF Handling, SameKey, SameWork, Place, Awaiting
<1>9. Made(d) = i + 1 /\ AtWork(d, i + 1)
    BY <1>6, <1>8, WorkMoves DEF Made
<1>10. d.idx <= Table[Head(d.att)].retries /\ Last(d.hist).res = "ok"
    BY <1>4, <1>6, <1>8 DEF SameWork
<1>11. Good(d)
    BY <1>8, <1>9, <1>10, WorkIsGood DEF Won
<1>12. Calm(c, d)
    BY <1>1, <1>6, <1>8, WorkIsCalm DEF Holding, SameKey
<1>13. Put(r, d)
    BY <1>1, <1>5, <1>7 DEF CallSucceeds
<1> QED BY <1>1, <1>2, <1>11, <1>12, <1>13, StepIsGood

\* The attempts with another result of the last one.
LastAs(h, e) == [h EXCEPT ![Len(h)].res = e]

\* The result of the last attempt turns out to be another one: nothing depends on it yet.
LEMMA LastChanges ==
    ASSUME NEW att \in Seq(Route), NEW h \in Seq(Attempt), NEW f \in Nat, NEW k \in Nat, NEW kind,
           NEW e \in UpstreamError, h # <<>>, Trail(att, h, f, k), Rising(h), NoneWorse(h, Head(att)),
           Disciplined(kind, h), NEW result, result = LastAs(h, e)
    PROVE  /\ result \in Seq(Attempt) /\ Trail(att, result, f, k) /\ Rising(result) /\ NoneWorse(result, Head(att))
           /\ Disciplined(kind, result) /\ Last(result).res = e
<1>1. /\ Len(h) \in Nat /\ DOMAIN h = 1..Len(h) /\ Len(h) \in DOMAIN h
      /\ \A i \in DOMAIN h : h[i] \in Attempt /\ h[i].route \in Route
    BY AttemptTyped
<1>2. PICK a : a = [h[Len(h)] EXCEPT !.res = e]
    OBVIOUS
<1>3. a \in Attempt /\ a.route = h[Len(h)].route /\ a.res = e
    BY <1>1, <1>2 DEF Attempt
<1>4. PICK new \in Seq(Attempt) : new = [h EXCEPT ![Len(h)] = a]
    <2>1. [h EXCEPT ![Len(h)] = a] \in [1..Len(h) -> Attempt]
      BY <1>1, <1>3
    <2> QED BY <1>1, <2>1, FunctionIsSeq
<1>5. new = result
    BY <1>2, <1>4 DEF LastAs
<1>6. /\ new \in Seq(Attempt) /\ Len(new) = Len(h) /\ DOMAIN new = DOMAIN h
      /\ \A i \in DOMAIN h : new[i] = IF i = Len(h) THEN a ELSE h[i]
    <2>1. new \in [1..Len(h) -> Attempt] /\ \A i \in DOMAIN h : new[i] = IF i = Len(h) THEN a ELSE h[i]
      BY <1>1, <1>3, <1>4
    <2> QED BY <1>1, <2>1, FunctionIsSeq
<1>7. \A i \in DOMAIN h : new[i].route = h[i].route
    BY <1>3, <1>6
<1>8. Trail(att, new, f, k)
    <2>1. {new[i].route : i \in 1..(Len(new) - k)} = {h[i].route : i \in 1..(Len(h) - k)}
      <3>1. \A i \in 1..(Len(h) - k) : i \in DOMAIN h
        BY <1>1
      <3> QED BY <1>6, <1>7, <3>1
    <2> QED BY <1>6, <1>7, <2>1 DEF Trail
<1>9. Rising(new) /\ NoneWorse(new, Head(att))
    BY <1>6, <1>7 DEF Rising, NoneWorse
<1>10. Disciplined(kind, new)
    <2>1. ASSUME NEW i \in 1..(Len(new) - 1)
          PROVE  IF new[i + 1].route = new[i].route THEN MayRetry(new[i]) ELSE MayLeave(kind, new[i])
      <3>0. i \in 1..(Len(h) - 1)
        BY <1>6
      <3>1. i \in DOMAIN h /\ i + 1 \in DOMAIN h /\ i # Len(h)
        <4>1. PICK n \in Nat : n = Len(h)
          BY <1>1
        <4>2. i \in 1..(n - 1)
          BY <3>0, <4>1
        <4>3. i \in 1..n /\ i + 1 \in 1..n /\ i # n
          BY <4>2
        <4> QED BY <1>1, <4>1, <4>3
      <3>2. new[i] = h[i] /\ new[i + 1].route = h[i + 1].route
        BY <1>6, <1>7, <3>1
      <3> QED BY <3>0, <3>2 DEF Disciplined
    <2>2. ASSUME NEW i \in DOMAIN new, NEW j \in DOMAIN new, i < j, new[i].route = new[j].route
          PROVE  /\ j - i <= Table[new[i].route].retries
                 /\ \A l \in i..j : new[l].route = new[i].route
      <3>1. /\ j - i <= Table[h[i].route].retries
            /\ \A l \in i..j : h[l].route = h[i].route
        BY <1>6, <1>7, <2>2 DEF Disciplined
      <3>2. \A l \in i..j : l \in DOMAIN h
        BY <1>1, <1>6
      <3> QED BY <1>6, <1>7, <3>1, <3>2
    <2> QED BY <2>1, <2>2 DEF Disciplined
<1>11. Last(new).res = e
    BY <1>1, <1>3, <1>6 DEF Last
<1> QED BY <1>5, <1>6, <1>8, <1>9, <1>10, <1>11

\* The stream begins: it will write the event.
LEMMA StreamBegins ==
    ASSUME NEW c, NEW i \in Nat, i = c.idx, AtWork(c, i + 1)
    PROVE  LET d == [c EXCEPT !.pc = "stream", !.answer = 200, !.tee.ctx = TRUE] IN
           Good(d) /\ SameKey(c, d) /\ d.pc = "stream"
<1>1. c \in Handling /\ c.tee = NoTee /\ c.tee \in TeeStream /\ c.events = <<>> /\ c.in \in Input
    BY Fields DEF AtWork
<1>2. PICK t : t = [c.tee EXCEPT !.ctx = TRUE]
    OBVIOUS
<1>3. t \in TeeStream /\ t.ctx /\ ~t.finalized /\ t.spawned = 0
    <2>0. t = [NoTee EXCEPT !.ctx = TRUE]
      BY <1>1, <1>2
    <2>1. t = [done |-> FALSE, finalized |-> FALSE, ctx |-> TRUE, spawned |-> 0]
      BY <2>0 DEF NoTee
    <2> QED BY <2>1 DEF TeeStream
<1>4. PICK ok \in Status : ok = 200
    BY DEF Status
<1>5. PICK d : d = [c EXCEPT !.pc = "stream", !.answer = ok, !.tee = t]
    OBVIOUS
<1>6. d = [c EXCEPT !.pc = "stream", !.answer = 200, !.tee.ctx = TRUE]
    BY <1>1, <1>2, <1>4, <1>5
<1>7. /\ d \in Handling /\ d.pc = "stream" /\ d.answer = ok /\ d.tee = t /\ SameKey(c, d) /\ d.att = c.att
      /\ d.idx = i /\ d.failed = c.failed /\ d.hist = c.hist /\ d.events = c.events
    BY <1>1, <1>3, <1>5 DEF Handling, SameKey, Place
<1>8. /\ d.pc \notin Early /\ d.pc \in OnTrail /\ d.pc \in Bodies /\ d.pc \notin Trying /\ d.pc \notin Won
      /\ Made(d) = i + 1
    BY <1>7 DEF Early, OnTrail, Bodies, Trying, Won, Made
<1>9. AttemptsGood(d)
    BY <1>7, <1>8 DEF AttemptsGood, AtWork, SameKey
<1>10. EventsGood(d)
    <2>1. Len(d.events) = 0 /\ DOMAIN d.events = {}
      BY <1>1, <1>7
    <2>2. LoggedOnce(d) /\ Tells(d)
      BY <1>7, <2>1 DEF LoggedOnce, Tells, TellsAttempts
    <2>3. Len(d.events) + d.tee.spawned + (IF d.tee.ctx THEN 1 ELSE 0) = 1
      BY <1>3, <1>7, <2>1
    <2> QED BY <1>3, <1>4, <1>7, <1>8, <2>1, <2>2, <2>3 DEF EventsGood
<1>11. KeyGood(d)
    BY <1>7, <1>8 DEF KeyGood, AtWork, SameKey
<1> QED BY <1>6, <1>7, <1>9, <1>10, <1>11 DEF Good

\* The breaker was told of the success: the stream begins or the result is made.
LEMMA OnSuccessStep ==
    ASSUME GatewayInv, NEW r \in Request, OnSuccess(r)
    PROVE  GatewayInv'
<1>1. PICK c \in Handling : c = q[r] /\ Good(c) /\ c.pc = "onSuccess" /\ c.pc \in Holding /\ c.pc \in Trying \cup Won
    BY DEF GatewayInv, TypeOK, OnSuccess, Holding, Won
<1>2. PICK i \in Nat : i = c.idx
    BY Fields
<1>3. /\ AtWork(c, i + 1) /\ i <= Table[Head(c.att)].retries /\ Last(c.hist).res = "ok"
      /\ c.in \in Input /\ (c.held => ~c.in.stream)
    <2>1. Made(c) = i + 1
      BY <1>1, <1>2 DEF Made
    <2>2. AtWork(c, i + 1)
      BY <1>1, <2>1, GoodWorks
    <2> QED BY <1>1, <1>2, <2>2 DEF Good, AttemptsGood, AtWork, Won
<1>4. /\ c.att \in Seq(Route) /\ c.att # <<>> /\ Head(c.att) \in Route /\ Up(Head(c.att)) \in Upstream
      /\ c.hist \in Seq(Attempt) /\ c.hist # <<>> /\ Last(c.hist).route = Head(c.att)
      /\ Table[Head(c.att)].lock \in BOOLEAN
    BY <1>3, LastIsHead, RouteTyped
<1>5. store' = store /\ blocked' \subseteq Upstream /\ pin' \in Upstream \cup {None}
    <2>1. TypeOK
      BY DEF GatewayInv
    <2>2. store' = store /\ blocked' \subseteq blocked
      BY DEF OnSuccess
    <2>3. pin' = Up(Head(c.att)) \/ pin' = pin
      BY <1>1 DEF OnSuccess
    <2> QED BY <1>4, <2>1, <2>2, <2>3 DEF TypeOK
<1>6. CASE /\ q[r].in.stream
           /\ Put(r, [q[r] EXCEPT !.pc = "stream", !.answer = 200, !.tee.ctx = TRUE])
    <2>1. PICK d : d = [c EXCEPT !.pc = "stream", !.answer = 200, !.tee.ctx = TRUE]
      OBVIOUS
    <2>2. Good(d) /\ SameKey(c, d) /\ d.pc = "stream"
      BY <1>2, <1>3, <2>1, StreamBegins
    <2>3. ~c.held
      BY <1>1, <1>3, <1>6
    <2>4. Calm(c, d)
      BY <1>1, <2>2, <2>3 DEF Calm, SameKey
    <2> QED BY <1>1, <1>5, <1>6, <2>1, <2>2, <2>4, StepIsGood
<1>7. CASE \E status \in {200, 502} : Put(r, Respond(q[r], status))
    <2>1. PICK status \in {200, 202, 502} : Put(r, Respond(c, status))
      BY <1>1, <1>7
    <2>2. PICK d : d = Respond(c, status)
      OBVIOUS
    <2>3. /\ Good(d) /\ SameKey(c, d) /\ d.pc \in {"discard", "complete", "answered"}
          /\ c.held => d.pc \in {"discard", "complete"}
      BY <1>2, <1>3, <2>2, RespondGood
    <2>4. Calm(c, d)
      BY <1>1, <2>3, WorkIsCalm DEF Holding
    <2> QED BY <1>1, <1>5, <2>1, <2>2, <2>3, <2>4, StepIsGood
<1>8. CASE q[r].in.kind = "images" /\ Put(r, [q[r] EXCEPT !.pc = "image"])
    <2>1. PICK d : d = [c EXCEPT !.pc = "image"]
      OBVIOUS
    <2>2. d \in Handling /\ d.pc = "image" /\ d.idx = i /\ SameWork(c, d) /\ SameKey(c, d)
      BY <1>2, <2>1 DEF Handling, SameKey, SameWork, Place, Awaiting
    <2>3. Made(d) = i + 1 /\ AtWork(d, i + 1)
      BY <1>3, <2>2, WorkMoves DEF Made
    <2>4. Last(d.hist).res = "ok" /\ d.in.kind = "images"
      BY <1>1, <1>3, <1>8, <2>2 DEF SameWork
    <2>5. Good(d)
      BY <2>2, <2>3, <2>4, WorkIsGood DEF Won
    <2>6. Calm(c, d)
      BY <1>1, <2>2, WorkIsCalm DEF Holding
    <2> QED BY <1>1, <1>5, <1>8, <2>1, <2>5, <2>6, StepIsGood
<1>9. CASE /\ q[r].in.kind = "images"
           /\ Put(r, FailCandidate([q[r] EXCEPT !.hist[Len(q[r].hist)].res = "bodyread"], q[r].idx,
                                   "bodyread", Table[Head(q[r].att)].lock))
    <2>1. PICK e \in UpstreamError : e = "bodyread"
      BY DEF UpstreamError
    <2>2. PICK h : h = [c.hist EXCEPT ![Len(c.hist)].res = e]
      OBVIOUS
    <2>3. /\ h \in Seq(Attempt) /\ Trail(c.att, h, c.failed, i + 1) /\ Rising(h)
          /\ NoneWorse(h, Head(c.att)) /\ Disciplined(c.in.kind, h) /\ Last(h).res = e
      <3>1. /\ Trail(c.att, c.hist, c.failed, i + 1) /\ Rising(c.hist) /\ NoneWorse(c.hist, Head(c.att))
            /\ Disciplined(c.in.kind, c.hist)
        BY <1>3 DEF AtWork
      <3>2. PICK k \in Nat : k = i + 1
        OBVIOUS
      <3>3. PICK f \in Nat : f = c.failed
        BY Fields
      <3>4. PICK old \in Seq(Attempt) : old = c.hist
        BY <1>4
      <3>5. PICK att \in Seq(Route) : att = c.att
        BY <1>4
      <3>6. PICK kind : kind = c.in.kind
        OBVIOUS
      <3>7. /\ Trail(att, old, f, k) /\ Rising(old) /\ NoneWorse(old, Head(att)) /\ Disciplined(kind, old)
            /\ old # <<>>
        BY <1>4, <3>1, <3>2, <3>3, <3>4, <3>5, <3>6
      <3>8. h = LastAs(old, e)
        BY <2>2, <3>4 DEF LastAs
      <3>9. /\ h \in Seq(Attempt) /\ Trail(att, h, f, k) /\ Rising(h) /\ NoneWorse(h, Head(att))
            /\ Disciplined(kind, h) /\ Last(h).res = e
        BY <3>7, <3>8, LastChanges
      <3> QED BY <3>2, <3>3, <3>5, <3>6, <3>9
    <2>4. PICK b : b = [c EXCEPT !.hist = h]
      OBVIOUS
    <2>5. /\ b \in Handling /\ b.hist = h /\ SameKey(c, b) /\ b.att = c.att /\ b.failed = c.failed
          /\ b.events = c.events /\ b.answer = c.answer /\ b.tee = c.tee
      BY <2>3, <2>4 DEF Handling, SameKey
    <2>6. AtWork(b, i + 1)
      BY <1>3, <2>3, <2>5 DEF AtWork, SameKey
    <2>7. PICK stop \in BOOLEAN : stop = Table[Head(c.att)].lock
      BY <1>4
    <2>8. ~stop => MayLeave(b.in.kind, Last(b.hist))
      <3>1. Last(h).route = Head(c.att)
        BY <2>5, <2>6, LastIsHead
      <3> QED BY <2>1, <2>3, <2>5, <2>7, <3>1 DEF MayLeave, no_failover, client_causal
    <2>9. PICK d : d = FailCandidate(b, i, e, stop)
      OBVIOUS
    <2>10. Put(r, d)
      <3>1. b = [q[r] EXCEPT !.hist[Len(q[r].hist)].res = "bodyread"]
        BY <1>1, <2>1, <2>2, <2>4
      <3> QED BY <1>1, <1>2, <1>9, <2>1, <2>7, <2>9, <3>1
    <2>11. /\ Good(d) /\ SameKey(b, d) /\ d.pc \in {"build", "release", "answered"}
           /\ b.held => d.pc \in {"build", "release"}
      BY <2>6, <2>8, <2>9, FailCandidateGood
    <2>12. Calm(c, d)
      BY <1>1, <2>5, <2>11, WorkIsCalm DEF SameKey, Holding
    <2> QED BY <1>1, <1>5, <2>10, <2>11, <2>12, StepIsGood
<1> QED BY <1>6, <1>7, <1>8, <1>9 DEF OnSuccess


\* The images are there, a task was made for them, or its row could not be written.
LEMMA ImageStep ==
    ASSUME GatewayInv, NEW r \in Request, Image(r)
    PROVE  GatewayInv'
<1>1. PICK c \in Handling : c = q[r] /\ Good(c) /\ c.pc = "image" /\ c.pc \in Holding /\ c.pc \in Trying \cup Won
    BY DEF GatewayInv, TypeOK, Image, Holding, Won
<1>2. PICK i \in Nat : i = c.idx
    BY Fields
<1>3. AtWork(c, i + 1) /\ Last(c.hist).res = "ok" /\ c.in \in Input /\ c.in.kind = "images"
    <2>1. Made(c) = i + 1
      BY <1>1, <1>2 DEF Made
    <2>2. AtWork(c, i + 1)
      BY <1>1, <2>1, GoodWorks
    <2> QED BY <1>1, <2>2 DEF Good, AttemptsGood, KeyGood, AtWork, Won
<1>4. store' = store /\ blocked' \subseteq Upstream /\ pin' \in Upstream \cup {None}
    BY DEF Image, shared, GatewayInv, TypeOK
<1>5. CASE \E status \in {200, 202} : Put(r, Respond(q[r], status))
    <2>1. PICK status \in {200, 202, 502} : Put(r, Respond(c, status))
      BY <1>1, <1>5
    <2>2. PICK d : d = Respond(c, status)
      OBVIOUS
    <2>3. /\ Good(d) /\ SameKey(c, d) /\ d.pc \in {"discard", "complete", "answered"}
          /\ c.held => d.pc \in {"discard", "complete"}
      BY <1>2, <1>3, <2>2, RespondGood
    <2>4. Calm(c, d)
      BY <1>1, <2>3, WorkIsCalm DEF Holding
    <2> QED BY <1>1, <1>4, <2>1, <2>2, <2>3, <2>4, StepIsGood
<1>6. CASE LET e == Event(500, None, q[r].idx + q[r].failed) IN
           Put(r, IF q[r].held THEN [Logged(q[r], e) EXCEPT !.pc = "release", !.out = 500]
                  ELSE Answered(Logged(q[r], e), 500))
    <2>1. PICK status \in Status : status = 500
      BY DEF Status
    <2>2. PICK f \in Nat : f = c.failed
      BY Fields
    <2>3. PICK n \in Nat : n = i + f /\ n = f + (i + 1) - 1
      OBVIOUS
    <2>4. PICK ev \in LogEvent : /\ ev = Event(status, None, n)
                                 /\ ev.status = status /\ ev.up = None /\ ev.retry = n
      BY EventTyped
    <2>5. PICK b \in Handling : /\ b = Logged(c, ev) /\ b.events = Append(c.events, ev) /\ SameKey(c, b)
                                /\ b.hist = c.hist /\ b.tee = c.tee /\ b.answer = c.answer
      BY LoggedFields DEF SameKey
    <2>6. PICK d : d = IF c.held THEN [b EXCEPT !.pc = "release", !.out = status] ELSE Answered(b, status)
      OBVIOUS
    <2>7. /\ d \in Handling /\ d.events = b.events /\ SameKey(b, d) /\ d.hist = b.hist /\ d.tee = b.tee
          /\ c.held => d.pc = "release" /\ d.out = status /\ d.answer = b.answer
          /\ ~c.held => d.pc = "answered" /\ d.answer = status
      <3>1. CASE c.held
        BY <2>6, <3>1 DEF Handling, SameKey, Place, Awaiting
      <3>2. CASE ~c.held
        BY <2>6, <3>2, AnsweredFields DEF SameKey
      <3> QED BY <3>1, <3>2
    <2>8. Put(r, d)
      <3>1. Event(500, None, q[r].idx + q[r].failed) = ev
        BY <1>1, <1>2, <2>1, <2>2, <2>3, <2>4
      <3>2. Put(r, IF c.held THEN [Logged(c, ev) EXCEPT !.pc = "release", !.out = 500]
                   ELSE Answered(Logged(c, ev), 500))
        BY <1>1, <1>6, <3>1
      <3> QED BY <2>1, <2>5, <2>6, <3>2
    <2>9. Tells(d) /\ Len(d.events) = 1 /\ d.events[1] = ev
      <3>1. PICK k \in Nat : k = i + 1 /\ k > 0
        OBVIOUS
      <3>2. AtWork(c, k) /\ ev.retry = c.failed + k - 1
        BY <1>3, <2>2, <2>3, <2>4, <3>1
      <3>3. d.in = c.in /\ d.hist = c.hist /\ d.events = Append(c.events, ev)
        BY <2>5, <2>7 DEF SameKey
      <3>4. \/ ev.up = Up(Head(c.att))
            \/ c.in.kind = "images" /\ ev.up = None /\ ev.status \notin {200, 202}
        BY <1>3, <2>1, <2>4
      <3>5. EventOf(c, k, d, ev)
        BY <3>2, <3>3, <3>4 DEF EventOf
      <3> QED BY <2>7, <3>1, <3>2, <3>5, EventTells
    <2>10. Good(d)
      <3>1. /\ d.in \in Input /\ (d.held => ~d.in.stream) /\ d.tee = NoTee /\ d.held = c.held
            /\ Disciplined(d.in.kind, d.hist) /\ Rising(d.hist) /\ c.answer = 0
        BY <1>3, <2>5, <2>7 DEF SameKey, AtWork
      <3>2. /\ d.pc \in {"answered", "release"}
            /\ d.pc = "answered" => d.events[1].status = d.answer
            /\ d.pc = "release" => d.events[1].status = d.out /\ d.held /\ d.answer = 0
        BY <2>4, <2>5, <2>7, <2>9, <3>1
      <3> QED BY <2>7, <2>9, <3>1, <3>2, LoggedIsGood
    <2>11. Calm(c, d)
      BY <1>1, <2>5, <2>7, WorkIsCalm DEF SameKey, Holding
    <2> QED BY <1>1, <1>4, <2>8, <2>10, <2>11, StepIsGood
<1> QED BY <1>5, <1>6 DEF Image

\* The statement that settles a key: the row of the holder is freed or gets its result, and
\* the handler goes on; or the statement fails, which is remembered.
LEMMA SettleStep ==
    ASSUME GatewayInv, NEW r \in Request, q[r].held, q[r].pc \in Holding, NEW d, Good(d), NEW row,
           Settled(r, d, row), d.pc \in {"respond", "answered"}, q[r].answer = 0,
           row = Free \/ /\ row = [status |-> "completed", by |-> r, code |-> d.out]
                         /\ d.out \in {200, 202} /\ d.answer = 0 /\ Last(d.hist).res = "ok"
    PROVE  GatewayInv'
<1>1. TypeOK /\ RowInv /\ \A s \in Request : Good(q[s])
    BY DEF GatewayInv
<1>2. blocked' \subseteq Upstream /\ pin' \in Upstream \cup {None}
    BY <1>1 DEF Settled, TypeOK
<1>3. CASE store' = store /\ Put(r, [d EXCEPT !.dberr = TRUE])
    <2>1. PICK e : e = [d EXCEPT !.dberr = TRUE]
      OBVIOUS
    <2>2. Good(e) /\ e.dberr /\ e.pc = d.pc
      BY <2>1, ErrorGood
    <2>3. Calm(q[r], e)
      <3>1. e.pc \notin Holding /\ e.pc # "replayed" /\ q[r].pc \notin {"respond", "answered", "gone"}
        BY <2>2 DEF Holding
      <3>2. PICK c : c = q[r]
        OBVIOUS
      <3>3. /\ c.dberr => e.dberr
            /\ c.held /\ c.pc \in Holding \cup {"gone"} => e.dberr \/ (e.held /\ e.pc \in Holding \cup {"gone"})
        BY <2>2, Zenon
      <3>4. e.held /\ e.pc \in Holding => c.held /\ c.pc \in Holding
        BY <3>1
      <3>5. c.pc \notin {"respond", "answered", "gone"} /\ e.pc # "replayed"
        BY <3>1, <3>2
      <3>6. Calm(c, e)
        BY <3>3, <3>4, <3>5, Zenon DEF Calm
      <3> QED BY <3>2, <3>6
    <2> QED BY <1>2, <1>3, <2>1, <2>2, <2>3, StepIsGood
<1>4. CASE store' = row /\ Put(r, d)
    <2>1. /\ q' \in [Request -> Handling] /\ q'[r] = d /\ \A s \in Request : Good(q'[s])
          /\ \A s \in Request \ {r} : q'[s] = q[s]
      BY <1>1, <1>4, AllGood
    <2>2. store.status = "processing" /\ store.by = r
      BY <1>1 DEF RowInv, HoldersOwn
    <2>3. /\ row \in [status : {"free", "processing", "completed"}, by : Request \cup {None}, code : Status]
          /\ row.status \in {"free", "completed"}
      BY DEF Free, Status
    <2>4. TypeOK'
      BY <1>2, <1>4, <2>1, <2>3 DEF TypeOK
    <2>5. (store.status = "processing" => store.by \in Request)' /\ KeySettled'
      BY <1>4, <2>3 DEF KeySettled
    <2>6. HoldersOwn'
      <3>1. ASSUME NEW s \in Request PROVE ~(q'[s].held /\ q'[s].pc \in Holding)
        <4>1. CASE s = r
          BY <2>1, <4>1 DEF Holding
        <4>2. CASE s # r
          BY <1>1, <2>1, <2>2, <4>2 DEF RowInv, HoldersOwn
        <4> QED BY <4>1, <4>2
      <3> QED BY <3>1 DEF HoldersOwn
    <2>7. CompletedEarned'
      <3>1. CASE row = Free
        BY <1>4, <3>1 DEF CompletedEarned, Free
      <3>2. CASE /\ row = [status |-> "completed", by |-> r, code |-> d.out]
                 /\ d.out \in {200, 202} /\ d.answer = 0 /\ Last(d.hist).res = "ok"
        BY <1>4, <2>1, <3>2 DEF CompletedEarned
      <3> QED BY <3>1, <3>2
    <2>8. ReplaysRow'
      <3>1. ASSUME NEW s \in Request PROVE q'[s].pc # "replayed"
        <4>1. CASE s = r
          BY <2>1, <4>1
        <4>2. CASE s # r
          BY <1>1, <2>1, <2>2, <4>2 DEF RowInv, ReplaysRow
        <4> QED BY <4>1, <4>2
      <3> QED BY <3>1 DEF ReplaysRow
    <2> QED BY <2>1, <2>4, <2>5, <2>6, <2>7, <2>8 DEF GatewayInv, RowInv
<1> QED BY <1>3, <1>4 DEF Settled

\* The result of a request whose key was settled, or is about to be: it can be given.
LEMMA RespondingGood ==
    ASSUME NEW c, Good(c), c.pc \in {"complete", "discard"}
    PROVE  LET d == [c EXCEPT !.pc = "respond"] IN
           /\ Good(d) /\ d.pc = "respond" /\ d.out = c.out /\ d.answer = 0 /\ c.answer = 0
           /\ Last(d.hist).res = "ok" /\ c.held /\ c.pc \in Holding
<1>1. /\ c \in Handling /\ c.pc \in Trying \cup Won /\ c.pc \in Won /\ c.held /\ c.answer = 0 /\ c.pc \in Holding
      /\ Last(c.hist).res = "ok" /\ Made(c) = c.idx + 1
    BY DEF Good, KeyGood, AttemptsGood, Won, Holding, Made
<1>2. AtWork(c, c.idx + 1)
    BY <1>1, GoodWorks
<1>3. PICK d : d = [c EXCEPT !.pc = "respond"]
    OBVIOUS
<1>4. d \in Handling /\ d.pc = "respond" /\ d.idx = c.idx /\ d.out = c.out /\ SameWork(c, d)
    BY <1>1, <1>3 DEF Handling, SameWork, Place, Awaiting
<1>5. AtWork(d, Made(d))
    BY <1>2, <1>4, WorkMoves DEF Made
<1>6. Good(d)
    BY <1>1, <1>4, <1>5, WorkIsGood DEF Won, SameWork
<1> QED BY <1>1, <1>3, <1>4, <1>6 DEF SameWork

\* The key gets the result.
LEMMA CompleteStep ==
    ASSUME GatewayInv, NEW r \in Request, Complete(r)
    PROVE  GatewayInv'
<1>1. PICK c \in Handling : c = q[r] /\ Good(c) /\ c.pc = "complete"
    BY DEF GatewayInv, TypeOK, Complete
<1>2. PICK d : d = [c EXCEPT !.pc = "respond"]
    OBVIOUS
<1>3. /\ Good(d) /\ d.pc = "respond" /\ d.out = c.out /\ d.answer = 0 /\ c.answer = 0
      /\ Last(d.hist).res = "ok" /\ c.held /\ c.pc \in Holding
    BY <1>1, <1>2, RespondingGood
<1>4. c.out \in {200, 202}
    BY <1>1 DEF Good, KeyGood
<1>5. PICK row : row = [status |-> "completed", by |-> r, code |-> d.out]
    OBVIOUS
<1>6. Settled(r, d, row)
    BY <1>1, <1>2, <1>3, <1>5 DEF Complete
<1> QED BY <1>1, <1>3, <1>4, <1>5, <1>6, SettleStep

\* The key is freed for a result that does not convert.
LEMMA DiscardStep ==
    ASSUME GatewayInv, NEW r \in Request, Discard(r)
    PROVE  GatewayInv'
<1>1. PICK c \in Handling : c = q[r] /\ Good(c) /\ c.pc = "discard"
    BY DEF GatewayInv, TypeOK, Discard
<1>2. PICK d : d = [c EXCEPT !.pc = "respond"]
    OBVIOUS
<1>3. /\ Good(d) /\ d.pc = "respond" /\ c.answer = 0 /\ c.held /\ c.pc \in Holding
    BY <1>1, <1>2, RespondingGood
<1>4. Settled(r, d, Free)
    BY <1>1, <1>2 DEF Discard
<1> QED BY <1>1, <1>3, <1>4, SettleStep

\* The key of a failed request is freed, and the failure is sent.
LEMMA ReleaseStep ==
    ASSUME GatewayInv, NEW r \in Request, Release(r)
    PROVE  GatewayInv'
<1>1. PICK c \in Handling : c = q[r] /\ Good(c) /\ c.pc = "release" /\ c.pc \in Holding
    BY DEF GatewayInv, TypeOK, Release, Holding
<1>2. PICK status \in Status : status = c.out
    BY Fields
<1>3. PICK d \in Handling : /\ d = Answered(c, status) /\ d.pc = "answered" /\ d.answer = status
                            /\ d.in = c.in /\ d.held = c.held /\ d.hist = c.hist /\ d.events = c.events
                            /\ d.tee = c.tee
    BY AnsweredFields
<1>4. /\ c.held /\ c.answer = 0 /\ c.in \in Input /\ (c.held => ~c.in.stream) /\ c.tee = NoTee
      /\ Disciplined(c.in.kind, c.hist) /\ Rising(c.hist) /\ Tells(c)
      /\ Len(c.events) = 1 /\ c.events[1].status = c.out
    BY <1>1 DEF Good, KeyGood, EventsGood, AttemptsGood, Bodies
<1>5. Good(d)
    BY <1>2, <1>3, <1>4, LoggedIsGood DEF Tells
<1>6. Settled(r, d, Free)
    BY <1>1, <1>2, <1>3 DEF Release
<1> QED BY <1>1, <1>3, <1>4, <1>5, <1>6, SettleStep

\* The result is logged and sent.
LEMMA FinishStep ==
    ASSUME GatewayInv, NEW r \in Request, Finish(r)
    PROVE  GatewayInv'
<1>1. PICK c \in Handling : c = q[r] /\ Good(c) /\ c.pc = "respond" /\ c.pc \in Trying \cup Won
    BY DEF GatewayInv, TypeOK, Finish, Won
<1>2. PICK i \in Nat : i = c.idx
    BY Fields
<1>3. PICK f \in Nat : f = c.failed
    BY Fields
<1>4. PICK status \in Status : status = c.out
    BY Fields
<1>5. AtWork(c, i + 1)
    BY <1>1, <1>2, GoodWorks DEF Made
<1>6. Up(Head(c.att)) \in Upstream
    BY <1>5, LastIsHead
<1>7. PICK n \in Nat : n = i + f /\ n = f + (i + 1) - 1
    OBVIOUS
<1>8. PICK ev \in LogEvent : /\ ev = Event(status, Up(Head(c.att)), n)
                             /\ ev.status = status /\ ev.up = Up(Head(c.att)) /\ ev.retry = n
    BY <1>6, EventTyped
<1>9. PICK b \in Handling : /\ b = Logged(c, ev) /\ b.events = Append(c.events, ev) /\ SameKey(c, b)
                            /\ b.hist = c.hist /\ b.tee = c.tee /\ b.out = c.out
    BY LoggedFields DEF SameKey
<1>10. PICK d \in Handling : /\ d = Answered(b, status) /\ d.pc = "answered" /\ d.answer = status
                             /\ SameKey(b, d) /\ d.events = b.events /\ d.hist = b.hist /\ d.tee = b.tee
                             /\ d.out = b.out
    BY AnsweredFields DEF SameKey
<1>11. Put(r, d)
    BY <1>1, <1>2, <1>3, <1>4, <1>7, <1>8, <1>9, <1>10 DEF Finish
<1>12. Tells(d) /\ Len(d.events) = 1 /\ d.events[1] = ev
    <2>1. PICK k \in Nat : k = i + 1 /\ k > 0
      OBVIOUS
    <2>2. AtWork(c, k) /\ ev.retry = c.failed + k - 1
      BY <1>3, <1>5, <1>7, <1>8, <2>1
    <2>3. d.in = c.in /\ d.hist = c.hist /\ d.events = Append(c.events, ev)
      BY <1>9, <1>10 DEF SameKey
    <2>4. \/ ev.up = Up(Head(c.att))
          \/ c.in.kind = "images" /\ ev.up = None /\ ev.status \notin {200, 202}
      BY <1>8
    <2>5. EventOf(c, k, d, ev)
      BY <2>2, <2>3, <2>4 DEF EventOf
    <2> QED BY <2>1, <2>2, <2>5, EventTells
<1>13. Good(d)
    <2>1. /\ d.in \in Input /\ (d.held => ~d.in.stream) /\ d.tee = NoTee
          /\ Disciplined(d.in.kind, d.hist) /\ Rising(d.hist)
      BY <1>5, <1>9, <1>10 DEF SameKey, AtWork
    <2> QED BY <1>8, <1>10, <1>12, <2>1, LoggedIsGood
<1>14. Calm(c, d)
    BY <1>1, <1>4, <1>9, <1>10 DEF Calm, SameKey, Holding
<1>15. store' = store /\ blocked' \subseteq Upstream /\ pin' \in Upstream \cup {None}
    BY DEF Finish, shared, GatewayInv, TypeOK
<1> QED BY <1>1, <1>11, <1>13, <1>14, <1>15, StepIsGood

-----------------------------------------------------------------------------
(* The body of a stream.                                                     *)

\* The event of the stream is with the body, with the task that writes it, or written.
Entitled(events, t) ==
    Len(events) + t.spawned + (IF t.ctx THEN 1 ELSE 0) = 1

\* A step of the body that leaves the attempts alone.
LEMMA BodyGood ==
    ASSUME NEW c, Good(c), c.pc \in Bodies, NEW d \in Handling, d.pc \in Bodies,
           d.in = c.in, d.att = c.att, d.idx = c.idx, d.failed = c.failed, d.held = c.held,
           d.answer = c.answer, d.hist = c.hist, Tells(d), Entitled(d.events, d.tee),
           d.tee.finalized \/ d.pc = "closed" => ~d.tee.ctx,
           \A i \in DOMAIN d.events : d.events[i].status = 200
    PROVE  Good(d)
<1>1. /\ d.pc \notin Early /\ d.pc \in OnTrail /\ d.pc \notin Trying /\ d.pc \notin Won
      /\ c.pc \in OnTrail /\ d.pc \notin {"answered", "release", "gone", "unauthorized", "replayed"}
    BY DEF Early, OnTrail, Trying, Won, Bodies
<1>2. Made(d) = Made(c)
    BY DEF Made, Bodies
<1>3. AttemptsGood(d)
    BY <1>1, <1>2, Zenon DEF Good, AttemptsGood, Bodies, Won
<1>4. c.answer = 200
    BY DEF Good, EventsGood
<1>5. LoggedOnce(d)
    <2>1. ASSUME d.pc = "closed", d.tee.spawned = 0
          PROVE  Len(d.events) = 1 /\ d.events[1].status = d.answer
      <3>1. d.events \in Seq(LogEvent) /\ ~d.tee.ctx
        BY <2>1, Fields
      <3>2. PICK n \in Nat : n = Len(d.events)
        BY <3>1
      <3>3. n + 0 + 0 = 1
        BY <2>1, <3>1, <3>2 DEF Entitled
      <3>4. n = 1
        BY <3>3
      <3>5. Len(d.events) = 1
        BY <3>2, <3>4
      <3>6. DOMAIN d.events = 1..Len(d.events) /\ 1 \in 1..1
        BY <3>1
      <3> QED BY <1>4, <3>5, <3>6
    <2> QED BY <1>1, <2>1 DEF LoggedOnce
<1>6. EventsGood(d)
    BY <1>1, <1>4, <1>5 DEF EventsGood, Entitled
<1>7. KeyGood(d)
    <2>1. c.in \in Input /\ (c.held => ~c.in.stream)
      BY DEF Good, KeyGood, Bodies
    <2> QED BY <1>1, <2>1 DEF KeyGood, Bodies
<1> QED BY <1>3, <1>6, <1>7 DEF Good

\* What is known of a request whose body is a stream.
LEMMA BodyFacts ==
    ASSUME NEW c, Good(c), c.pc \in Bodies
    PROVE  /\ c \in Handling /\ c.tee \in TeeStream /\ c.events \in Seq(LogEvent) /\ Entitled(c.events, c.tee)
           /\ c.tee.finalized \/ c.pc = "closed" => ~c.tee.ctx
           /\ Tells(c) /\ c.answer = 200 /\ \A i \in DOMAIN c.events : c.events[i].status = 200
  BY Fields DEF Good, EventsGood, Entitled

\* finalize_stream gives the event to a task, once.
LEMMA Finalized ==
    ASSUME NEW t \in TeeStream, NEW events \in Seq(LogEvent), Entitled(events, t)
    PROVE  LET u == finalize_stream(t) IN
           u \in TeeStream /\ u.finalized /\ ~u.ctx /\ u.done = t.done /\ Entitled(events, u)
<1>1. PICK n \in Nat : n = Len(events)
    OBVIOUS
<1>2. PICK s \in Nat : s = t.spawned
    BY DEF TeeStream
<1>3. CASE t.ctx
    <2>1. PICK m \in Nat : m = s + 1
      OBVIOUS
    <2>2. PICK u : u = [t EXCEPT !.ctx = FALSE, !.spawned = m, !.finalized = TRUE]
      OBVIOUS
    <2>3. u = finalize_stream(t)
      BY <1>2, <1>3, <2>1, <2>2 DEF finalize_stream
    <2>4. u \in TeeStream /\ u.finalized /\ ~u.ctx /\ u.done = t.done /\ u.spawned = m
      BY <2>2 DEF TeeStream
    <2>5. n + s + 1 = 1
      BY <1>1, <1>2, <1>3 DEF Entitled
    <2>6. n + m + 0 = 1
      BY <2>1, <2>5
    <2> QED BY <1>1, <2>3, <2>4, <2>6 DEF Entitled
<1>4. CASE ~t.ctx
    <2>1. PICK u : u = [t EXCEPT !.finalized = TRUE]
      OBVIOUS
    <2>2. u = finalize_stream(t)
      BY <1>4, <2>1 DEF finalize_stream
    <2>3. u \in TeeStream /\ u.finalized /\ ~u.ctx /\ u.done = t.done /\ u.spawned = t.spawned
      BY <1>4, <2>1 DEF TeeStream
    <2> QED BY <1>4, <2>2, <2>3 DEF Entitled
<1> QED BY <1>3, <1>4

\* A step of the body leaves the key alone.
LEMMA BodyIsCalm ==
    ASSUME NEW c, NEW d, c.pc \in Bodies, d.pc \in Bodies, d.dberr = c.dberr
    PROVE  Calm(c, d)
  BY DEF Calm, Bodies, Holding

\* A step of the body that only moves the tee.
LEMMA TeeStep ==
    ASSUME GatewayInv, NEW r \in Request, q[r].pc = "stream", NEW p \in Bodies, NEW t \in TeeStream,
           Put(r, [q[r] EXCEPT !.pc = p, !.tee = t]), Entitled(q[r].events, t),
           t.finalized \/ p = "closed" => ~t.ctx,
           store' = store, blocked' \subseteq Upstream, pin' \in Upstream \cup {None}
    PROVE  GatewayInv'
<1>1. PICK c \in Handling : c = q[r] /\ Good(c) /\ c.pc \in Bodies
    BY DEF GatewayInv, TypeOK, Bodies
<1>2. PICK d : d = [c EXCEPT !.pc = p, !.tee = t]
    OBVIOUS
<1>3. /\ d \in Handling /\ d.pc = p /\ d.tee = t /\ d.in = c.in /\ d.att = c.att /\ d.idx = c.idx
      /\ d.failed = c.failed /\ d.held = c.held /\ d.dberr = c.dberr /\ d.answer = c.answer
      /\ d.hist = c.hist /\ d.events = c.events
    <2>1. p \in Place
      BY DEF Bodies, Place
    <2> QED BY <1>2, <2>1 DEF Handling
<1>4. Tells(d) /\ \A i \in DOMAIN d.events : d.events[i].status = 200
    BY <1>1, <1>3, BodyFacts DEF Tells
<1>5. Good(d)
    <2>1. Entitled(d.events, d.tee)
      BY <1>1, <1>3
    <2> QED BY <1>1, <1>3, <1>4, <2>1, BodyGood
<1>6. Calm(c, d)
    BY <1>1, <1>3, BodyIsCalm
<1> QED BY <1>1, <1>2, <1>5, <1>6, StepIsGood

\* The upstream's stream ends.
LEMMA StreamEndsStep ==
    ASSUME GatewayInv, NEW r \in Request, StreamEnds(r)
    PROVE  GatewayInv'
<1>1. PICK c \in Handling : c = q[r] /\ Good(c) /\ c.pc = "stream" /\ c.pc \in Bodies
    BY DEF GatewayInv, TypeOK, StreamEnds, InStream, Bodies
<1>2. c.tee \in TeeStream /\ c.events \in Seq(LogEvent) /\ Entitled(c.events, c.tee)
    BY <1>1, BodyFacts
<1>3. PICK u \in TeeStream : /\ u = finalize_stream(c.tee) /\ u.finalized /\ ~u.ctx
                             /\ Entitled(c.events, u)
    BY <1>2, Finalized
<1>4. PICK t : t = [u EXCEPT !.done = TRUE]
    OBVIOUS
<1>5. t \in TeeStream /\ ~t.ctx /\ t.spawned = u.spawned
    BY <1>3, <1>4 DEF TeeStream
<1>6. Entitled(c.events, t)
    BY <1>3, <1>5 DEF Entitled
<1>7. Put(r, [q[r] EXCEPT !.pc = "stream", !.tee = t])
    <2>1. [c EXCEPT !.tee = t] = [c EXCEPT !.pc = "stream", !.tee = t]
      BY <1>1 DEF Handling
    <2>2. Put(r, [q[r] EXCEPT !.tee = [finalize_stream(@) EXCEPT !.done = TRUE]])
      BY DEF StreamEnds
    <2>3. Put(r, [c EXCEPT !.tee = t])
      BY <1>1, <1>3, <1>4, <2>2
    <2> QED BY <1>1, <2>1, <2>3
<1>8. store' = store /\ blocked' \subseteq Upstream /\ pin' \in Upstream \cup {None}
    BY DEF StreamEnds, shared, GatewayInv, TypeOK
<1> QED BY <1>1, <1>5, <1>6, <1>7, <1>8, TeeStep DEF Bodies

\* The upstream's stream fails.
LEMMA StreamFailsStep ==
    ASSUME GatewayInv, NEW r \in Request, StreamFails(r)
    PROVE  GatewayInv'
<1>1. PICK c \in Handling : c = q[r] /\ Good(c) /\ c.pc = "stream" /\ c.pc \in Bodies
    BY DEF GatewayInv, TypeOK, StreamFails, InStream, Bodies
<1>2. /\ c.tee \in TeeStream /\ Entitled(c.events, c.tee)
      /\ c.tee.finalized \/ c.pc = "closed" => ~c.tee.ctx
    BY <1>1, BodyFacts
<1>3. PICK t : t = [c.tee EXCEPT !.done = TRUE]
    OBVIOUS
<1>4. /\ t \in TeeStream /\ t.ctx = c.tee.ctx /\ t.spawned = c.tee.spawned
      /\ t.finalized = c.tee.finalized
    BY <1>2, <1>3 DEF TeeStream
<1>5. Entitled(c.events, t) /\ (t.finalized => ~t.ctx)
    BY <1>1, <1>2, <1>4 DEF Entitled
<1>6. Put(r, [q[r] EXCEPT !.pc = "stream", !.tee = t])
    <2>1. [c EXCEPT !.tee.done = TRUE] = [c EXCEPT !.pc = "stream", !.tee = t]
      BY <1>1, <1>3 DEF Handling
    <2> QED BY <1>1, <2>1 DEF StreamFails
<1>7. store' = store /\ blocked' \subseteq Upstream /\ pin' \in Upstream \cup {None}
    <2>1. c.att \in Seq(Route) /\ c.att # <<>>
      BY <1>1, Fields DEF Good, AttemptsGood, OnTrail
    <2>2. Up(Head(c.att)) \in Upstream
      BY <2>1, RouteTyped
    <2> QED BY <1>1, <2>2 DEF StreamFails, GatewayInv, TypeOK
<1> QED BY <1>1, <1>4, <1>5, <1>6, <1>7, TeeStep DEF Bodies

\* The poll after a failure finalizes the stream.
LEMMA PollAgainStep ==
    ASSUME GatewayInv, NEW r \in Request, PollAgain(r)
    PROVE  GatewayInv'
<1>1. PICK c \in Handling : c = q[r] /\ Good(c) /\ c.pc = "stream" /\ c.pc \in Bodies
    BY DEF GatewayInv, TypeOK, PollAgain, Bodies
<1>2. c.tee \in TeeStream /\ c.events \in Seq(LogEvent) /\ Entitled(c.events, c.tee)
    BY <1>1, BodyFacts
<1>3. PICK t \in TeeStream : t = finalize_stream(c.tee) /\ ~t.ctx /\ Entitled(c.events, t)
    BY <1>2, Finalized
<1>4. Put(r, [q[r] EXCEPT !.pc = "stream", !.tee = t])
    <2>1. [c EXCEPT !.tee = t] = [c EXCEPT !.pc = "stream", !.tee = t]
      BY <1>1 DEF Handling
    <2>2. Put(r, [q[r] EXCEPT !.tee = finalize_stream(@)])
      BY DEF PollAgain
    <2>3. Put(r, [c EXCEPT !.tee = t])
      BY <1>1, <1>3, <2>2
    <2> QED BY <1>1, <2>1, <2>3
<1>5. store' = store /\ blocked' \subseteq Upstream /\ pin' \in Upstream \cup {None}
    BY DEF PollAgain, shared, GatewayInv, TypeOK
<1> QED BY <1>1, <1>3, <1>4, <1>5, TeeStep DEF Bodies

\* The body is dropped.
LEMMA DropBodyStep ==
    ASSUME GatewayInv, NEW r \in Request, DropBody(r)
    PROVE  GatewayInv'
<1>1. PICK c \in Handling : c = q[r] /\ Good(c) /\ c.pc = "stream" /\ c.pc \in Bodies
    BY DEF GatewayInv, TypeOK, DropBody, Bodies
<1>2. /\ c.tee \in TeeStream /\ c.events \in Seq(LogEvent) /\ Entitled(c.events, c.tee)
      /\ c.tee.finalized => ~c.tee.ctx
    BY <1>1, BodyFacts
<1>3. PICK t : t = IF c.tee.finalized \/ ~c.tee.ctx THEN c.tee ELSE finalize_stream(c.tee)
    OBVIOUS
<1>4. t \in TeeStream /\ ~t.ctx /\ Entitled(c.events, t)
    <2>1. CASE c.tee.finalized \/ ~c.tee.ctx
      BY <1>2, <1>3, <2>1
    <2>2. CASE ~(c.tee.finalized \/ ~c.tee.ctx)
      BY <1>2, <1>3, <2>2, Finalized
    <2> QED BY <2>1, <2>2
<1>5. Put(r, [q[r] EXCEPT !.pc = "closed", !.tee = t])
    <2>1. Put(r, [q[r] EXCEPT !.pc = "closed",
                              !.tee = IF @.finalized \/ ~@.ctx THEN @ ELSE finalize_stream(@)])
      BY DEF DropBody
    <2> QED BY <1>1, <1>3, <2>1
<1>6. store' = store /\ blocked' \subseteq Upstream /\ pin' \in Upstream \cup {None}
    BY DEF DropBody, shared, GatewayInv, TypeOK
<1> QED BY <1>1, <1>4, <1>5, <1>6, TeeStep DEF Bodies

\* The task writes the event of the stream.
LEMMA LogStreamStep ==
    ASSUME GatewayInv, NEW r \in Request, LogStream(r)
    PROVE  GatewayInv'
<1>1. PICK c \in Handling : c = q[r] /\ Good(c) /\ c.tee.spawned > 0
    BY DEF GatewayInv, TypeOK, LogStream
<1>2. c.pc \in Bodies
    BY <1>1 DEF Good, EventsGood, NoTee
<1>3. /\ c.tee \in TeeStream /\ c.events \in Seq(LogEvent) /\ Entitled(c.events, c.tee)
      /\ c.tee.finalized \/ c.pc = "closed" => ~c.tee.ctx
    BY <1>1, <1>2, BodyFacts
<1>4. c.events = <<>> /\ c.tee.spawned = 1 /\ ~c.tee.ctx
    <2>1. PICK n \in Nat : n = Len(c.events)
      BY <1>3
    <2>2. PICK s \in Nat : s = c.tee.spawned /\ s > 0
      BY <1>1, <1>3 DEF TeeStream
    <2>3. PICK x \in {0, 1} : x = (IF c.tee.ctx THEN 1 ELSE 0)
      OBVIOUS
    <2>4. n + s + x = 1
      BY <1>3, <2>1, <2>2, <2>3 DEF Entitled
    <2>5. n = 0 /\ s = 1 /\ x = 0
      BY <2>2, <2>4
    <2>6. ~c.tee.ctx
      BY <2>3, <2>5
    <2> QED BY <1>3, <2>1, <2>2, <2>5, <2>6, EmptySeq
<1>5. PICK i \in Nat : i = c.idx
    BY Fields
<1>6. PICK f \in Nat : f = c.failed
    BY Fields
<1>7. PICK w : w = [c EXCEPT !.answer = 0, !.tee = NoTee]
    OBVIOUS
<1>8. /\ w \in Handling /\ w.in = c.in /\ w.att = c.att /\ w.failed = f /\ w.hist = c.hist
      /\ w.events = <<>> /\ w.answer = 0 /\ w.tee = NoTee /\ w.held = c.held
    <2>1. NoTee \in TeeStream /\ 0 \in Status
      BY DEF NoTee, TeeStream, Status
    <2> QED BY <1>4, <1>6, <1>7, <2>1 DEF Handling
<1>9. AtWork(w, i + 1)
    <2>1. c.pc \in OnTrail /\ Made(c) = i + 1 /\ c.pc # "start"
      BY <1>2, <1>5 DEF OnTrail, Bodies, Made
    <2>2. /\ c.att # <<>> /\ WellOrdered(c.att) /\ Trail(c.att, c.hist, c.failed, i + 1)
          /\ NoneWorse(c.hist, Head(c.att)) /\ Disciplined(c.in.kind, c.hist) /\ Rising(c.hist)
      BY <1>1, <2>1 DEF Good, AttemptsGood
    <2>3. c.in \in Input /\ (c.held => ~c.in.stream)
      BY <1>1, <2>1 DEF Good, KeyGood
    <2> QED BY <1>6, <1>8, <2>2, <2>3, Zenon DEF AtWork
<1>10. Up(Head(c.att)) \in Upstream
    BY <1>8, <1>9, LastIsHead
<1>11. PICK n \in Nat : n = i + f /\ n = f + (i + 1) - 1
    OBVIOUS
<1>12. PICK status \in Status : status = 200
    BY DEF Status
<1>13. PICK ev \in LogEvent : /\ ev = Event(status, Up(Head(c.att)), n)
                              /\ ev.status = status /\ ev.up = Up(Head(c.att)) /\ ev.retry = n
    BY <1>10, EventTyped
<1>14. PICK t : t = [c.tee EXCEPT !.spawned = 0]
    OBVIOUS
<1>15. t \in TeeStream /\ t.spawned = 0 /\ ~t.ctx
    BY <1>3, <1>4, <1>14 DEF TeeStream
<1>16. PICK b : b = [c EXCEPT !.tee = t]
    OBVIOUS
<1>17. /\ b \in Handling /\ b.pc = c.pc /\ b.tee = t /\ b.in = c.in /\ b.att = c.att /\ b.idx = c.idx
       /\ b.failed = c.failed /\ b.held = c.held /\ b.dberr = c.dberr /\ b.answer = c.answer
       /\ b.hist = c.hist /\ b.events = c.events
    BY <1>15, <1>16 DEF Handling
<1>18. PICK d \in Handling : /\ d = Logged(b, ev) /\ d.events = Append(b.events, ev)
                             /\ d.pc = b.pc /\ d.tee = b.tee /\ d.in = b.in /\ d.att = b.att /\ d.idx = b.idx
                             /\ d.failed = b.failed /\ d.held = b.held /\ d.dberr = b.dberr
                             /\ d.answer = b.answer /\ d.hist = b.hist
    BY <1>17, LoggedFields
<1>19. Put(r, d)
    <2>1. [c EXCEPT !.tee.spawned = @ - 1] = b
      <3>1. c.tee.spawned - 1 = 0
        BY <1>4
      <3> QED BY <1>14, <1>16, <3>1
    <2>2. Event(200, Up(Head(c.att)), c.idx + c.failed) = ev
      BY <1>5, <1>6, <1>11, <1>12, <1>13
    <2>3. Put(r, Logged([c EXCEPT !.tee.spawned = @ - 1], Event(200, Up(Head(c.att)), c.idx + c.failed)))
      BY <1>1 DEF LogStream
    <2> QED BY <1>18, <2>1, <2>2, <2>3
<1>20. Tells(d) /\ Len(d.events) = 1 /\ d.events[1] = ev /\ DOMAIN d.events = {1}
    <2>1. PICK k \in Nat : k = i + 1 /\ k > 0
      OBVIOUS
    <2>2. AtWork(w, k) /\ ev.retry = w.failed + k - 1
      BY <1>8, <1>9, <1>11, <1>13, <2>1
    <2>3. d.in = w.in /\ d.hist = w.hist /\ d.events = Append(w.events, ev)
      BY <1>4, <1>8, <1>17, <1>18
    <2>4. \/ ev.up = Up(Head(w.att))
          \/ w.in.kind = "images" /\ ev.up = None /\ ev.status \notin {200, 202}
      BY <1>8, <1>13
    <2>5. EventOf(w, k, d, ev)
      BY <2>2, <2>3, <2>4 DEF EventOf
    <2> QED BY <2>1, <2>2, <2>5, EventTells
<1>21. Entitled(d.events, d.tee) /\ ~d.tee.ctx
    BY <1>15, <1>17, <1>18, <1>20 DEF Entitled
<1>22. \A j \in DOMAIN d.events : d.events[j].status = 200
    BY <1>12, <1>13, <1>20
<1>23. Good(d)
    <2>1. /\ d.pc \in Bodies /\ d.in = c.in /\ d.att = c.att /\ d.idx = c.idx /\ d.failed = c.failed
          /\ d.held = c.held /\ d.answer = c.answer /\ d.hist = c.hist
      BY <1>2, <1>17, <1>18
    <2> QED BY <1>1, <1>2, <1>20, <1>21, <1>22, <2>1, BodyGood
<1>24. Calm(c, d)
    BY <1>2, <1>17, <1>18, BodyIsCalm
<1>25. store' = store /\ blocked' \subseteq Upstream /\ pin' \in Upstream \cup {None}
    BY DEF LogStream, shared, GatewayInv, TypeOK
<1> QED BY <1>1, <1>19, <1>23, <1>24, <1>25, StepIsGood

-----------------------------------------------------------------------------
(* The connection, the cooldown and the specification.                       *)

\* The handler is dropped at an await.
LEMMA DisconnectStep ==
    ASSUME GatewayInv, NEW r \in Request, Disconnect(r)
    PROVE  GatewayInv'
<1>1. PICK c \in Handling : c = q[r] /\ Good(c) /\ c.pc \in Awaiting
    BY DEF GatewayInv, TypeOK, Disconnect
<1>2. PICK d : d = [c EXCEPT !.pc = "gone"]
    OBVIOUS
<1>3. /\ d \in Handling /\ d.pc = "gone" /\ d.in = c.in /\ d.held = c.held /\ d.dberr = c.dberr
      /\ d.out = c.out /\ d.answer = c.answer /\ d.hist = c.hist /\ d.events = c.events /\ d.tee = c.tee
    BY <1>2 DEF Handling, Place
<1>4. /\ d.pc \notin Early /\ d.pc \notin OnTrail /\ d.pc \notin Bodies /\ d.pc \notin Trying
      /\ d.pc \notin Won /\ c.pc \notin Bodies /\ c.pc # "start" /\ c.pc \in Early \cup Trying \cup Won \cup {"release"}
    BY <1>1, <1>3 DEF Early, OnTrail, Bodies, Trying, Won, Awaiting
<1>5. AttemptsGood(d)
    BY <1>1, <1>3, <1>4 DEF Good, AttemptsGood, Won
<1>6. Len(c.events) <= 1
    <2>1. CASE c.pc = "release"
      <3>1. Len(c.events) = 1
        BY <1>1, <2>1, Zenon DEF Good, EventsGood
      <3> QED BY <3>1
    <2>2. CASE c.pc # "release"
      <3>1. c.events = <<>>
        BY <1>1, <1>4, <2>2 DEF Good, EventsGood
      <3> QED BY <3>1
    <2> QED BY <2>1, <2>2
<1>7. EventsGood(d)
    <2>1. Tells(d) /\ d.tee = NoTee
      BY <1>1, <1>3, <1>4 DEF Good, EventsGood, Tells
    <2>2. LoggedOnce(d)
      BY <1>3, <1>6 DEF LoggedOnce
    <2> QED BY <1>3, <1>4, <2>1, <2>2 DEF EventsGood
<1>8. KeyGood(d)
    BY <1>1, <1>3, <1>4 DEF Good, KeyGood
<1>9. Calm(c, d)
    <2>1. c.pc \notin {"answered", "gone"} /\ d.pc # "replayed" /\ d.pc \notin Holding
      BY <1>1, <1>3 DEF Awaiting, Holding
    <2> QED BY <1>3, <2>1 DEF Calm
<1>10. store' = store /\ blocked' \subseteq Upstream /\ pin' \in Upstream \cup {None}
    BY DEF Disconnect, shared, GatewayInv, TypeOK
<1>11. Good(d) /\ Put(r, d)
    BY <1>1, <1>2, <1>3, <1>5, <1>7, <1>8 DEF Good, Disconnect
<1> QED BY <1>1, <1>9, <1>10, <1>11, StepIsGood

\* A step that moves no request and leaves the row alone.
LEMMA NoRequestStep ==
    ASSUME GatewayInv, q' = q, store' = store, blocked' \subseteq Upstream, pin' \in Upstream \cup {None}
    PROVE  GatewayInv'
<1>1. TypeOK'
    BY DEF GatewayInv, TypeOK
<1>2. (\A r \in Request : Good(q[r]))'
    BY DEF GatewayInv
<1>3. RowInv'
    BY DEF GatewayInv, RowInv, KeySettled, HoldersOwn, CompletedEarned, ReplaysRow
<1> QED BY <1>1, <1>2, <1>3 DEF GatewayInv

\* A fresh handler, no row, no cooldown and no pin.
LEMMA GatewayStarts == Init => GatewayInv
<1> SUFFICES ASSUME Init PROVE GatewayInv
    OBVIOUS
<1>1. /\ Fresh.pc = "start" /\ Fresh.in = None /\ Fresh.att = <<>> /\ Fresh.failed = 0 /\ ~Fresh.held
      /\ Fresh.hist = <<>> /\ Fresh.events = <<>> /\ Fresh.tee = NoTee /\ Fresh.answer = 0
    BY DEF Fresh
<1>2. Fresh \in Handling
    <2>1. NoTee \in TeeStream /\ 0 \in Status /\ "start" \in Place
      BY DEF NoTee, TeeStream, Status, Place
    <2>2. <<>> \in Seq(Route) /\ <<>> \in Seq(Attempt) /\ <<>> \in Seq(LogEvent)
      OBVIOUS
    <2> QED BY <2>1, <2>2 DEF Fresh, Handling
<1>3. /\ Fresh.pc \in Early /\ Fresh.pc \notin OnTrail /\ Fresh.pc \notin Bodies /\ Fresh.pc \notin Won
      /\ Fresh.pc \notin Holding
    BY <1>1 DEF Early, OnTrail, Trying, Bodies, Won, Holding
<1>4. AttemptsGood(Fresh)
    <2>1. Disciplined(Fresh.in.kind, Fresh.hist) /\ Rising(Fresh.hist)
      BY <1>1 DEF Disciplined, Rising
    <2> QED BY <1>1, <1>3, <2>1 DEF AttemptsGood
<1>5. EventsGood(Fresh)
    BY <1>1, <1>3 DEF EventsGood, LoggedOnce, Tells, TellsAttempts
<1>6. KeyGood(Fresh)
    BY <1>1, <1>3 DEF KeyGood
<1>7. q \in [Request -> Handling] /\ \A r \in Request : q[r] = Fresh
    BY <1>2 DEF Init
<1>8. TypeOK
    BY <1>7 DEF TypeOK, Init, Free, Status
<1>9. RowInv
    BY <1>1, <1>7 DEF RowInv, Init, Free, KeySettled, HoldersOwn, CompletedEarned, ReplaysRow
<1> QED BY <1>2, <1>4, <1>5, <1>6, <1>7, <1>8, <1>9 DEF GatewayInv, Good

\* Every step keeps the invariant: one lemma for each action.
LEMMA GatewayStep == GatewayInv /\ [Next]_vars => GatewayInv'
<1> SUFFICES ASSUME GatewayInv, [Next]_vars PROVE GatewayInv'
    OBVIOUS
<1>1. TypeOK
    BY DEF GatewayInv
<1>2. ASSUME NEW r \in Request, Handler(r) PROVE GatewayInv'
    BY <1>2, ArriveStep, CheckQuotaStep, ChooseRoutesStep, BeginStep, BuildStep, CallFailsStep, OnFailureStep,
       CallSucceedsStep, OnSuccessStep, ImageStep, CompleteStep, DiscardStep, FinishStep, ReleaseStep
       DEF Handler
<1>3. ASSUME NEW r \in Request, Stream(r) PROVE GatewayInv'
    BY <1>3, StreamEndsStep, StreamFailsStep, PollAgainStep, DropBodyStep, LogStreamStep DEF Stream
<1>4. ASSUME NEW u \in Upstream, Unblock(u) PROVE GatewayInv'
    BY <1>1, <1>4, NoRequestStep DEF Unblock, TypeOK
<1>5. CASE UNCHANGED vars
    BY <1>1, <1>5, NoRequestStep DEF vars, TypeOK
<1>6. CASE Idle
    BY <1>5, <1>6 DEF Idle
<1> QED BY <1>2, <1>3, <1>4, <1>5, <1>6, DisconnectStep DEF Next

-----------------------------------------------------------------------------
(* What the gateway promises.                                                *)

\* The inductive invariant of the request path holds in every reachable state.
THEOREM GatewayInvHolds == Spec => []GatewayInv
  BY GatewayStarts, GatewayStep, PTL DEF Spec

\* The log tells the truth about every request: a request that gateway.rs answered has one
\* usage event, with the status that was sent, the upstream that was asked last and the
\* number of retries and failovers that were really made, and a stream that is over has one.
THEOREM LogIsTruthful == Spec => []EventsTruthful
<1>1. GatewayInv => EventsTruthful
    BY DEF GatewayInv, Good, EventsGood, Tells, EventsTruthful
<1> QED BY <1>1, GatewayInvHolds, PTL

\* The candidate loop retries a route only after a retryable error and within its retries,
\* leaves it only after an error that is not the client's, and never comes back to it.
THEOREM FailoverIsDisciplined == Spec => []FailoverDiscipline
<1>1. GatewayInv => FailoverDiscipline
    BY DEF GatewayInv, Good, AttemptsGood, FailoverDiscipline
<1> QED BY <1>1, GatewayInvHolds, PTL

\* Whatever weighted_pick draws and whatever upstream is pinned, a route of a worse priority
\* is tried only after every better candidate of the request has failed.
THEOREM PriorityIsKept == Spec => []PriorityOrder
<1>1. ASSUME GatewayInv PROVE PriorityOrder
    <2> SUFFICES ASSUME NEW r \in Request
                 PROVE  /\ Rising(q[r].hist)
                        /\ q[r].pc \in {"build", "call", "onFailure", "onSuccess"} =>
                             \A i \in DOMAIN q[r].hist : \A j \in DOMAIN q[r].att :
                               Priority(q[r].hist[i].route) <= Priority(q[r].att[j])
      BY DEF PriorityOrder, Rising
    <2>1. PICK c \in Handling : c = q[r] /\ Good(c)
      BY <1>1 DEF GatewayInv, TypeOK
    <2>2. Rising(c.hist)
      BY <2>1 DEF Good, AttemptsGood
    <2>3. ASSUME c.pc \in {"build", "call", "onFailure", "onSuccess"}, NEW i \in DOMAIN c.hist,
                 NEW j \in DOMAIN c.att
          PROVE  Priority(c.hist[i].route) <= Priority(c.att[j])
      <3>1. c.pc \in OnTrail
        BY <2>3 DEF OnTrail, Trying, Won
      <3>2. WellOrdered(c.att) /\ c.att # <<>> /\ NoneWorse(c.hist, Head(c.att))
        BY <2>1, <3>1 DEF Good, AttemptsGood
      <3>3. PICK att \in Seq(Route) : att = c.att
        BY Fields
      <3>4. /\ 1 \in DOMAIN att /\ att[1] = Head(att) /\ j \in DOMAIN att /\ (j = 1 \/ 1 < j)
            /\ att[1] \in Route /\ att[j] \in Route
        BY <2>3, <3>2, <3>3
      <3>5. Priority(att[1]) <= Priority(att[j])
        <4>1. CASE j = 1
          BY <3>4, <4>1, RouteTyped DEF Priority
        <4>2. CASE 1 < j
          BY <3>2, <3>3, <3>4, <4>2 DEF WellOrdered
        <4> QED BY <3>4, <4>1, <4>2
      <3>6. Priority(c.hist[i].route) <= Priority(att[1])
        BY <2>3, <3>2, <3>3, <3>4 DEF NoneWorse
      <3>7. c.hist[i].route \in Route
        BY <2>3, Fields, AttemptTyped
      <3>8. /\ Priority(c.hist[i].route) \in Nat /\ Priority(att[1]) \in Nat /\ Priority(att[j]) \in Nat
        BY <3>4, <3>7, RouteTyped DEF Priority
      <3> QED BY <3>3, <3>5, <3>6, <3>8
    <2> QED BY <2>1, <2>2, <2>3
<1> QED BY <1>1, GatewayInvHolds, PTL

\* The idempotency key of a request is settled on every way out of the gateway, unless the
\* client left or a statement on the row failed, and a replay gives only an answer that the
\* request of the row earned.
THEOREM KeyIsHonest == Spec => []KeyHonest
<1>1. GatewayInv => KeyHonest
    <2> SUFFICES ASSUME GatewayInv PROVE KeyHonest
      OBVIOUS
    <2>1. KeySettled
      BY DEF GatewayInv, RowInv
    <2>2. ReplayedSuccess
      BY DEF GatewayInv, RowInv, CompletedEarned, ReplaysRow, ReplayedSuccess
    <2> QED BY <2>1, <2>2 DEF KeyHonest
<1> QED BY <1>1, GatewayInvHolds, PTL
=============================================================================
