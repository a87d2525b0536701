----------------------------- MODULE Led_proofs -----------------------------
(***************************************************************************)
(* The status LED, for every hold, blink rate and nesting, with the          *)
(* interpreter waking inside any call of the detector, as long as no        *)
(* activity ended more than half the uptime's range ago.                    *)
(***************************************************************************)
EXTENDS Led, TLAPS

\* The constants are numbers, and a hold fits in half the uptime's range.
LEMMA Constants ==
  /\ Hold \in Nat /\ FastHalf \in Nat /\ SlowHalf \in Nat /\ Word \in Nat /\ Idle \in Nat
  /\ MaxDepth \in Nat
  /\ Hold > 0 /\ FastHalf > 0 /\ SlowHalf > 0 /\ MaxDepth > 0 /\ 2 * Hold < Word
  BY LedAssumption

-----------------------------------------------------------------------------
(* The inductive invariant.                                                 *)

After      == {"compare", "current", "cancel", "apply", "schedule"}
Restarting == {"cancel", "apply", "schedule"}

FlagsOK ==
  /\ connected \in BOOLEAN /\ fault \in BOOLEAN /\ phase \in BOOLEAN /\ lit \in BOOLEAN
  /\ crossed \in BOOLEAN

DomainsOK ==
  /\ depth \in [Activities -> 0..MaxDepth]
  /\ ahead \in [Activities -> (-Idle)..Hold]
  /\ tail \in [Activities -> 0..Hold]
  /\ current \in Patterns /\ shown \in Patterns
  /\ due \in {None, 0} \cup 0..FastHalf \cup 0..SlowHalf
  /\ pc \in [Threads -> {"idle", "refresh", "compare", "current", "cancel", "apply", "schedule"}]
  /\ p \in [Threads -> Patterns \cup {"none"}]

\* A call of the interpreter inside one of the detector's that has resolved its
\* pattern has crossed it.
InTurn == pc["main"] # "idle" => ~Resolving \/ crossed

\* A call that has resolved a pattern has one.
PatternsKnown == \A t \in Threads : pc[t] \in After => p[t] \in Patterns

\* Whose call goes by layers that are still as it found them: nothing gets into one of
\* the interpreter's, and into the detector's only calls that cross it.
Trusted(t) == t = "main" \/ ~crossed

\* A tail that has not run out ends when its deadline does.
TailsCounted ==
  \A a \in Activities : tail[a] = Hold - ahead[a] \/ (tail[a] = Hold /\ ahead[a] <= 0)

BusIsOver == depth["bus"] = 0 /\ tail["bus"] = Hold

\* A call that is about to show anything but the bus is right about that.
BusStands ==
  \A t \in Threads : Trusted(t) /\ pc[t] \in After /\ p[t] # "bus" => fault \/ BusIsOver

\* A static pattern a call has resolved is still the one the layers ask for: time can
\* only take a blinking one away.
StaticStands ==
  \A t \in Threads : Trusted(t) /\ pc[t] \in After /\ Half(p[t]) = None => Resolved = p[t]

\* How far a restart has come.
RestartKnown ==
  \A t \in Threads : Trusted(t) =>
    /\ pc[t] \in Restarting /\ Half(p[t]) = None => current = p[t]
    /\ pc[t] \in {"apply", "schedule"} => due = None
    /\ pc[t] = "schedule" => shown = p[t]

\* With no restart in progress nothing is left unattended.
Attended ==
  (\A t \in Threads : pc[t] \notin Restarting) /\ due = None /\ ~crossed
    => Half(current) = None /\ shown = current

IInv ==
  /\ FlagsOK
  /\ DomainsOK
  /\ InTurn
  /\ PatternsKnown
  /\ TailsCounted
  /\ BusStands
  /\ StaticStands
  /\ RestartKnown
  /\ Attended

-----------------------------------------------------------------------------
(* What the prover needs to know of layers, patterns and calls.             *)

\* A number below the range is its own remainder.
LEMMA SmallRemainder ==
  ASSUME NEW B \in Nat, NEW x \in 0..(B - 1)
  PROVE  x % B = x
BY SMT

\* Half the range, rounded down.
LEMMA Halved ==
  ASSUME NEW B \in Nat
  PROVE  B = 2 * (B \div 2) + (B % 2) /\ B % 2 \in 0..1 /\ B \div 2 \in Int
BY SMT

\* Within half the range a deadline reads as what it is.
LEMMA SignedIs ==
  ASSUME Idle <= Word \div 2, NEW n \in (-Idle)..Hold
  PROVE  Signed(n) = n
<1> DEFINE half == Word \div 2
           x == n + half
<1>1. Word = 2 * half + (Word % 2) /\ Word % 2 \in 0..1 /\ half \in Int
  BY Constants, Halved
<1>2. n \in Int /\ -Idle <= n /\ n <= Hold
  BY Constants
<1>3. x \in 0..(Word - 1)
  <2> HIDE DEF half
  <2>1. QED
    BY <1>1, <1>2, Constants
<1>4. x % Word = x
  <2> HIDE DEF x
  <2>1. QED
    BY <1>3, Constants, SmallRemainder
<1>5. QED
  <2> HIDE DEF half
  <2>1. x - half = n
    BY <1>1, <1>2
  <2>2. QED
    BY <1>4, <2>1 DEF Signed, half

\* A layer is active while it is held, or its deadline lies ahead.
LEMMA LayerActiveIs ==
  ASSUME Idle <= Word \div 2, DomainsOK, NEW a \in Activities
  PROVE  LayerActive(a) <=> depth[a] > 0 \/ ahead[a] > 0
<1>1. ahead[a] \in (-Idle)..Hold
  BY DEF DomainsOK
<1>2. Signed(ahead[a]) = ahead[a]
  BY <1>1, SignedIs
<1>3. QED
  BY <1>2 DEF LayerActive

\* What the layers resolve to is a pattern; any but the bus's means that the bus is
\* over, or a fault.
LEMMA ResolvedIs ==
  ASSUME IInv, Idle <= Word \div 2
  PROVE  Resolved \in Patterns /\ (Resolved # "bus" => fault \/ BusIsOver)
<1>1. Resolved \in Patterns
  BY DEF Resolved, Strongest, Patterns
<1>2. ASSUME Resolved # "bus", ~fault
      PROVE  BusIsOver
  <2>1. ~LayerActive("bus")
    BY <1>2 DEF Resolved, Strongest
  <2>2. ~(depth["bus"] > 0 \/ ahead["bus"] > 0)
    BY <2>1, LayerActiveIs DEF IInv, Activities
  <2>3. depth["bus"] \in 0..MaxDepth /\ ahead["bus"] \in (-Idle)..Hold /\ tail["bus"] \in 0..Hold
    BY DEF IInv, DomainsOK, Activities
  <2>4. tail["bus"] = Hold - ahead["bus"] \/ (tail["bus"] = Hold /\ ahead["bus"] <= 0)
    BY DEF IInv, TailsCounted, Activities
  <2>5. QED
    BY <2>2, <2>3, <2>4, Constants DEF BusIsOver
<1>3. QED
  BY <1>1, <1>2

\* Half a period is a number, or None.
LEMMA HalfIs ==
  ASSUME NEW pattern \in Patterns
  PROVE  /\ Half(pattern) \in {None, FastHalf, SlowHalf}
         /\ Half(pattern) \in {None, 0} \cup 0..FastHalf \cup 0..SlowHalf
         /\ pattern \in {"fault", "connected"} <=> Half(pattern) = None
<1>1. FastHalf # None /\ SlowHalf # None
  BY Constants DEF None
<1>2. CASE pattern \in {"bus", "passive"}
  <2>1. Half(pattern) = FastHalf
    BY <1>2 DEF Half
  <2>2. QED
    BY <1>1, <1>2, <2>1, Constants
<1>3. CASE pattern = "searching"
  <2>1. Half(pattern) = SlowHalf
    BY <1>3 DEF Half
  <2>2. QED
    BY <1>1, <1>3, <2>1, Constants
<1>4. CASE pattern \in {"fault", "connected"}
  <2>1. Half(pattern) = None
    BY <1>4 DEF Half
  <2>2. QED
    BY <1>4, <2>1
<1>5. QED
  BY <1>2, <1>3, <1>4 DEF Patterns

\* While a thread is at a point of its call, the other's is at none that matters.
LEMMA OthersWait ==
  ASSUME IInv, NEW t \in Threads, NEW point, At(t, point), point # "idle"
  PROVE  \A u \in Threads : u # t => pc[u] \notin After \/ ~Trusted(u)
<1>1. CASE t = "main"
  <2>1. ~Resolving \/ crossed
    BY <1>1 DEF IInv, InTurn, At
  <2>2. QED
    BY <1>1, <2>1 DEF Threads, Resolving, Trusted, After
<1>2. CASE t = "detector"
  BY <1>2 DEF Threads, At, After
<1>3. QED
  BY <1>1, <1>2 DEF Threads

\* Nothing changes.
LEMMA Stutters ==
  ASSUME IInv, UNCHANGED vars
  PROVE  IInv'
BY DEF vars, IInv, FlagsOK, DomainsOK, InTurn, Resolving, PatternsKnown, Trusted, TailsCounted,
       BusStands, BusIsOver, StaticStands, RestartKnown, Attended, Resolved, Strongest, LayerActive,
       Half

\* Where the calls are after thread t went on.
LEMMA Gone ==
  ASSUME DomainsOK, NEW t \in Threads,
         NEW point \in {"idle", "refresh", "compare", "current", "cancel", "apply", "schedule"},
         Goes(t, point)
  PROVE  /\ pc'[t] = point
         /\ \A u \in Threads : u # t => pc'[u] = pc[u]
         /\ pc' \in [Threads -> {"idle", "refresh", "compare", "current", "cancel", "apply",
                                 "schedule"}]
  BY DEF DomainsOK, Goes

-----------------------------------------------------------------------------
(* The invariant is inductive.                                              *)

\* The starting state satisfies the invariant.
LEMMA InitIInv == ASSUME Init PROVE IInv
<1>1. FlagsOK
  BY DEF Init, FlagsOK
<1>2. DomainsOK
  <2>1. 0 \in 0..MaxDepth /\ 0 \in (-Idle)..Hold /\ Hold \in 0..Hold /\ SlowHalf \in 0..SlowHalf
    BY Constants
  <2>2. QED
    BY <2>1 DEF Init, DomainsOK, Patterns, Threads
<1>3. InTurn /\ PatternsKnown /\ BusStands /\ StaticStands /\ RestartKnown
  BY DEF Init, InTurn, Resolving, PatternsKnown, BusStands, StaticStands, RestartKnown, After,
         Restarting, Threads
<1>4. TailsCounted
  BY Constants DEF Init, TailsCounted
<1>5. Attended
  BY Constants DEF Init, Attended, None
<1>6. QED
  BY <1>1, <1>2, <1>3, <1>4, <1>5 DEF IInv

\* A call that begins.
LEMMA CallStep ==
  ASSUME IInv, NEW t \in Threads, MayCall(t), Crosses(t),
         UNCHANGED <<led, p>>,
         Goes(t, "refresh") \/ UNCHANGED pc,
         FlagsOK',
         depth' \in [Activities -> 0..MaxDepth],
         ahead' \in [Activities -> (-Idle)..Hold],
         tail' \in [Activities -> 0..Hold],
         TailsCounted'
  PROVE  IInv'
<1>1. pc[t] = "idle" /\ (t = "detector" => pc["main"] = "idle")
  BY DEF MayCall, At
<1>2. /\ pc'[t] \in {"idle", "refresh"}
      /\ \A u \in Threads : u # t => pc'[u] = pc[u]
      /\ pc' \in [Threads -> {"idle", "refresh", "compare", "current", "cancel", "apply",
                              "schedule"}]
  BY <1>1, Gone DEF IInv, DomainsOK
<1>3. DomainsOK'
  BY <1>2 DEF IInv, DomainsOK, led
<1>4. \A u \in Threads : pc'[u] \notin After \/ (u = "detector" /\ t = "main" /\ crossed')
  <2>1. CASE t = "detector"
    BY <1>1, <1>2, <2>1 DEF Threads, After
  <2>2. CASE t = "main"
    <3>1. pc'["detector"] \notin After \/ crossed'
      <4>1. pc'["detector"] = pc["detector"]
        BY <1>2, <2>2 DEF Threads
      <4>2. CASE Resolving
        BY <2>2, <4>2 DEF Crosses
      <4>3. CASE ~Resolving
        BY <4>1, <4>3 DEF Resolving, After
      <4>4. QED
        BY <4>2, <4>3
    <3>2. QED
      BY <1>2, <2>2, <3>1 DEF Threads, After
  <2>3. QED
    BY <2>1, <2>2 DEF Threads
<1>5. InTurn'
  <2>1. CASE t = "detector"
    BY <1>1, <1>2, <2>1 DEF InTurn, Threads
  <2>2. CASE t = "main"
    <3>1. pc'["detector"] = pc["detector"]
      BY <1>2, <2>2 DEF Threads
    <3>2. QED
      BY <2>2, <3>1 DEF InTurn, Resolving, Crosses
  <2>3. QED
    BY <2>1, <2>2 DEF Threads
<1>6. PatternsKnown'
  <2>1. \A u \in Threads : pc'[u] \in After => pc[u] \in After
    BY <1>2 DEF After
  <2>2. QED
    BY <2>1 DEF IInv, PatternsKnown
<1>7. BusStands' /\ StaticStands' /\ RestartKnown'
  BY <1>4 DEF BusStands, StaticStands, RestartKnown, Trusted, After, Restarting
<1>8. Attended'
  <2>1. crossed => crossed'
    BY DEF Crosses
  <2>2. ~crossed' => \A u \in Threads : pc[u] \notin Restarting
    BY <1>1, <1>2, <1>4 DEF Restarting, After
  <2>3. QED
    BY <2>1, <2>2 DEF IInv, Attended, led, Half
<1>9. QED
  BY <1>3, <1>5, <1>6, <1>7, <1>8 DEF IInv

\* The calls that begin preserve the invariant.
LEMMA CallsStep ==
  ASSUME IInv,
         \/ \E t \in Threads, c \in BOOLEAN : SetConnected(t, c)
         \/ \E f \in BOOLEAN : SetFault(f)
         \/ \E a \in Activities : ActivityBegin(a) \/ ActivityEnd(a)
  PROVE  IInv'
<1>1. ASSUME NEW t \in Threads, NEW c \in BOOLEAN, SetConnected(t, c)
      PROVE  IInv'
  <2>1. UNCHANGED <<fault, depth, ahead, tail, phase>> /\ connected' \in BOOLEAN /\ MayCall(t)
        /\ Goes(t, "refresh") /\ UNCHANGED <<led, p>> /\ Crosses(t) /\ crossed' \in BOOLEAN
    BY <1>1 DEF SetConnected, led, Crosses, IInv, FlagsOK
  <2>2. FlagsOK'
    BY <1>1, <2>1 DEF IInv, FlagsOK, SetConnected, led
  <2>3. TailsCounted'
    BY <2>1 DEF IInv, TailsCounted
  <2>4. QED
    BY <2>1, <2>2, <2>3, CallStep DEF IInv, DomainsOK
<1>2. ASSUME NEW f \in BOOLEAN, SetFault(f)
      PROVE  IInv'
  <2>1. UNCHANGED <<connected, depth, ahead, tail>> /\ fault' \in BOOLEAN /\ MayCall("main")
        /\ Goes("main", "refresh") /\ UNCHANGED <<led, p>> /\ Crosses("main") /\ crossed' \in BOOLEAN
    BY <1>2 DEF SetFault, Crosses, IInv, FlagsOK
  <2>2. FlagsOK'
    BY <2>1 DEF IInv, FlagsOK, led
  <2>3. TailsCounted'
    BY <2>1 DEF IInv, TailsCounted
  <2>4. QED
    BY <2>1, <2>2, <2>3, CallStep DEF IInv, DomainsOK, Threads
<1>3. ASSUME NEW a \in Activities, ActivityBegin(a)
      PROVE  IInv'
  <2>1. UNCHANGED <<connected, fault, ahead, tail>> /\ MayCall("main")
        /\ (Goes("main", "refresh") \/ UNCHANGED pc) /\ UNCHANGED <<led, p>>
        /\ Crosses("main") /\ crossed' \in BOOLEAN
    BY <1>3 DEF ActivityBegin, Crosses, IInv, FlagsOK
  <2>2. FlagsOK'
    BY <2>1 DEF IInv, FlagsOK, led
  <2>3. TailsCounted'
    BY <2>1 DEF IInv, TailsCounted
  <2>4. depth' \in [Activities -> 0..MaxDepth]
    <3>1. depth[a] + 1 \in 0..MaxDepth
      <4>1. depth["bus"] \in 0..MaxDepth /\ depth["passive"] \in 0..MaxDepth
        BY DEF IInv, DomainsOK, Activities
      <4>2. depth["bus"] + depth["passive"] < MaxDepth /\ a \in {"bus", "passive"}
        BY <1>3 DEF ActivityBegin, Activities
      <4>3. QED
        BY <4>1, <4>2, Constants
    <3>2. QED
      BY <1>3, <3>1 DEF IInv, DomainsOK, ActivityBegin
  <2>5. QED
    BY <2>1, <2>2, <2>3, <2>4, CallStep DEF IInv, DomainsOK, Threads
<1>4. ASSUME NEW a \in Activities, ActivityEnd(a)
      PROVE  IInv'
  <2>1. UNCHANGED <<connected, fault>> /\ MayCall("main")
        /\ (Goes("main", "refresh") \/ UNCHANGED pc) /\ UNCHANGED <<led, p>>
    BY <1>4 DEF ActivityEnd
  <2>2. depth[a] \in 0..MaxDepth /\ depth \in [Activities -> 0..MaxDepth]
    BY DEF IInv, DomainsOK
  <2>3. CASE depth[a] > 0
    <3>1. ahead' = [ahead EXCEPT ![a] = Hold] /\ tail' = [tail EXCEPT ![a] = 0]
          /\ Crosses("main") /\ crossed' \in BOOLEAN
      BY <1>4, <2>3 DEF ActivityEnd, HoldFrom, Crosses, IInv, FlagsOK
    <3>2. Hold \in (-Idle)..Hold /\ 0 \in 0..Hold /\ 0 = Hold - Hold
      BY Constants
    <3>3. /\ ahead' \in [Activities -> (-Idle)..Hold]
          /\ tail' \in [Activities -> 0..Hold]
          /\ TailsCounted'
      BY <3>1, <3>2 DEF IInv, DomainsOK, TailsCounted
    <3>4. depth' \in [Activities -> 0..MaxDepth]
      BY <1>4, <2>2, Constants DEF ActivityEnd, DepthAfterEnd
    <3>5. FlagsOK'
      BY <2>1, <3>1 DEF IInv, FlagsOK, led
    <3>6. QED
      BY <2>1, <3>1, <3>3, <3>4, <3>5, CallStep DEF Threads
  <2>4. CASE ~(depth[a] > 0)
    <3>1. depth[a] = 0
      BY <2>2, <2>4, Constants
    <3>2. depth' = depth
      BY <1>4, <2>2, <3>1 DEF ActivityEnd, DepthAfterEnd
    <3>3. UNCHANGED vars
      BY <1>4, <2>1, <3>1, <3>2 DEF ActivityEnd, vars, led
    <3>4. QED
      BY <3>3, Stutters
  <2>5. QED
    BY <2>3, <2>4
<1>5. QED
  BY <1>1, <1>2, <1>3, <1>4

\* What every step of a refresh has in common: it is its caller's alone, and what the
\* invariant says of the other thread's call stays true.
LEMMA StepFrame ==
  ASSUME IInv, NEW t \in Threads, Step(t)
  PROVE  /\ UNCHANGED <<connected, fault, depth, ahead, tail>>
         /\ crossed' \in BOOLEAN
         /\ pc' \in [Threads -> {"idle", "refresh", "compare", "current", "cancel", "apply",
                                 "schedule"}]
         /\ \A u \in Threads : u # t => pc'[u] = pc[u] /\ p'[u] = p[u]
         /\ \A u \in Threads : u # t => pc'[u] \notin After \/ ~Trusted(u)'
         /\ Trusted(t)' => Trusted(t)
         /\ InTurn' /\ TailsCounted'
<1> DEFINE Points == {"idle", "refresh", "compare", "current", "cancel", "apply", "schedule"}
<1>1. UNCHANGED <<connected, fault, depth, ahead, tail>>
  BY DEF Step, RefreshResolves, RefreshCompares, RestartCurrent, RestartCancels,
        RestartApplies, RestartSchedules, layers
<1>2. PICK point \in Points \ {"idle"} : At(t, point)
  BY DEF Step, RefreshResolves, RefreshCompares, RestartCurrent, RestartCancels,
        RestartApplies, RestartSchedules
<1>3. PICK next \in Points : Goes(t, next)
  BY DEF Step, RefreshResolves, RefreshCompares, RestartCurrent, RestartCancels,
        RestartApplies, RestartSchedules, Returns
<1>4. /\ pc' \in [Threads -> Points]
      /\ \A u \in Threads : u # t => pc'[u] = pc[u]
  BY <1>3, Gone DEF IInv
<1>5. \A u \in Threads : u # t => p'[u] = p[u]
  <2>1. p \in [Threads -> Patterns \cup {"none"}]
    BY DEF IInv, DomainsOK
  <2>2. UNCHANGED p \/ p' = [p EXCEPT ![t] = Resolved] \/ p' = [p EXCEPT ![t] = "none"]
    BY DEF Step, RefreshResolves, RefreshCompares, RestartCurrent, RestartCancels,
          RestartApplies, RestartSchedules, Returns
  <2>3. QED
    BY <2>1, <2>2
<1>6. crossed' = crossed \/ (t = "main" /\ ~Resolving /\ crossed' = FALSE)
  <2>1. CASE RestartSchedules(t)
    <3>1. crossed' = (crossed /\ (t = "detector" \/ Resolving)) /\ crossed \in BOOLEAN
      BY <2>1 DEF RestartSchedules, IInv, FlagsOK
    <3>2. CASE t = "detector" \/ Resolving
      BY <3>1, <3>2, Zenon
    <3>3. CASE ~(t = "detector" \/ Resolving)
      <4>1. crossed' = FALSE
        BY <3>1, <3>3, Zenon
      <4>2. QED
        BY <3>3, <4>1 DEF Threads
    <3>4. QED
      BY <3>2, <3>3
  <2>2. QED
    BY <2>1 DEF Step, RefreshResolves, RefreshCompares, RestartCurrent, RestartCancels,
          RestartApplies
<1>7. crossed' \in BOOLEAN
  BY <1>6 DEF IInv, FlagsOK
<1>8. \A u \in Threads : u # t => pc[u] \notin After \/ ~Trusted(u)
  BY <1>2, OthersWait
<1>9. \A u \in Threads : u # t => pc'[u] \notin After \/ ~Trusted(u)'
  <2>1. CASE crossed' = crossed
    BY <1>4, <1>8, <2>1 DEF Trusted
  <2>2. CASE t = "main" /\ ~Resolving
    BY <1>4, <2>2 DEF Threads, Resolving, After
  <2>3. QED
    BY <1>6, <2>1, <2>2
<1>10. Trusted(t)' => Trusted(t)
  BY <1>6 DEF Trusted
<1>11. InTurn'
  <2>1. CASE t = "main"
    <3>1. pc[t] # "idle" /\ pc'["detector"] = pc["detector"]
      BY <1>2, <1>4, <2>1 DEF At, Threads
    <3>2. ~Resolving \/ crossed
      BY <2>1, <3>1 DEF IInv, InTurn
    <3>3. QED
      BY <1>6, <3>1, <3>2 DEF InTurn, Resolving
  <2>2. CASE t = "detector"
    BY <1>2, <1>4, <2>2 DEF InTurn, At, Threads
  <2>3. QED
    BY <2>1, <2>2 DEF Threads
<1>12. TailsCounted'
  BY <1>1 DEF IInv, TailsCounted
<1>13. QED
  BY <1>1, <1>4, <1>5, <1>7, <1>9, <1>10, <1>11, <1>12

\* Each step of a refresh and of a restart preserves the invariant.
LEMMA StepsStep ==
  ASSUME IInv, Idle <= Word \div 2, NEW t \in Threads, Step(t)
  PROVE  IInv'
<1> DEFINE Points == {"idle", "refresh", "compare", "current", "cancel", "apply", "schedule"}
<1>1. /\ UNCHANGED <<connected, fault, depth, ahead, tail>>
      /\ crossed' \in BOOLEAN
      /\ pc' \in [Threads -> Points]
      /\ \A u \in Threads : u # t => pc'[u] = pc[u] /\ p'[u] = p[u]
      /\ \A u \in Threads : u # t => pc'[u] \notin After \/ ~Trusted(u)'
      /\ Trusted(t)' => Trusted(t)
      /\ InTurn' /\ TailsCounted'
  BY StepFrame
<1>2. Resolved' = Resolved /\ BusIsOver' = BusIsOver
  BY <1>1 DEF Resolved, Strongest, LayerActive, BusIsOver
<1>3. /\ current \in Patterns /\ pc \in [Threads -> Points]
      /\ p \in [Threads -> Patterns \cup {"none"}]
  BY DEF IInv, DomainsOK
<1>4. pc[t] \in After => p[t] \in Patterns
  BY DEF IInv, PatternsKnown
<1>5. ASSUME pc'[t] \in After => p'[t] \in Patterns
      PROVE  PatternsKnown'
  <2>1. ASSUME NEW u \in Threads, pc'[u] \in After
        PROVE  p'[u] \in Patterns
    BY <1>1, <1>5, <2>1 DEF IInv, PatternsKnown
  <2>2. QED
    BY <2>1 DEF PatternsKnown
<1>6. CASE RefreshResolves(t)
  <2>1. /\ pc[t] = "refresh" /\ Goes(t, "compare") /\ UNCHANGED <<led, crossed>>
        /\ p' = [p EXCEPT ![t] = Resolved]
    BY <1>6 DEF RefreshResolves, At
  <2>2. pc'[t] = "compare"
    BY <2>1, Gone DEF IInv
  <2>3. Resolved \in Patterns /\ (Resolved # "bus" => fault \/ BusIsOver)
    BY ResolvedIs
  <2>4. p'[t] = Resolved /\ p' \in [Threads -> Patterns \cup {"none"}]
    BY <2>1, <2>3, <1>3
  <2>5. FlagsOK' /\ DomainsOK'
    BY <2>1, <2>4, <1>1 DEF IInv, FlagsOK, DomainsOK, led
  <2>6. PatternsKnown'
    BY <1>5, <2>3, <2>4
  <2>7. BusStands' /\ StaticStands' /\ RestartKnown'
    BY <2>2, <2>3, <2>4, <1>1, <1>2 DEF BusStands, StaticStands, RestartKnown, After, Restarting
  <2>8. Attended'
    BY <2>1, <1>1 DEF IInv, Attended, led, Half, Restarting
  <2>9. QED
    BY <2>5, <2>6, <2>7, <2>8, <1>1 DEF IInv
<1>7. CASE RefreshCompares(t)
  <2>1. /\ pc[t] = "compare" /\ UNCHANGED <<led, crossed>>
        /\ \/ Goes(t, "idle") /\ p' = [p EXCEPT ![t] = "none"]
           \/ Goes(t, "current") /\ UNCHANGED p
    BY <1>7 DEF RefreshCompares, At, Returns
  <2>2. /\ p' \in [Threads -> Patterns \cup {"none"}]
        /\ pc'[t] = "idle" \/ (pc'[t] = "current" /\ p'[t] = p[t])
    BY <2>1, <1>3, Gone DEF IInv
  <2>3. FlagsOK' /\ DomainsOK'
    BY <2>1, <2>2, <1>1 DEF IInv, FlagsOK, DomainsOK, led
  <2>4. PatternsKnown'
    BY <1>4, <1>5, <2>1, <2>2 DEF After
  <2>5. BusStands' /\ StaticStands' /\ RestartKnown'
    BY <2>1, <2>2, <1>1, <1>2
       DEF IInv, BusStands, StaticStands, RestartKnown, After, Restarting, Half
  <2>6. Attended'
    BY <2>1, <1>1 DEF IInv, Attended, led, Half, Restarting
  <2>7. QED
    BY <2>3, <2>4, <2>5, <2>6, <1>1 DEF IInv
<1>8. CASE RestartCurrent(t)
  <2>1. /\ pc[t] = "current" /\ Goes(t, "cancel") /\ UNCHANGED <<due, shown, lit, p, crossed>>
        /\ current' = p[t] /\ phase' = TRUE
    BY <1>8 DEF RestartCurrent, At
  <2>2. pc'[t] = "cancel" /\ p[t] \in Patterns
    BY <2>1, <1>4, Gone DEF IInv, After
  <2>3. FlagsOK' /\ DomainsOK' /\ PatternsKnown'
    BY <2>1, <2>2, <1>1, <1>5 DEF IInv, FlagsOK, DomainsOK
  <2>4. BusStands' /\ StaticStands' /\ RestartKnown'
    BY <2>1, <2>2, <1>1, <1>2
       DEF IInv, BusStands, StaticStands, RestartKnown, After, Restarting, Half
  <2>5. Attended'
    BY <2>2 DEF Attended, Restarting
  <2>6. QED
    BY <2>3, <2>4, <2>5, <1>1 DEF IInv
<1>9. CASE RestartCancels(t)
  <2>1. /\ pc[t] = "cancel" /\ Goes(t, "apply")
        /\ UNCHANGED <<current, phase, shown, lit, p, crossed>> /\ due' = None
    BY <1>9 DEF RestartCancels, At
  <2>2. pc'[t] = "apply" /\ p[t] \in Patterns
    BY <2>1, <1>4, Gone DEF IInv, After
  <2>3. FlagsOK' /\ DomainsOK' /\ PatternsKnown'
    BY <2>1, <2>2, <1>1, <1>5 DEF IInv, FlagsOK, DomainsOK
  <2>4. BusStands' /\ StaticStands' /\ RestartKnown'
    BY <2>1, <2>2, <1>1, <1>2
       DEF IInv, BusStands, StaticStands, RestartKnown, After, Restarting, Half
  <2>5. Attended'
    BY <2>2 DEF Attended, Restarting
  <2>6. QED
    BY <2>3, <2>4, <2>5, <1>1 DEF IInv
<1>10. CASE RestartApplies(t)
  <2>1. /\ pc[t] = "apply" /\ Goes(t, "schedule") /\ UNCHANGED <<current, phase, due, p, crossed>>
        /\ shown' = p[t] /\ lit' = TRUE
    BY <1>10 DEF RestartApplies, At
  <2>2. pc'[t] = "schedule" /\ p[t] \in Patterns
    BY <2>1, <1>4, Gone DEF IInv, After
  <2>3. FlagsOK' /\ DomainsOK' /\ PatternsKnown'
    BY <2>1, <2>2, <1>1, <1>5 DEF IInv, FlagsOK, DomainsOK
  <2>4. BusStands' /\ StaticStands' /\ RestartKnown'
    BY <2>1, <2>2, <1>1, <1>2
       DEF IInv, BusStands, StaticStands, RestartKnown, After, Restarting, Half
  <2>5. Attended'
    BY <2>2 DEF Attended, Restarting
  <2>6. QED
    BY <2>3, <2>4, <2>5, <1>1 DEF IInv
<1>11. CASE RestartSchedules(t)
  <2>1. /\ pc[t] = "schedule" /\ Goes(t, "idle") /\ p' = [p EXCEPT ![t] = "none"]
        /\ UNCHANGED <<current, phase, shown, lit>> /\ due' = Rescheduled(p[t])
    BY <1>11 DEF RestartSchedules, At, Returns
  <2>2. pc'[t] = "idle" /\ p[t] \in Patterns /\ p' \in [Threads -> Patterns \cup {"none"}]
    BY <2>1, <1>3, <1>4, Gone DEF IInv, After
  <2>3. Trusted(t) => due = None /\ shown = p[t] /\ (Half(p[t]) = None => current = p[t])
    BY <2>1 DEF IInv, RestartKnown, Restarting
  <2>4. due' = IF Half(p[t]) # None THEN Half(p[t]) ELSE due
    BY <2>1 DEF Rescheduled
  <2>5. FlagsOK' /\ DomainsOK' /\ PatternsKnown'
    <3>1. due' \in {None, 0} \cup 0..FastHalf \cup 0..SlowHalf
      BY <2>2, <2>4, HalfIs DEF IInv, DomainsOK
    <3>2. QED
      BY <2>1, <2>2, <3>1, <1>1, <1>5 DEF IInv, FlagsOK, DomainsOK, After
  <2>6. BusStands' /\ StaticStands' /\ RestartKnown'
    BY <2>2, <1>1 DEF BusStands, StaticStands, RestartKnown, After, Restarting
  <2>7. Attended'
    <3>1. ASSUME due' = None, ~crossed'
          PROVE  Half(current) = None /\ shown = current
      <4>1. Trusted(t)
        BY <1>1, <3>1 DEF Trusted
      <4>2. QED
        BY <2>3, <2>4, <3>1, <4>1
    <3>2. QED
      BY <2>1, <3>1 DEF Attended, Half
  <2>8. QED
    BY <2>5, <2>6, <2>7, <1>1 DEF IInv
<1>12. QED
  BY <1>6, <1>7, <1>8, <1>9, <1>10, <1>11 DEF Step

\* A run of the work item preserves the invariant: it restarts or repeats what the
\* layers ask for, so a static pattern on its way to the pins stays the current one.
LEMMA HandlerStep ==
  ASSUME IInv, Idle <= Word \div 2, Handler
  PROVE  IInv'
<1>1. /\ UNCHANGED <<connected, fault, depth, ahead, tail, pc, p>>
      /\ due = 0 /\ current' = Resolved /\ shown' = Resolved /\ due' = Half(Resolved)
  BY DEF Handler, HandlerRestarts, HandlerBlinks, layers
<1>2. Resolved' = Resolved /\ BusIsOver' = BusIsOver
  BY <1>1 DEF Resolved, Strongest, LayerActive, BusIsOver
<1>3. Resolved \in Patterns
  BY ResolvedIs
<1>4. crossed' \in BOOLEAN /\ (crossed' = crossed \/ Quiet)
  <2>1. crossed' = (crossed /\ ~Quiet) /\ crossed \in BOOLEAN
    BY DEF Handler, IInv, FlagsOK
  <2>2. CASE Quiet
    BY <2>1, <2>2, Zenon
  <2>3. CASE ~Quiet
    BY <2>1, <2>3, Zenon
  <2>4. QED
    BY <2>2, <2>3
<1>5. \A t \in Threads : Trusted(t)' => Trusted(t) \/ pc[t] = "idle"
  BY <1>4 DEF Trusted, Quiet
<1>6. FlagsOK'
  <2>1. phase' \in BOOLEAN /\ lit' \in BOOLEAN
    BY DEF Handler, HandlerRestarts, HandlerBlinks
  <2>2. QED
    BY <1>1, <1>4, <2>1 DEF IInv, FlagsOK
<1>7. DomainsOK'
  BY <1>1, <1>3, HalfIs DEF IInv, DomainsOK
<1>8. InTurn'
  BY <1>1, <1>4 DEF IInv, InTurn, Resolving, Quiet, Threads
<1>9. PatternsKnown' /\ TailsCounted' /\ BusStands' /\ StaticStands'
  BY <1>1, <1>2, <1>5 DEF IInv, PatternsKnown, TailsCounted, BusStands, StaticStands, Half, After
<1>10. RestartKnown'
  <2>1. \A t \in Threads : Trusted(t) => pc[t] \notin {"apply", "schedule"}
    BY <1>1 DEF IInv, RestartKnown, None
  <2>2. ASSUME NEW t \in Threads, Trusted(t), pc[t] \in Restarting, Half(p[t]) = None
        PROVE  current' = p[t]
    BY <1>1, <2>2 DEF IInv, StaticStands, After, Restarting
  <2>3. QED
    BY <1>1, <1>5, <2>1, <2>2 DEF RestartKnown, Half, Restarting
<1>11. Attended'
  BY <1>1 DEF Attended, Half
<1>12. QED
  BY <1>6, <1>7, <1>8, <1>9, <1>10, <1>11 DEF IInv

\* A tick preserves the invariant: it ends tails, and begins none.
LEMMA TimeStep ==
  ASSUME IInv, Idle <= Word \div 2, TimePasses
  PROVE  IInv'
<1>1. /\ UNCHANGED <<connected, fault, depth, current, phase, shown, lit, pc, p, crossed>>
      /\ ahead' = [a \in Activities |-> IF ahead[a] > -Idle THEN ahead[a] - 1 ELSE ahead[a]]
      /\ tail' = [a \in Activities |-> IF tail[a] < Hold THEN tail[a] + 1 ELSE tail[a]]
      /\ due' = IF due > 0 THEN due - 1 ELSE due
      /\ due # 0
  BY DEF TimePasses, HandlerReady
<1>2. /\ ahead \in [Activities -> (-Idle)..Hold] /\ tail \in [Activities -> 0..Hold]
      /\ due \in {None, 0} \cup 0..FastHalf \cup 0..SlowHalf
  BY DEF IInv, DomainsOK
<1>3. /\ ahead' \in [Activities -> (-Idle)..Hold]
      /\ \A a \in Activities : ahead'[a] <= ahead[a] /\ (tail[a] = Hold => tail'[a] = Hold)
  <2>1. ASSUME NEW a \in Activities
        PROVE  /\ ahead'[a] \in (-Idle)..Hold /\ ahead'[a] <= ahead[a]
               /\ tail[a] = Hold => tail'[a] = Hold
    <3>1. /\ ahead'[a] = IF ahead[a] > -Idle THEN ahead[a] - 1 ELSE ahead[a]
          /\ tail'[a] = IF tail[a] < Hold THEN tail[a] + 1 ELSE tail[a]
      BY <1>1
    <3>2. ahead[a] \in (-Idle)..Hold /\ tail[a] \in 0..Hold
      BY <1>2
    <3>3. QED
      BY <3>1, <3>2, Constants
  <2>2. QED
    BY <1>1, <2>1
<1>4. tail' \in [Activities -> 0..Hold]
  BY <1>1, <1>2, Constants
<1>5. due' \in {None, 0} \cup 0..FastHalf \cup 0..SlowHalf /\ (due' = None <=> due = None)
  BY <1>1, <1>2, Constants DEF None
<1>6. FlagsOK' /\ InTurn' /\ PatternsKnown'
  BY <1>1 DEF IInv, FlagsOK, InTurn, Resolving, PatternsKnown
<1>7. DomainsOK'
  BY <1>1, <1>3, <1>4, <1>5 DEF IInv, DomainsOK
<1>8. TailsCounted'
  <2>1. ASSUME NEW a \in Activities
        PROVE  tail'[a] = Hold - ahead'[a] \/ (tail'[a] = Hold /\ ahead'[a] <= 0)
    <3>1. /\ ahead'[a] = IF ahead[a] > -Idle THEN ahead[a] - 1 ELSE ahead[a]
          /\ tail'[a] = IF tail[a] < Hold THEN tail[a] + 1 ELSE tail[a]
      BY <1>1
    <3>2. ahead[a] \in (-Idle)..Hold /\ tail[a] \in 0..Hold
      BY <1>2
    <3>3. tail[a] = Hold - ahead[a] \/ (tail[a] = Hold /\ ahead[a] <= 0)
      BY DEF IInv, TailsCounted
    <3>4. QED
      BY <3>1, <3>2, <3>3, Constants
  <2>2. QED
    BY <2>1 DEF TailsCounted
<1>9. BusStands'
  <2>1. BusIsOver => BusIsOver'
    BY <1>1, <1>3 DEF BusIsOver, Activities
  <2>2. QED
    BY <1>1, <2>1 DEF IInv, BusStands, Trusted
<1>10. ASSUME NEW pattern \in Patterns, Half(pattern) = None, Resolved = pattern
       PROVE  Resolved' = pattern
  <2>1. \A a \in Activities : LayerActive(a) <=> depth[a] > 0 \/ ahead[a] > 0
    BY LayerActiveIs DEF IInv
  <2>2. \A a \in Activities : LayerActive(a)' <=> depth'[a] > 0 \/ ahead'[a] > 0
    <3>1. ASSUME NEW a \in Activities
          PROVE  LayerActive(a)' <=> depth'[a] > 0 \/ ahead'[a] > 0
      <4>1. ahead'[a] \in (-Idle)..Hold
        BY <1>3
      <4>2. Signed(ahead'[a]) = ahead'[a]
        BY <4>1, SignedIs
      <4>3. QED
        BY <4>2 DEF LayerActive, Signed
    <3>2. QED
      BY <3>1
  <2>3. \A a \in Activities : ~LayerActive(a) => ~LayerActive(a)'
    BY <1>1, <1>2, <1>3, <2>1, <2>2, Constants
  <2>4. pattern \in {"fault", "connected"}
    BY <1>10, HalfIs
  <2>5. QED
    BY <1>1, <1>10, <2>3, <2>4 DEF Resolved, Strongest, Activities
<1>11. StaticStands'
  BY <1>1, <1>10 DEF IInv, StaticStands, PatternsKnown, Trusted, Half
<1>12. RestartKnown' /\ Attended'
  BY <1>1, <1>5 DEF IInv, RestartKnown, Attended, Trusted, Half
<1>13. QED
  BY <1>6, <1>7, <1>8, <1>9, <1>11, <1>12 DEF IInv

\* The invariant holds in every reachable state.
LEMMA Inductive ==
  ASSUME Idle <= Word \div 2
  PROVE  Spec => []IInv
<1>1. Init => IInv
  BY InitIInv
<1>2. IInv /\ [Next]_vars => IInv'
  <2> SUFFICES ASSUME IInv, [Next]_vars PROVE IInv'
    OBVIOUS
  <2>1. CASE UNCHANGED vars
    BY <2>1, Stutters
  <2>2. CASE Next
    <3>1. CASE \/ \E c \in BOOLEAN : SetConnected("detector", c)
               \/ SetConnected("main", TRUE)
               \/ \E f \in BOOLEAN : SetFault(f)
               \/ \E a \in Activities : ActivityBegin(a) \/ ActivityEnd(a)
      <4>1. \/ \E t \in Threads, c \in BOOLEAN : SetConnected(t, c)
            \/ \E f \in BOOLEAN : SetFault(f)
            \/ \E a \in Activities : ActivityBegin(a) \/ ActivityEnd(a)
        BY <3>1 DEF Threads
      <4>2. QED
        BY <4>1, CallsStep
    <3>2. CASE MainSteps \/ DetectorSteps
      BY <3>2, StepsStep DEF MainSteps, DetectorSteps, Threads
    <3>3. QED
      BY <2>2, <3>1, <3>2, HandlerStep, TimeStep DEF Next
  <2>3. QED
    BY <2>1, <2>2
<1>3. QED
  BY <1>1, <1>2, PTL DEF Spec

-----------------------------------------------------------------------------
(* The theorems.                                                            *)

\* Every variable of the indication keeps its domain, stray ends included.
THEOREM TypeCorrect ==
  ASSUME Idle <= Word \div 2
  PROVE  Spec => []TypeOK
<1>1. IInv => TypeOK
  BY DEF IInv, FlagsOK, DomainsOK, TypeOK
<1>2. QED
  BY <1>1, Inductive, PTL

\* Between calls nothing that blinks, or that shows an older pattern, is left without
\* work pending that will see to it, whatever the two threads did, as long as none of
\* the interpreter's calls fell between the detector's resolving and its restart.
THEOREM PatternsAreAttended ==
  ASSUME Idle <= Word \div 2
  PROVE  Spec => []PatternIsAlive
<1>1. IInv => PatternIsAlive
  BY DEF IInv, Attended, PatternIsAlive, Quiet, Restarting
<1>2. QED
  BY <1>1, Inductive, PTL

\* A transaction stays visible for its hold, however short it was: only a fault, or the
\* older pattern of a call of the detector's that the interpreter has crossed, takes it
\* off the pins.
THEOREM TailsAreVisible ==
  ASSUME Idle <= Word \div 2
  PROVE  Spec => TailIsVisible
<1>1. ASSUME IInv, Next, shown = "bus", shown' # "bus"
      PROVE  \/ fault \/ (depth["bus"] = 0 /\ tail["bus"] = Hold)
             \/ crossed /\ pc["detector"] = "apply"
  <2>1. CASE Handler
    <3>1. shown' = Resolved
      BY <2>1 DEF Handler, HandlerRestarts, HandlerBlinks
    <3>2. QED
      BY <1>1, <3>1, ResolvedIs DEF BusIsOver
  <2>2. ASSUME NEW t \in Threads, Step(t)
        PROVE  \/ fault \/ (depth["bus"] = 0 /\ tail["bus"] = Hold)
               \/ crossed /\ pc["detector"] = "apply"
    <3>1. RestartApplies(t)
      BY <1>1, <2>2 DEF Step, RefreshResolves, RefreshCompares, RestartCurrent, RestartCancels,
            RestartSchedules, led
    <3>2. pc[t] = "apply" /\ p[t] # "bus"
      BY <1>1, <3>1 DEF RestartApplies, At
    <3>3. CASE Trusted(t)
      BY <1>1, <3>2, <3>3 DEF IInv, BusStands, BusIsOver, After
    <3>4. CASE ~Trusted(t)
      BY <3>2, <3>4 DEF Trusted, Threads
    <3>5. QED
      BY <3>3, <3>4
  <2>3. QED
    BY <1>1, <2>1, <2>2 DEF Next, MainSteps, DetectorSteps, Threads, SetConnected, SetFault,
          ActivityBegin, ActivityEnd, TimePasses, led
<1>2. IInv /\ [Next]_vars
      => [shown = "bus" /\ shown' # "bus"
          => \/ fault \/ (depth["bus"] = 0 /\ tail["bus"] = Hold)
             \/ crossed /\ pc["detector"] = "apply"]_vars
  BY <1>1
<1>3. QED
  BY <1>2, Inductive, PTL DEF Spec, TailIsVisible
=============================================================================
