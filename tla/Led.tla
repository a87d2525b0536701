--------------------------------- MODULE Led ---------------------------------
(***************************************************************************)
(* The status LED (mdioprobe_led.c).                                       *)
(*                                                                         *)
(* Layers of meaning are raised and dropped by the interpreter and by the  *)
(* detector thread, and resolved to one pattern; a delayable work item     *)
(* makes it blink and notices that an activity's tail has run out.  Nothing*)
(* is locked: a call is split where the work queue, which outranks both    *)
(* threads, can get in between.  The interpreter outranks the detector: it *)
(* may wake inside one of the detector's calls, and then runs its own to   *)
(* the end first.  The time a release may wait for the master's lock does  *)
(* not delay the LED's work: whoever holds that lock is in no call of these.*)
(***************************************************************************)
EXTENDS Integers

CONSTANTS
    Hold,       \* ACT_HOLD_MS, in ticks of the model's clock
    FastHalf,   \* half a period of the fast patterns
    SlowHalf,   \* half a period of the slow one
    Word,       \* 2^32, where the uptime wraps
    Idle,       \* how long past the end of its tail an activity is followed
    MaxDepth    \* activities begun and not ended, at a time

ASSUME LedAssumption ==
    /\ Hold \in Nat \ {0} /\ FastHalf \in Nat \ {0} /\ SlowHalf \in Nat \ {0}
    /\ Word \in Nat /\ Idle \in Nat /\ 2 * Hold < Word
    /\ MaxDepth \in Nat \ {0}

Threads    == {"main", "detector"}
Activities == {"bus", "passive"}
Patterns   == {"fault", "bus", "passive", "connected", "searching"}
None       == -1

VARIABLES
    connected, fault,
    depth,      \* act_bus, act_passive
    ahead,      \* act_bus_until, act_passive_until, counted from now
    current,    \* the pattern last started
    phase,
    due,        \* ticks until blink_work runs, None when not pending
    shown, lit, \* what apply() last put on the pins
    pc,         \* where each thread's call is
    p,          \* the pattern each thread's refresh() resolved, until it returns
    tail,       \* history: ticks since the activity last ended, up to Hold
    crossed     \* history: the interpreter has changed a layer inside a call of
                \* the detector that had resolved its pattern, and since then
                \* neither the handler between calls nor a restart by the
                \* interpreter alone has started a pattern anew

layers == <<connected, fault, depth, ahead, tail>>
led    == <<current, phase, due, shown, lit>>
vars   == <<connected, fault, depth, ahead, current, phase, due, shown, lit, pc, p, tail,
            crossed>>

-----------------------------------------------------------------------------
\* A difference of two uptimes, as the int32_t it is cast to.
Signed(n) == ((n + Word \div 2) % Word) - Word \div 2

LayerActive(a) == depth[a] > 0 \/ Signed(ahead[a]) > 0

\* resolve(): the strongest layer.
Strongest(bus, passive) ==
    IF fault THEN "fault"
    ELSE IF bus THEN "bus"
    ELSE IF passive THEN "passive"
    ELSE IF connected THEN "connected"
    ELSE "searching"

Resolved == Strongest(LayerActive("bus"), LayerActive("passive"))

\* Half the period of a pattern, None for a static one.
Half(pattern) ==
    CASE pattern \in {"bus", "passive"}     -> FastHalf
      [] pattern = "searching"              -> SlowHalf
      [] pattern \in {"fault", "connected"} -> None

-----------------------------------------------------------------------------
\* mdioprobe_led_init() has returned.
Init ==
    /\ connected = FALSE /\ fault = FALSE
    /\ depth = [a \in Activities |-> 0]
    /\ ahead = [a \in Activities |-> 0]
    /\ current = "searching" /\ phase = TRUE /\ due = SlowHalf
    /\ shown = "searching" /\ lit = TRUE
    /\ pc = [t \in Threads |-> "idle"]
    /\ p = [t \in Threads |-> "none"]
    /\ tail = [a \in Activities |-> Hold]
    /\ crossed = FALSE

\* The work queue has something to run: nobody else does.
HandlerReady == due = 0

\* Thread t is at a point of its call, and is the one that runs.
At(t, point) ==
    /\ pc[t] = point
    /\ ~HandlerReady
    /\ t = "detector" => pc["main"] = "idle"

\* Thread t may call, the interpreter also inside a call of the detector.
MayCall(t) == At(t, "idle")

\* The detector goes by what it has resolved before.
Resolving == pc["detector"] \notin {"idle", "refresh"}
Crosses(t) == crossed' = (crossed \/ (t = "main" /\ Resolving))

Quiet == \A t \in Threads : pc[t] = "idle"

Goes(t, point) == pc' = [pc EXCEPT ![t] = point]
Returns(t)     == Goes(t, "idle") /\ p' = [p EXCEPT ![t] = "none"]

-----------------------------------------------------------------------------
(* The calls: a layer changes, and the pattern is refreshed.                *)

SetConnected(t, c) ==
    /\ MayCall(t)
    /\ connected # c
    /\ connected' = c
    /\ Goes(t, "refresh") /\ Crosses(t)
    /\ UNCHANGED <<fault, depth, ahead, tail, led, p>>

SetFault(f) ==
    /\ MayCall("main")
    /\ fault # f
    /\ fault' = f
    /\ Goes("main", "refresh") /\ Crosses("main")
    /\ UNCHANGED <<connected, depth, ahead, tail, led, p>>

\* Only the first holder refreshes.
ActivityBegin(a) ==
    /\ MayCall("main")
    /\ depth["bus"] + depth["passive"] < MaxDepth
    /\ depth' = [depth EXCEPT ![a] = @ + 1] /\ Crosses("main")
    /\ IF depth[a] = 0 THEN Goes("main", "refresh") ELSE UNCHANGED pc
    /\ UNCHANGED <<connected, fault, ahead, tail, led, p>>

\* mutant of HoldFrom: the tail is not armed.
HoldNot(a) == ahead[a]

\* Where an activity's hold ends, from now.
HoldFrom(a) == Hold

DepthAfterEnd(a) == IF depth[a] <= 0 THEN depth[a] ELSE depth[a] - 1

\* A stray end() changes nothing; the last holder refreshes.
ActivityEnd(a) ==
    /\ MayCall("main")
    /\ depth' = [depth EXCEPT ![a] = DepthAfterEnd(a)]
    /\ IF depth[a] > 0
       THEN /\ ahead' = [ahead EXCEPT ![a] = HoldFrom(a)] /\ tail' = [tail EXCEPT ![a] = 0]
            /\ Crosses("main")
       ELSE UNCHANGED <<ahead, tail, crossed>>
    /\ IF depth[a] = 1 THEN Goes("main", "refresh") ELSE UNCHANGED pc
    /\ UNCHANGED <<connected, fault, led, p>>

-----------------------------------------------------------------------------
(* refresh() and restart().                                                  *)

\* mutant of Same: every refresh starts the pattern again.
NeverSame(a, b) == FALSE

Same(a, b) == a = b

RefreshResolves(t) ==
    /\ At(t, "refresh")
    /\ p' = [p EXCEPT ![t] = Resolved]
    /\ Goes(t, "compare")
    /\ UNCHANGED <<layers, led, crossed>>

RefreshCompares(t) ==
    /\ At(t, "compare")
    /\ \/ Same(p[t], current) /\ Returns(t)
       \/ ~Same(p[t], current) /\ Goes(t, "current") /\ UNCHANGED p
    /\ UNCHANGED <<layers, led, crossed>>

RestartCurrent(t) ==
    /\ At(t, "current")
    /\ current' = p[t]
    /\ phase' = TRUE
    /\ Goes(t, "cancel")
    /\ UNCHANGED <<layers, due, shown, lit, p, crossed>>

RestartCancels(t) ==
    /\ At(t, "cancel")
    /\ due' = None
    /\ Goes(t, "apply")
    /\ UNCHANGED <<layers, current, phase, shown, lit, p, crossed>>

RestartApplies(t) ==
    /\ At(t, "apply")
    /\ shown' = p[t]
    /\ lit' = TRUE
    /\ Goes(t, "schedule")
    /\ UNCHANGED <<layers, current, phase, due, p, crossed>>

\* mutant of Rescheduled: a pattern that blinks is left to itself.
NotRescheduled(pattern) == due

\* When blink_work runs next, once a pattern has been started.
Rescheduled(pattern) == IF Half(pattern) # None THEN Half(pattern) ELSE due

RestartSchedules(t) ==
    /\ At(t, "schedule")
    /\ due' = Rescheduled(p[t])
    /\ Returns(t)
    /\ crossed' = (crossed /\ (t = "detector" \/ Resolving))
    /\ UNCHANGED <<layers, current, phase, shown, lit>>

Step(t) ==
    \/ RefreshResolves(t) \/ RefreshCompares(t)
    \/ RestartCurrent(t) \/ RestartCancels(t) \/ RestartApplies(t) \/ RestartSchedules(t)

-----------------------------------------------------------------------------
(* blink_work_handler(); nothing preempts it.                                *)

\* The pattern changed while nobody called: a tail has run out.
HandlerRestarts ==
    /\ due = 0
    /\ Resolved # current
    /\ current' = Resolved
    /\ phase' = TRUE
    /\ shown' = Resolved /\ lit' = TRUE
    /\ due' = Half(Resolved)
    /\ UNCHANGED <<layers, pc, p>>

HandlerBlinks ==
    /\ due = 0
    /\ Resolved = current
    /\ phase' = ~phase
    /\ shown' = current /\ lit' = ~phase
    /\ due' = Half(current)
    /\ UNCHANGED <<layers, current, pc, p>>

Handler == (HandlerRestarts \/ HandlerBlinks) /\ crossed' = (crossed /\ ~Quiet)

\* A tick of the uptime; a handler that is due runs first.
TimePasses ==
    /\ ~HandlerReady
    /\ ahead' = [a \in Activities |-> IF ahead[a] > -Idle THEN ahead[a] - 1 ELSE ahead[a]]
    /\ tail' = [a \in Activities |-> IF tail[a] < Hold THEN tail[a] + 1 ELSE tail[a]]
    /\ due' = IF due > 0 THEN due - 1 ELSE due
    /\ UNCHANGED <<connected, fault, depth, current, phase, shown, lit, pc, p, crossed>>

-----------------------------------------------------------------------------
MainSteps     == Step("main")
DetectorSteps == Step("detector")

Next ==
    \/ \E c \in BOOLEAN : SetConnected("detector", c)
    \/ SetConnected("main", TRUE)
    \/ \E f \in BOOLEAN : SetFault(f)
    \/ \E a \in Activities : ActivityBegin(a) \/ ActivityEnd(a)
    \/ MainSteps
    \/ DetectorSteps
    \/ Handler
    \/ TimePasses

\* Calls in progress go on, due work runs, time passes; nobody has to call.
Spec ==
    /\ Init /\ [][Next]_vars
    /\ WF_vars(MainSteps) /\ WF_vars(DetectorSteps) /\ WF_vars(Handler) /\ WF_vars(TimePasses)

-----------------------------------------------------------------------------
\* Every variable stays in its domain; no stray end() makes a depth negative.
TypeOK ==
    /\ connected \in BOOLEAN /\ fault \in BOOLEAN /\ crossed \in BOOLEAN
    /\ depth \in [Activities -> 0..MaxDepth]
    /\ ahead \in [Activities -> (-Idle)..Hold]
    /\ tail \in [Activities -> 0..Hold]
    /\ current \in Patterns /\ shown \in Patterns
    /\ phase \in BOOLEAN /\ lit \in BOOLEAN
    /\ due \in {None, 0} \cup 0..FastHalf \cup 0..SlowHalf
    /\ pc \in [Threads -> {"idle", "refresh", "compare", "current", "cancel", "apply", "schedule"}]
    /\ p \in [Threads -> Patterns \cup {"none"}]

\* Between calls, with no work pending, the pins show the pattern last started and it is
\* a static one: whatever blinks, or is not what was last started, will be seen to.  That
\* is so until calls of the two threads cross.
PatternIsAlive ==
    Quiet /\ due = None /\ ~crossed => Half(current) = None /\ shown = current

\* The pattern the layers ask for, by the time since each activity ended.
Truth == Strongest(depth["bus"] > 0 \/ tail["bus"] < Hold,
                   depth["passive"] > 0 \/ tail["passive"] < Hold)

\* Every transaction is seen: red is not taken off the pins before the tail of the
\* last one has run out, unless for a fault, or by a call of the detector that the
\* transaction has crossed.
TailIsVisible ==
    [][shown = "bus" /\ shown' # "bus"
       => \/ fault \/ (depth["bus"] = 0 /\ tail["bus"] = Hold)
          \/ crossed /\ pc["detector"] = "apply"]_vars

\* What two crossing calls may leave behind: nothing pending, and perhaps an older
\* pattern on the pins than the one that is taken to be there.
LeftBehind == <>[](crossed /\ due = None)

\* Layers that keep asking for a pattern get it, whoever raised them and whatever was
\* being refreshed at the time: also where calls have crossed, as long as these have
\* left any work pending.
ShowsTheTruth ==
    \A pattern \in Patterns : <>[](Truth = pattern) => <>[](shown = pattern) \/ LeftBehind

\* A stream of transactions blinks: it is not held in one phase, which would say fault.
StreamBlinks == <>[](Truth = "bus") => ([]<>lit /\ []<>~lit) \/ LeftBehind

\* "Signed difference so the comparison survives the 32-bit ms wrap": an activity whose
\* tail has run out is over for good.
EndedIsOver ==
    \A a \in Activities : depth[a] = 0 /\ tail[a] = Hold => ~LayerActive(a)

\* "safe to call from the capture loop, a detector thread or an API function": with no
\* call in progress and no work pending, the pins show what the layers ask for.
StaticIsTruthful ==
    Quiet /\ due = None => shown = Truth
=============================================================================
