-------------------------------- MODULE Bus --------------------------------
(***************************************************************************)
(* The target detector (mdioprobe_bus.c).                                   *)
(*                                                                         *)
(* A thread polls the idle level of MDIO, classifies it into a logic rail,  *)
(* debounces presence and drives the "connected" indication.  The           *)
(* interpreter thread concurrently declares a rail by hand and brackets its *)
(* own transactions with the inhibit counter.  A poll is split where the    *)
(* code can be preempted: the inhibit check, the 64-conversion burst, the   *)
(* locked status update, and the indication computed after the unlock.      *)
(*                                                                         *)
(* An API call is one step, except a master transaction, which lasts from   *)
(* InhibitOn to InhibitOff: the interpreter is the only caller, it does not *)
(* block inside these calls, and the detector has the lower priority.  The  *)
(* detector may still run inside a transaction here, which the scheduler    *)
(* allows only for the conversion in flight: a superset of the code.        *)
(***************************************************************************)
EXTENDS Integers

CONSTANTS
    Levels,     \* voltages, in mV, the idle line may sit at
    Total,      \* conversions in a burst (IDLE_SAMPLES)
    MaxSpoilt   \* conversions traffic may pull off the rail in one burst

BusRails   == {1800, 2500, 3300}
MinPresent == 1500          \* BUS_MIN_PRESENT_MV
TolPermil  == 137           \* BUS_VNOM_TOL_PERMIL
BusStreak  == 2             \* BUS_STREAK

\* Samples that must cluster at the peak before a burst means anything.
MinUsed == LET quarter == Total \div 4 IN IF quarter < 2 THEN 2 ELSE quarter

ASSUME BusAssumption ==
    /\ Levels \subseteq Nat
    /\ Total \in Nat
    /\ MaxSpoilt \in Nat
    /\ Total - MaxSpoilt >= MinUsed   \* traffic leaves enough of the burst alone

VARIABLES
    wire,           \* idle level of MDIO, in mV (the target, not the program)
    status,         \* struct mdioprobe_bus_status
    forced_mv,      \* rail declared by hand, 0 for auto-detection
    inhibit_depth,  \* the master owns the wire while positive
    conn_streak,
    disc_streak,
    pc,             \* where the poll is
    reading,        \* what the burst in progress returned
    led_arg,        \* argument of the set_connected() call being made
    connected,      \* led.c: the connected layer
    boot,           \* polls bus_start() still has to make itself
    clean,          \* history: nothing disturbed the burst in progress
    steady,         \* history: undisturbed polls since the line last moved, up to 2
    seen            \* history: verdicts of the last two polls, the older one first

Presence == INSTANCE Debounce WITH present <- status.target_present

detector == <<status, conn_streak, disc_streak>>
history  == <<clean, steady, seen>>
vars == <<wire, status, forced_mv, inhibit_depth, conn_streak, disc_streak, pc,
          reading, led_arg, connected, boot, clean, steady, seen>>

-----------------------------------------------------------------------------
(* Classification of a level.                                               *)

RailLow(rail)  == (rail * (1000 - TolPermil) + 999) \div 1000
RailHigh(rail) == (rail * (1000 + TolPermil)) \div 1000

RailMatches(mv, rail) == RailLow(rail) <= mv /\ mv <= RailHigh(rail)

\* The first rail, lowest first, whose window holds the level; -1 for none.
Classify(mv) ==
    IF RailMatches(mv, 1800) THEN 1800
    ELSE IF RailMatches(mv, 2500) THEN 2500
    ELSE IF RailMatches(mv, 3300) THEN 3300
    ELSE -1

\* mutant of Sane: the boundary count is refused.
SaneStrict(r) == ~r.err /\ r.mv > 0 /\ r.used > MinUsed

Sane(r) == ~r.err /\ r.mv > 0 /\ r.used >= MinUsed

\* The rail a burst shows, or -1: the poll's verdict.
RailOf(r) == IF Sane(r) /\ r.mv >= MinPresent THEN Classify(r.mv) ELSE -1

NoReading == [err |-> TRUE, mv |-> -1, used |-> 0]

Readings == [err : {FALSE}, mv : Levels, used : 1..Total]

\* A burst nothing disturbed peaks at the line's idle level.
CleanReadings == {r \in Readings : r.mv = wire /\ r.used >= Total - MaxSpoilt}

-----------------------------------------------------------------------------
(* What the rest of the firmware asks the detector.                         *)

Ready == status.target_present \/ forced_mv # 0

NominalMv ==
    IF forced_mv # 0 THEN forced_mv
    ELSE IF status.target_present THEN status.nominal_mv ELSE -1

-----------------------------------------------------------------------------
\* struct mdioprobe_bus_status.
Statuses == [target_present : BOOLEAN, level_forced : BOOLEAN,
             nominal_mv : BusRails \cup {-1}, measured_mv : Levels \cup {-1}]

StartStatus ==
    [target_present |-> FALSE, level_forced |-> FALSE, nominal_mv |-> -1, measured_mv |-> -1]

Init ==
    /\ wire \in Levels
    /\ status = StartStatus
    /\ forced_mv = 0
    /\ inhibit_depth = 0
    /\ conn_streak = 0
    /\ disc_streak = 0
    /\ pc = "sleep"
    /\ reading = NoReading
    /\ led_arg = FALSE
    /\ connected = FALSE
    /\ boot = 2
    /\ clean = FALSE
    /\ steady = 0
    /\ seen = <<"none", "none">>

-----------------------------------------------------------------------------
(* The poll.                                                                *)

\* bus_update() up to the burst; under inhibit it returns at once and changes
\* nothing, which is a stuttering step.
PollBegin ==
    /\ pc = "sleep"
    /\ inhibit_depth = 0
    /\ pc' = "burst"
    /\ clean' = TRUE
    /\ UNCHANGED <<wire, detector, forced_mv, inhibit_depth, reading, led_arg, connected,
                   boot, steady, seen>>

\* The burst returns.  A line that moved, or that the master drove, while it
\* ran may read as anything.
BurstDone ==
    /\ pc = "burst"
    /\ pc' = "update"
    /\ reading' \in IF clean THEN CleanReadings ELSE Readings
    /\ UNCHANGED <<wire, detector, forced_mv, inhibit_depth, led_arg, connected, boot, history>>

\* A conversion fails and the burst is abandoned.
BurstFails ==
    /\ pc = "burst"
    /\ pc' = "update"
    /\ reading' = NoReading
    /\ clean' = FALSE
    /\ UNCHANGED <<wire, detector, forced_mv, inhibit_depth, led_arg, connected, boot, steady, seen>>

Saturate(streak) == IF streak < BusStreak THEN streak + 1 ELSE streak

ConnStreak(classified) == IF classified THEN Saturate(conn_streak) ELSE 0

\* mutant of DiscStreak: a good poll does not break a run of bad ones.
DiscStreakKept(classified) == IF classified THEN disc_streak ELSE Saturate(disc_streak)

DiscStreak(classified) == IF classified THEN 0 ELSE Saturate(disc_streak)

\* Presence after a poll whose streaks are now conn and disc.
Debounced(was_present, conn, disc) ==
    IF ~was_present /\ conn >= BusStreak THEN TRUE
    ELSE IF was_present /\ disc >= BusStreak THEN FALSE
    ELSE was_present

\* mutant of PublishedRail: the rail is latched when the target appears.
LatchedRail(present, rail) ==
    IF forced_mv # 0 THEN forced_mv
    ELSE IF ~present THEN -1
    ELSE IF status.target_present THEN status.nominal_mv ELSE rail

\* The nominal rail a poll publishes.
PublishedRail(present, rail) ==
    IF forced_mv # 0 THEN forced_mv ELSE IF present THEN rail ELSE -1

\* The locked section of bus_update().
Update ==
    /\ pc = "update"
    /\ LET rail       == RailOf(reading)
           classified == rail # -1
           present    == Debounced(status.target_present, ConnStreak(classified),
                                   DiscStreak(classified))
       IN  /\ conn_streak' = ConnStreak(classified)
           /\ disc_streak' = DiscStreak(classified)
           /\ status' = [target_present |-> present,
                         level_forced   |-> forced_mv # 0,
                         nominal_mv     |-> PublishedRail(present, rail),
                         measured_mv    |-> IF Sane(reading) THEN reading.mv ELSE -1]
           /\ seen' = <<seen[2], IF classified THEN "hit" ELSE "miss">>
    /\ steady' = IF ~clean THEN 0 ELSE IF steady < 2 THEN steady + 1 ELSE steady
    /\ clean' = FALSE
    /\ reading' = NoReading
    /\ pc' = "led"
    /\ UNCHANGED <<wire, forced_mv, inhibit_depth, led_arg, connected, boot>>

\* mutant of LedWanted: a rail declared by hand does not count.
LedWantedUnforced == status.target_present

\* The indication a poll asks for, from its own presence and the rail forced now.
LedWanted == status.target_present \/ forced_mv # 0

\* The argument of set_connected() is computed with the mutex already released...
LedArgument ==
    /\ pc = "led"
    /\ pc' = "connect"
    /\ led_arg' = LedWanted
    /\ UNCHANGED <<wire, detector, forced_mv, inhibit_depth, reading, connected, boot, history>>

\* ...and the call takes effect later.
LedSet ==
    /\ pc = "connect"
    /\ pc' = "sleep"
    /\ connected' = led_arg
    /\ led_arg' = FALSE
    /\ boot' = IF boot > 0 THEN boot - 1 ELSE 0
    /\ UNCHANGED <<wire, detector, forced_mv, inhibit_depth, reading, history>>

Poll == PollBegin \/ BurstDone \/ BurstFails \/ Update \/ LedArgument \/ LedSet

-----------------------------------------------------------------------------
(* The interpreter thread, once bus_start() has returned.                    *)

\* What a declared rail does to the status it is written into.
ForcedStatus(mv) ==
    [target_present |-> status.target_present,
     level_forced   |-> mv # 0,
     nominal_mv     |-> IF mv # 0 THEN mv ELSE status.nominal_mv,
     measured_mv    |-> status.measured_mv]

\* mdioprobe_bus_force_level(): anything but a rail or 0 is -EINVAL.
ForceLevel(mv) ==
    /\ boot = 0
    /\ inhibit_depth = 0
    /\ mv \in BusRails \cup {0}
    /\ forced_mv' = mv
    /\ status' = ForcedStatus(mv)
    /\ connected' = (connected \/ mv # 0)
    /\ UNCHANGED <<wire, inhibit_depth, conn_streak, disc_streak, pc, reading, led_arg, boot, history>>

InhibitOn ==
    /\ boot = 0
    /\ inhibit_depth = 0
    /\ inhibit_depth' = inhibit_depth + 1
    /\ clean' = (clean /\ pc # "burst")
    /\ UNCHANGED <<wire, detector, forced_mv, pc, reading, led_arg, connected, boot, steady, seen>>

InhibitOff ==
    /\ inhibit_depth > 0
    /\ inhibit_depth' = inhibit_depth - 1
    /\ UNCHANGED <<wire, detector, forced_mv, pc, reading, led_arg, connected, boot, history>>

\* The target is attached, removed, or changes its rail.
WireMoves ==
    /\ wire' \in Levels \ {wire}
    /\ clean' = FALSE
    /\ steady' = 0
    /\ UNCHANGED <<detector, forced_mv, inhibit_depth, pc, reading, led_arg, connected, boot, seen>>

-----------------------------------------------------------------------------
Next ==
    \/ Poll
    \/ \E mv \in BusRails \cup {0} : ForceLevel(mv)
    \/ InhibitOn
    \/ InhibitOff
    \/ WireMoves

\* The detector thread is always scheduled again; nobody else has to move.
Spec == Init /\ [][Next]_vars /\ WF_vars(Poll)

-----------------------------------------------------------------------------
\* Every variable stays in its domain; in particular the published rail is a
\* standard one or -1, and neither streak runs past the threshold (uint8_t).
TypeOK ==
    /\ wire \in Levels
    /\ status \in Statuses
    /\ forced_mv \in BusRails \cup {0}
    /\ inhibit_depth \in 0..1
    /\ conn_streak \in 0..BusStreak
    /\ disc_streak \in 0..BusStreak
    /\ pc \in {"sleep", "burst", "update", "led", "connect"}
    /\ reading \in Readings \cup {NoReading}
    /\ led_arg \in BOOLEAN
    /\ connected \in BOOLEAN
    /\ boot \in 0..2
    /\ clean \in BOOLEAN
    /\ steady \in 0..2
    /\ seen \in {"hit", "miss", "none"} \X {"hit", "miss", "none"}

HoldsARail(mv) == mv >= MinPresent /\ Classify(mv) # -1

\* Two polls in a row that nothing disturbed settle presence, whatever the
\* detector believed before, whatever was forced meanwhile and however often the
\* master transacted: present exactly if the line sits at a logic rail.
SettledPresence == steady = 2 => status.target_present = HoldsARail(wire)

\* The presence indication is a two-poll debounce of the poll verdicts.
PresenceIsDebounced == Presence!Spec

\* A rail that is wrong although the line is steady does not stay wrong: the next
\* undisturbed poll replaces it, unless something disturbs the polls again.
StaleRailIsReplaced ==
    (steady = 2 /\ forced_mv = 0)
        ~> \/ NominalMv = IF HoldsARail(wire) THEN Classify(wire) ELSE -1
           \/ steady < 2 \/ forced_mv # 0 \/ inhibit_depth > 0

\* The connected indication never stays at odds with the detector: a stale
\* set_connected() call is corrected, unless the master holds the wire for good.
LedFollowsDetector == []<>(connected = Ready \/ inhibit_depth > 0)
=============================================================================
