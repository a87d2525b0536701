------------------------------- MODULE Master -------------------------------
(***************************************************************************)
(* The MDIO master and the connector it shares its pads with                *)
(* (mdioprobe_mdio_master.c, mdioprobe_serial.c).                           *)
(*                                                                         *)
(* Two threads touch the MDC buffer: the interpreter, which makes one API   *)
(* call at a time, and the system work queue, which drops the buffer after  *)
(* a spell of quiet.  The work queue has the higher priority: the           *)
(* interpreter takes a step only while the handler has nothing it could do. *)
(* Interrupts, and with them the queue, are locked out for the length of a  *)
(* frame and of a timing run.                                               *)
(***************************************************************************)
EXTENDS Integers

CONSTANTS
    Linger,     \* MDC_BUFFER_LINGER_MS
    Settle,     \* MDC_BUFFER_SETTLE_US, in ms
    TrimRounds  \* TRIM_ROUNDS

ASSUME MasterAssumption ==
    /\ Linger \in Nat \ {0}
    /\ Settle \in Nat \ {0}
    /\ Settle <= Linger
    /\ TrimRounds \in Nat \ {0}

Modes == {"mdio", "uart", "i2c"}
None  == -1
CalRuns == 2    \* calibrate_bit_loop() times two points

VARIABLES
    pc,          \* where the interpreter's call is
    job,         \* the call in progress
    want_mode,   \* the personality a set_mode call asks for
    rounds,      \* timing runs the call may still make
    lock,        \* master_lock: "free" or "main"
    initialised,
    calibrated,  \* cal_slope_num > 0
    buffer_on,
    mdc_en,      \* the enable pin of the MDC buffer
    age,         \* ms since last_use_ms, up to Linger
    due,         \* ms until buffer_release_work runs, None when not pending
    waiting,     \* the handler is blocked on master_lock
    current_mode,
    pb8, pb9,    \* who drives the shared pads
    quiet        \* history: ms since a transaction last used the bus, up to Linger + 1

call    == <<pc, job, want_mode, rounds>>
setup   == <<initialised, calibrated>>
buffer  == <<buffer_on, mdc_en>>
timers  == <<age, due, quiet>>
pads    == <<current_mode, pb8, pb9>>
vars == <<pc, job, want_mode, rounds, lock, initialised, calibrated, buffer_on, mdc_en, age, due,
          waiting, current_mode, pb8, pb9, quiet>>

Capped(n, top) == IF n > top THEN top ELSE n

-----------------------------------------------------------------------------
Init ==
    /\ pc = "idle" /\ job = "none" /\ want_mode = "mdio" /\ rounds = 0
    /\ lock = "free"
    /\ initialised = FALSE /\ calibrated = FALSE
    /\ buffer_on = FALSE /\ mdc_en = FALSE
    /\ age = Linger /\ due = None /\ quiet = Linger + 1
    /\ waiting = FALSE
    /\ current_mode = "mdio" /\ pb8 = "analog" /\ pb9 = "analog"

\* Interrupts are off while a frame or a timing run is on.
IrqLocked == pc \in {"frame", "timing"}

\* The release handler could take a step now.
HandlerReady ==
    \/ due = 0 /\ ~IrqLocked
    \/ waiting /\ lock = "free"

\* The interpreter is at p and nothing of higher priority is runnable.
At(p) == pc = p /\ ~HandlerReady

Return == pc' = "idle" /\ job' = "none"

-----------------------------------------------------------------------------
(* buffer_release(), on the work queue.                                     *)

\* mutant of QuietLongEnough: the handler trusts that it was scheduled for a reason.
QuietOnTrust == TRUE

QuietLongEnough == age >= Linger

\* The body of the handler, under the lock.
Handle(pending) ==
    IF buffer_on /\ QuietLongEnough
    THEN buffer_on' = FALSE /\ mdc_en' = FALSE /\ due' = pending
    ELSE /\ due' = IF buffer_on THEN Linger - age ELSE pending
         /\ UNCHANGED buffer

\* mutant of HandlerMayEnter: the handler does without the lock.
HandlerBargesIn == TRUE

HandlerMayEnter == lock = "free"

\* The delay has run out.
ReleaseFires ==
    /\ due = 0
    /\ ~IrqLocked
    /\ IF HandlerMayEnter THEN Handle(None) /\ UNCHANGED waiting
                          ELSE waiting' = TRUE /\ due' = None /\ UNCHANGED buffer
    /\ UNCHANGED <<call, lock, setup, age, quiet, pads>>

\* The interpreter has let go of the lock the handler was blocked on.
ReleaseResumes ==
    /\ waiting
    /\ lock = "free"
    /\ waiting' = FALSE
    /\ Handle(due)
    /\ UNCHANGED <<call, lock, setup, age, quiet, pads>>

\* A millisecond passes; a handler that can run does so first.
TimePasses ==
    /\ ~HandlerReady
    /\ age' = Capped(age + 1, Linger)
    /\ quiet' = Capped(quiet + 1, Linger + 1)
    /\ due' = IF due > 0 THEN due - 1 ELSE due
    /\ age' # age \/ quiet' # quiet \/ due' # due
    /\ UNCHANGED <<call, lock, setup, buffer, waiting, pads>>

-----------------------------------------------------------------------------
(* transact() and mdioprobe_mdio_master_probe().                             *)

\* mutant of MasterOwnsConnector: the personality is not looked at.
AnyOwner == TRUE

\* The API refuses a frame while the connector has another personality.
MasterOwnsConnector == current_mode = "mdio"

CallTransact ==
    /\ At("idle")
    /\ MasterOwnsConnector
    /\ job' = "transact"
    /\ pc' = IF initialised THEN "lock" ELSE "init"
    /\ UNCHANGED <<want_mode, rounds, lock, setup, buffer, timers, waiting, pads>>

TakeLock ==
    /\ At("lock")
    /\ lock = "free"
    /\ lock' = "main"
    /\ pc' = IF job = "measure" THEN "time" ELSE "buffer"
    /\ UNCHANGED <<job, want_mode, rounds, setup, buffer, timers, waiting, pads>>

\* buffer_up() on a buffer that is still up from the last frame.
BufferStillUp ==
    /\ At("buffer")
    /\ buffer_on
    /\ pc' = "ready"
    /\ UNCHANGED <<job, want_mode, rounds, lock, setup, buffer, timers, waiting, pads>>

\* buffer_up() on a buffer that is down; only a regulated rail needs the settle.
BufferUp ==
    /\ At("buffer")
    /\ ~buffer_on
    /\ buffer_on' = TRUE /\ mdc_en' = TRUE
    /\ age' = 0 /\ quiet' = 0
    /\ pc' \in {"settle", "arm"}
    /\ UNCHANGED <<job, want_mode, rounds, lock, setup, due, waiting, pads>>

SettleDone ==
    /\ At("settle")
    /\ age >= Settle
    /\ pc' = "arm"
    /\ UNCHANGED <<job, want_mode, rounds, lock, setup, buffer, timers, waiting, pads>>

ReleaseDelay == Linger

ArmRelease ==
    /\ At("arm")
    /\ due' = ReleaseDelay
    /\ pc' = "ready"
    /\ UNCHANGED <<job, want_mode, rounds, lock, setup, buffer, age, quiet, waiting, pads>>

\* irq_lock(), and the pads start to move.
FrameBegin ==
    /\ At("ready")
    /\ pc' = "frame"
    /\ pb8' = "mdio"
    /\ quiet' = 0
    /\ UNCHANGED <<job, want_mode, rounds, lock, setup, buffer, age, due, waiting, current_mode, pb9>>

\* The frame is out, MDIO is released, interrupts are back.
FrameEnd ==
    /\ pc = "frame"
    /\ pc' = "stamp"
    /\ pb8' = "analog"
    /\ quiet' = 0
    /\ UNCHANGED <<job, want_mode, rounds, lock, setup, buffer, age, due, waiting, current_mode, pb9>>

\* The age a finished transaction leaves.
StampedAge == 0

Stamp ==
    /\ At("stamp")
    /\ age' = StampedAge
    /\ quiet' = 0
    /\ lock' = "free"
    /\ Return
    /\ UNCHANGED <<want_mode, rounds, setup, buffer, due, waiting, pads>>

-----------------------------------------------------------------------------
(* mdioprobe_mdio_master_init(), set_clock() and measure_clock(): all of     *)
(* them run the bit loop to time it.                                        *)

CallSetClock ==
    /\ At("idle")
    /\ initialised
    /\ calibrated
    /\ job' = "clock"
    /\ rounds' = TrimRounds
    /\ pc' = "time"
    /\ UNCHANGED <<want_mode, lock, setup, buffer, timers, waiting, pads>>

CallMeasureClock ==
    /\ At("idle")
    /\ initialised
    /\ job' = "measure"
    /\ rounds' = 1
    /\ pc' = "lock"
    /\ UNCHANGED <<want_mode, lock, setup, buffer, timers, waiting, pads>>

\* Pins first, buffer disabled; then the bit loop is calibrated.
InitPins ==
    /\ At("init")
    /\ mdc_en' = FALSE
    /\ pb8' = "analog"
    /\ \E ok \in BOOLEAN :
          /\ calibrated' = ok
          /\ rounds' = IF ok THEN CalRuns + TrimRounds ELSE CalRuns
    /\ pc' = "time"
    /\ UNCHANGED <<job, want_mode, lock, initialised, buffer_on, timers, waiting, current_mode, pb9>>

\* mutant of RoundsLeft: the loop counter does not move.
RoundsStuck == rounds

RoundsLeft == rounds - 1

\* time_bit_loop_q4(): MDIO to Analog, interrupts off, MDC toggles.
TimeBegin ==
    /\ At("time")
    /\ pc' = "timing"
    /\ pb8' = "analog"
    /\ rounds' = RoundsLeft
    /\ UNCHANGED <<job, want_mode, lock, setup, buffer, timers, waiting, current_mode, pb9>>

\* The run ends.  Calibration makes all of its runs; trim_clock() stops as soon as
\* the rate is not above the request.
TimeEnd ==
    /\ pc = "timing"
    /\ \/ rounds > 0 /\ pc' = "time"
       \/ (rounds = 0 \/ (calibrated /\ rounds < TrimRounds)) /\ pc' = "timed"
    /\ UNCHANGED <<job, want_mode, rounds, lock, setup, buffer, timers, waiting, pads>>

\* What is left to do once the timing runs are over.
Timed ==
    /\ At("timed")
    /\ rounds' = 0
    /\ lock' = "free"
    /\ initialised' = TRUE
    /\ \/ job \in {"clock", "measure"} /\ Return /\ UNCHANGED current_mode
       \/ job = "transact" /\ pc' = "lock" /\ UNCHANGED <<job, current_mode>>
       \/ job = "mode" /\ Return /\ current_mode' = "mdio"
    /\ UNCHANGED <<want_mode, calibrated, buffer, timers, waiting, pb8, pb9>>

-----------------------------------------------------------------------------
(* mdioprobe_serial_set_mode().                                              *)

CallSetMode(m) ==
    /\ At("idle")
    /\ job' = "mode"
    /\ want_mode' = m
    /\ pc' = "cancel"
    /\ UNCHANGED <<rounds, lock, setup, buffer, timers, waiting, pads>>

\* What k_work_cancel_delayable() leaves pending.
CancelledDue == None

\* mdioprobe_mdio_master_release(), in two parts...
Cancel ==
    /\ At("cancel")
    /\ due' = CancelledDue
    /\ pc' = "drop"
    /\ UNCHANGED <<job, want_mode, rounds, lock, setup, buffer, age, quiet, waiting, pads>>

\* mutant of FlagAfterRelease: the pin goes down and the flag stays up.
FlagLeftUp == buffer_on

FlagAfterRelease == FALSE

\* ...the pins and the flag.
Drop ==
    /\ At("drop")
    /\ mdc_en' = FALSE
    /\ buffer_on' = FlagAfterRelease
    /\ pb8' = "analog"
    /\ pc' = "park"
    /\ UNCHANGED <<job, want_mode, rounds, lock, setup, timers, waiting, current_mode, pb9>>

\* Both drivers' sleep states are applied; either may fail, and the call gives up.
Park ==
    /\ At("park")
    /\ \/ pb8' = "analog" /\ pb9' = "analog" /\ pc' = "switch" /\ UNCHANGED job
       \/ Return /\ UNCHANGED <<pb8, pb9>>                     \* usart3 cannot be parked
       \/ pb8' = "analog" /\ pb9' = "analog" /\ Return          \* i2c1 cannot be parked
    /\ UNCHANGED <<want_mode, rounds, lock, setup, buffer, timers, waiting, current_mode>>

\* The MDIO personality is the master's own initialisation.
SwitchToMdio ==
    /\ At("switch")
    /\ want_mode = "mdio"
    /\ pc' = "init"
    /\ UNCHANGED <<job, want_mode, rounds, lock, setup, buffer, timers, waiting, pads>>

\* A driver that is not ready, or whose pins cannot be applied, ends the call.
SwitchToSerial ==
    /\ At("switch")
    /\ want_mode # "mdio"
    /\ Return
    /\ \/ UNCHANGED pads
       \/ current_mode' = want_mode /\ pb8' = want_mode /\ pb9' = want_mode
    /\ UNCHANGED <<want_mode, rounds, lock, setup, buffer, timers, waiting>>

-----------------------------------------------------------------------------
\* A call in progress goes on.
Continue ==
    \/ TakeLock \/ BufferStillUp \/ BufferUp \/ SettleDone \/ ArmRelease
    \/ FrameBegin \/ FrameEnd \/ Stamp
    \/ InitPins \/ TimeBegin \/ TimeEnd \/ Timed
    \/ Cancel \/ Drop \/ Park \/ SwitchToMdio \/ SwitchToSerial

Handler == ReleaseFires \/ ReleaseResumes

Next ==
    \/ CallTransact
    \/ CallSetClock
    \/ CallMeasureClock
    \/ \E m \in Modes : CallSetMode(m)
    \/ Continue
    \/ Handler
    \/ TimePasses

\* Time passes, and the scheduler runs whatever is runnable; nobody has to call.
Spec == Init /\ [][Next]_vars /\ WF_vars(Continue) /\ WF_vars(Handler) /\ WF_vars(TimePasses)

-----------------------------------------------------------------------------
\* Every variable stays in its domain; no deadline lies further off than the linger.
TypeOK ==
    /\ pc \in {"idle", "lock", "buffer", "settle", "arm", "ready", "frame", "stamp", "init",
               "time", "timing", "timed", "cancel", "drop", "park", "switch"}
    /\ job \in {"none", "transact", "clock", "measure", "mode"}
    /\ want_mode \in Modes
    /\ rounds \in 0..(CalRuns + TrimRounds)
    /\ lock \in {"free", "main"}
    /\ initialised \in BOOLEAN /\ calibrated \in BOOLEAN
    /\ buffer_on \in BOOLEAN /\ mdc_en \in BOOLEAN
    /\ age \in 0..Linger /\ quiet \in 0..(Linger + 1)
    /\ due \in {None} \cup 0..Linger
    /\ waiting \in BOOLEAN
    /\ current_mode \in Modes
    /\ pb8 \in {"analog"} \cup Modes
    /\ pb9 \in {"analog", "uart", "i2c"}

\* The frame on the wire has its buffer up from the first clock to the last, in a
\* connector that is the master's: no release, wherever it fires, gets in between.
FrameIsBuffered == pc = "frame" => mdc_en /\ lock = "main" /\ current_mode = "mdio"

\* The flag a transaction trusts and the pin agree, whatever dropped the buffer last.
BufferFlagIsTruthful == buffer_on = mdc_en

\* A release is pending exactly while there is a buffer for it to drop: none is left
\* behind to cut a later series short.
ReleaseIsPaired ==
    /\ due # None \/ waiting => buffer_on \/ pc = "drop"
    /\ buffer_on => due # None \/ waiting \/ pc \in {"settle", "arm", "drop"}
    /\ ~(due # None /\ waiting)

\* The bus is not blocked for other masters longer than the linger after its last use.
BusHeldBriefly == buffer_on /\ pc = "idle" /\ ~HandlerReady => quiet <= Linger

\* The flag, the pin and the pending release never part company, so the bus is given
\* back in time.
BufferIsAccounted == BufferFlagIsTruthful /\ ReleaseIsPaired /\ BusHeldBriefly

\* The handler never drops the buffer within the linger of its last use: a series of
\* frames keeps it up, even with the handler blocked on the lock meanwhile.
SeriesKeepsTheBuffer ==
    [][buffer_on /\ ~buffer_on' => quiet >= Linger \/ pc = "drop"]_vars

\* The connector has one personality: a driver holds pads only in its own mode, and
\* the MDC buffer is up only in the master's.
OnePersonality ==
    /\ \A m \in {"uart", "i2c"} : pb8 = m \/ pb9 = m => current_mode = m
    /\ mdc_en => current_mode = "mdio" /\ pb9 = "analog"

\* Every call returns, and with it the lock the handler may be waiting for.
CallsReturn == job # "none" ~> job = "none"

\* "Does not touch the bus: the MDC buffer stays disabled for the measurement"
\* (mdioprobe_mdio_master.h): MDC is not toggled for timing with the buffer up.
TimingStaysOnBoard == pc = "timing" => ~mdc_en

\* "applies "sleep" to the personalities that are off and "default" to the one that
\* is on" (mdioprobe_serial.c): between calls a serial personality has its pads.
PersonalityHasItsPads == pc = "idle" /\ current_mode # "mdio" => pb8 = current_mode
=============================================================================
