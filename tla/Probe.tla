-------------------------------- MODULE Probe --------------------------------
(***************************************************************************)
(* The probe layer (mdioprobe_api.c): what an API call does with the        *)
(* detector, the supply, the connector and the capture session together.    *)
(*                                                                         *)
(* The supply is the abstract one that the regulator implements, the        *)
(* detector any that publishes a rail or none.  The interpreter makes one   *)
(* call at a time.  The detector runs only while the interpreter is between *)
(* calls or sleeps, the supply's interrupt at any time: a call is split at  *)
(* each look at the supply and at each sleep.                               *)
(***************************************************************************)
EXTENDS Integers

CONSTANTS
    MinMv, RegMaxMv, MaxMv, \* the supply's range
    Rails,          \* logic rails the detector publishes
    Requests,       \* supply voltages asked for by hand
    SettlePolls,    \* SUPPLY_SETTLE_MS / 5, looks at the supply
    RampPolls       \* how many of the 5 ms sleeps a ramp may outlast

ThresholdPermil == 300  \* THRESHOLD_PERMIL
Modes == {"mdio", "uart", "i2c"}

ASSUME ProbeAssumption ==
    /\ MinMv \in Nat /\ RegMaxMv \in Nat /\ MaxMv \in Nat
    /\ 0 < MinMv /\ MinMv <= RegMaxMv /\ RegMaxMv < MaxMv
    /\ Rails \subseteq (MinMv..RegMaxMv) \cup {MaxMv}   \* each is a voltage of the supply
    /\ Requests \subseteq Nat
    /\ SettlePolls \in Nat /\ RampPolls \in Nat /\ RampPolls + 1 < SettlePolls

VARIABLES
    present, nominal_mv,    \* the detector's status, nominal_mv without a forced rail
    forced_mv,
    inhibit,                \* inhibit_depth > 0
    state, target_mv,       \* the supply
    ramp,                   \* 5 ms sleeps the ramp in progress has outlasted
    shorted,                \* the target shorts the rail
    current_mode, capture_on,
    threshold,              \* the comparators' threshold in mV, 0 for the boot value
    layers,                 \* layers of the LED that calls raise
    pc, rail, waited,       \* where the call is; its locals
    rc,                     \* what the last call returned
    latched                 \* history: the supply was faulted when the call began

Reg == INSTANCE Supply

target == <<present, nominal_mv, forced_mv>>
supply == <<state, target_mv, ramp>>
owned  == <<current_mode, capture_on, threshold, inhibit, layers>>
call   == <<pc, rail, waited, rc, latched>>
vars == <<present, nominal_mv, forced_mv, inhibit, state, target_mv, ramp, shorted, current_mode,
          capture_on, threshold, layers, pc, rail, waited, rc, latched>>

-----------------------------------------------------------------------------
\* mdioprobe_bus_ready(), mdioprobe_bus_nominal_mv()
Ready     == present \/ forced_mv # 0
NominalMv == IF forced_mv # 0 THEN forced_mv ELSE IF present THEN nominal_mv ELSE -1

ThresholdFor(mv) == (mv * ThresholdPermil) \div 1000

\* Why a call that needs the wire is refused, in the order it looks; "none" if it is not.
\* A target can be present while its rail is unknown.
Refusal ==
    IF ~Ready THEN "ENODEV"
    ELSE IF current_mode # "mdio" THEN "EBUSY"
    ELSE IF NominalMv <= 0 THEN "ENODEV" ELSE "none"

Idle == pc = "idle"

Returns(code) ==
    /\ pc' = "idle"
    /\ rc' = code
    /\ latched' = FALSE

\* mdioprobe_init() has returned.
Init ==
    /\ present = FALSE /\ nominal_mv = -1 /\ forced_mv = 0
    /\ inhibit = FALSE
    /\ Reg!Init
    /\ ramp = 0
    /\ shorted = FALSE
    /\ current_mode = "mdio" /\ capture_on = FALSE
    /\ threshold = 0
    /\ layers = {}
    /\ pc = "idle" /\ rail = 0 /\ waited = 0 /\ rc = "ok" /\ latched = FALSE

-----------------------------------------------------------------------------
(* The detector, the supply and the target.                                 *)

\* A poll: presence, and the rail of one burst while present.
DetectorPolls ==
    /\ pc \in {"idle", "sleep"}
    /\ ~inhibit
    /\ present' \in BOOLEAN
    /\ nominal_mv' \in IF forced_mv # 0 THEN {forced_mv}
                       ELSE IF present' THEN Rails \cup {-1} ELSE {-1}
    /\ UNCHANGED <<forced_mv, supply, shorted, owned, call>>

RampEnds ==
    /\ Reg!Settle
    /\ UNCHANGED <<target, ramp, shorted, owned, call>>

ShortTrips ==
    /\ shorted
    /\ Reg!Trip
    /\ UNCHANGED <<target, ramp, shorted, owned, call>>

ShortChanges ==
    /\ shorted' = ~shorted
    /\ UNCHANGED <<target, supply, owned, call>>

-----------------------------------------------------------------------------
(* master_xfer() and mdioprobe_c22_probe(), which share their interlocks.   *)

XferRefused ==
    /\ Idle
    /\ Refusal # "none"
    /\ Returns(Refusal)
    /\ UNCHANGED <<target, supply, shorted, owned, rail, waited>>

\* The threshold follows the rail; the rail is looked up again for the supply, but
\* nothing that could change it has run.
XferBegins ==
    /\ Idle
    /\ Refusal = "none"
    /\ threshold' = ThresholdFor(NominalMv)
    /\ rail' = NominalMv
    /\ waited' = 0
    /\ latched' = (state = "FAULT")
    /\ pc' = "supply"
    /\ UNCHANGED <<target, supply, shorted, current_mode, capture_on, inhibit, layers, rc>>

\* mutant of FaultSeen: only the waiting loop looks for a fault.
FaultUnseen == FALSE

\* supply_at_rail(): a latched fault ends the call...
FaultSeen == state = "FAULT"

\* mutant of Unsuitable: a supply that is on will do.
UnsuitableOff == state = "OFF"

\* ...and a supply that is off, or elsewhere, is sent to the rail.
Unsuitable == state = "OFF" \/ target_mv # rail

SupplyChecked ==
    /\ pc = "supply"
    /\ IF FaultSeen THEN Returns("EIO")
       ELSE /\ pc' = IF Unsuitable THEN "retarget" ELSE "look"
            /\ UNCHANGED <<rc, latched>>
    /\ UNCHANGED <<target, supply, shorted, owned, rail, waited>>

\* The supply may have tripped since it was looked at.
Retarget ==
    /\ pc = "retarget"
    /\ Reg!SetTarget(rail)
    /\ ramp' = 0
    /\ pc' = "look"
    /\ UNCHANGED <<target, shorted, owned, rail, waited, rc, latched>>

\* mutant of Arrived: a supply that has been told is good enough.
Told == state \in {"SOFTSTART", "ON", "PASSTHRU"}

Arrived == state \in {"ON", "PASSTHRU"}

\* Looks at the supply before the loop gives up.
Patience == SettlePolls

\* The supply is there: the detector is told to keep off, and the frame goes out.
LookArrived ==
    /\ pc = "look"
    /\ waited < Patience
    /\ Arrived
    /\ inhibit' = TRUE
    /\ layers' = layers \cup {"bus"}
    /\ pc' = "frame"
    /\ UNCHANGED <<target, supply, shorted, current_mode, capture_on, threshold, rail, waited, rc, latched>>

\* It has faulted, or the loop is out of looks.
LookFails ==
    /\ pc = "look"
    /\ waited < Patience => state = "FAULT"
    /\ Returns(IF waited < Patience THEN "EIO" ELSE "ETIMEDOUT")
    /\ UNCHANGED <<target, supply, shorted, owned, rail, waited>>

LookWaits ==
    /\ pc = "look"
    /\ waited < Patience
    /\ ~Arrived /\ state # "FAULT"
    /\ pc' = "sleep"
    /\ UNCHANGED <<target, supply, shorted, owned, rail, waited, rc, latched>>

\* 5 ms; a ramp is over in time.
SleepEnds ==
    /\ pc = "sleep"
    /\ IF state = "SOFTSTART" THEN ramp < RampPolls /\ ramp' = ramp + 1 ELSE UNCHANGED ramp
    /\ waited' = waited + 1
    /\ pc' = "look"
    /\ UNCHANGED <<target, state, target_mv, shorted, owned, rail, rc, latched>>

\* The frame is out; a read may have had no answer.
FrameEnds ==
    /\ pc = "frame"
    /\ inhibit' = FALSE
    /\ layers' = layers \ {"bus"}
    /\ \E code \in {"ok", "EIO"} : Returns(code)
    /\ UNCHANGED <<target, supply, shorted, current_mode, capture_on, threshold, rail, waited>>

Continue ==
    \/ SupplyChecked \/ Retarget
    \/ LookArrived \/ LookFails \/ LookWaits
    \/ SleepEnds \/ FrameEnds

-----------------------------------------------------------------------------
(* The calls that do not wait.                                              *)

ForceLevel(mv) ==
    /\ Idle
    /\ forced_mv' = mv
    /\ nominal_mv' = IF mv # 0 THEN mv ELSE nominal_mv
    /\ Returns("ok")
    /\ UNCHANGED <<present, supply, shorted, owned, rail, waited>>

VregSet(mv) ==
    /\ Idle
    /\ IF mv < MinMv THEN Returns("EINVAL") /\ UNCHANGED supply
       ELSE Returns("ok") /\ Reg!SetTarget(mv) /\ ramp' = 0
    /\ UNCHANGED <<target, shorted, owned, rail, waited>>

VregOff ==
    /\ Idle
    /\ Reg!Shutdown
    /\ Returns("ok")
    /\ UNCHANGED <<target, ramp, shorted, owned, rail, waited>>

\* The one call that updates the fault layer.
VregGet ==
    /\ Idle
    /\ layers' = IF state = "FAULT" THEN layers \cup {"fault"} ELSE layers \ {"fault"}
    /\ Returns("ok")
    /\ UNCHANGED <<target, supply, shorted, current_mode, capture_on, threshold, inhibit, rail, waited>>

\* The threshold is set even when a capture is already on.
CaptureStart ==
    /\ Idle
    /\ IF Refusal = "none"
       THEN /\ threshold' = ThresholdFor(NominalMv)
            /\ capture_on' = TRUE
            /\ layers' = layers \cup {"passive"}
            /\ Returns(IF capture_on THEN "EALREADY" ELSE "ok")
       ELSE Returns(Refusal) /\ UNCHANGED <<threshold, capture_on, layers>>
    /\ UNCHANGED <<target, supply, shorted, current_mode, inhibit, rail, waited>>

\* mdioprobe_capture_start_n(0)
CaptureNothing ==
    /\ Idle
    /\ Ready /\ current_mode = "mdio"
    /\ Returns("EINVAL")
    /\ UNCHANGED <<target, supply, shorted, owned, rail, waited>>

\* mdioprobe_capture_stop(), or the last frame of a counted capture.
CaptureEnds ==
    /\ Idle
    /\ capture_on' = FALSE
    /\ layers' = layers \ {"passive"}
    /\ Returns("ok")
    /\ UNCHANGED <<target, supply, shorted, current_mode, threshold, inhibit, rail, waited>>

\* mutant of StopsCapture: the session is left running.
StopsNothing(m) == FALSE

StopsCapture(m) == m # "mdio" /\ capture_on

\* The session ends first; the switch itself may fail.
ConnectorSetMode(m) ==
    /\ Idle
    /\ IF StopsCapture(m) THEN capture_on' = FALSE /\ layers' = layers \ {"passive"}
                          ELSE UNCHANGED <<capture_on, layers>>
    /\ \/ current_mode' = m /\ Returns("ok")
       \/ UNCHANGED current_mode /\ Returns("EIO")
    /\ UNCHANGED <<target, supply, shorted, threshold, inhibit, rail, waited>>

-----------------------------------------------------------------------------
Next ==
    \/ DetectorPolls \/ RampEnds \/ ShortTrips \/ ShortChanges
    \/ XferRefused \/ XferBegins \/ Continue
    \/ \E mv \in Rails \cup {0} : ForceLevel(mv)
    \/ \E mv \in Requests : VregSet(mv)
    \/ VregOff \/ VregGet
    \/ CaptureStart \/ CaptureNothing \/ CaptureEnds
    \/ \E m \in Modes : ConnectorSetMode(m)

Spec == Init /\ [][Next]_vars

-----------------------------------------------------------------------------
\* Every variable stays in its domain.
TypeOK ==
    /\ present \in BOOLEAN /\ nominal_mv \in Rails \cup {-1} /\ forced_mv \in Rails \cup {0}
    /\ inhibit \in BOOLEAN
    /\ state \in {"OFF", "SOFTSTART", "ON", "PASSTHRU", "FAULT"}
    /\ target_mv \in {0} \cup MinMv..MaxMv
    /\ ramp \in 0..RampPolls
    /\ shorted \in BOOLEAN
    /\ current_mode \in Modes /\ capture_on \in BOOLEAN
    /\ threshold \in {0} \cup {ThresholdFor(mv) : mv \in Rails}
    /\ layers \subseteq {"bus", "passive", "fault"}
    /\ pc \in {"idle", "supply", "retarget", "look", "sleep", "frame"}
    /\ rail \in Rails \cup {0}
    /\ waited \in 0..(RampPolls + 1)
    /\ rc \in {"ok", "EINVAL", "ENODEV", "EBUSY", "EIO", "EALREADY", "ETIMEDOUT"}
    /\ latched \in BOOLEAN

\* One rail is behind a frame's levels, those it drives and those it reads: however the
\* detector, the operator and earlier calls moved the rail, the supply and the threshold.
ThresholdMatchesSupply == pc = "frame" => target_mv = rail /\ threshold = ThresholdFor(target_mv)

\* No frame is driven from a supply that is off or still ramping; a trip in the last
\* moment is all that can take the rail away.
NoFrameInTheRamp == pc = "frame" => state \in {"ON", "PASSTHRU", "FAULT"}

\* A transaction never re-arms a short circuit that was latched when it began.
FaultIsKept == latched => state = "FAULT"

\* The wait outlasts every ramp, one already in progress or one of its own.
SupplyIsWaitedOut == rc # "ETIMEDOUT"

\* The wait for the supply ends in time, and not before the supply is there.
SupplyIsAwaited == NoFrameInTheRamp /\ SupplyIsWaitedOut

\* A capture is on only while the connector is the master's; the detector is kept off
\* exactly for the frame; and the indications say so.
WireIsOwned ==
    /\ capture_on => current_mode = "mdio"
    /\ inhibit <=> pc = "frame"
    /\ "passive" \in layers <=> capture_on
    /\ "bus" \in layers <=> inhibit
=============================================================================
