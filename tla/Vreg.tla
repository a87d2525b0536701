-------------------------------- MODULE Vreg --------------------------------
(***************************************************************************)
(* The programmable target supply (mdioprobe_vreg.c): soft start, PI        *)
(* regulation of the gate, pass-through, and the short-circuit latch.       *)
(*                                                                         *)
(* The 20 kHz tick is a zero-latency interrupt; every API call masks it for *)
(* the whole of its update, so a tick and a call are one step each.         *)
(* Voltages are ADC codes, except where the code keeps millivolts.          *)
(***************************************************************************)
EXTENDS Integers

CONSTANTS
    MinMv, RegMaxMv, MaxMv, \* VREG_MIN_MV, VREG_REG_MAX_MV, VREG_MAX_MV
    VrefMv,                 \* VREG_VREF_MV
    CodeMax,                \* 4095, full scale of the ADC
    GateOff,                \* DAC_GATE_OFF
    AccOne,                 \* 2^VREG_ACC_FRAC_BITS
    GainOne,                \* VREG_GAIN_Q16_MAX
    Word,                   \* 2^32, where gain arithmetic wraps
    Step,                   \* VREG_SOFTSTART_STEP
    ScTicks,                \* VREG_SC_TICKS
    SatMargin,              \* VREG_GATE_SAT_MARGIN
    MarginDfl, KiDfl, KpDfl,
    Overshoot,              \* how far above its setpoint the output may be driven
    Requests,               \* targets asked for, in mV
    Margins,                \* short-circuit margins asked for, in mV
    Nums, Dens              \* gains asked for

ASSUME VregAssumption ==
    /\ \A n \in {MinMv, RegMaxMv, MaxMv, VrefMv, CodeMax, GateOff, AccOne, GainOne, Word,
                 Step, ScTicks, SatMargin, MarginDfl, KiDfl, KpDfl, Overshoot} : n \in Nat
    /\ 0 < MinMv /\ MinMv <= RegMaxMv /\ RegMaxMv < MaxMv /\ MaxMv <= VrefMv
    /\ CodeMax > 0 /\ GateOff > 0 /\ Step > 0 /\ ScTicks > 0 /\ Word > 0
    /\ AccOne > 0 /\ GainOne >= AccOne /\ KiDfl <= GainOne /\ KpDfl <= GainOne
    /\ Requests \subseteq Nat /\ Margins \subseteq Nat
    /\ Nums \subseteq Nat /\ Dens \subseteq Nat \ {0}

VARIABLES
    state, v_set, v_set_target, dac_code, dac_acc, sc_code, target_mv, sc_margin_mv,
    sc_consec, passthru_req, v_min, v_max, ki, kp,
    vout,       \* the output, as the ADC reads it
    shorted,    \* the target shorts the rail
    run,        \* history: saturated low ticks in a row since the supply was armed
    ramp_ticks  \* history: ticks spent in the ramp in progress

setpoint == <<v_set, v_set_target, sc_code, target_mv, sc_margin_mv, passthru_req>>
gate     == <<dac_code, dac_acc>>
window   == <<v_min, v_max>>
gains    == <<ki, kp>>
history  == <<run, ramp_ticks>>
vars == <<state, v_set, v_set_target, dac_code, dac_acc, sc_code, target_mv, sc_margin_mv,
          sc_consec, passthru_req, v_min, v_max, ki, kp, vout, shorted, run, ramp_ticks>>

Rail == INSTANCE Supply

-----------------------------------------------------------------------------
Least(a, b)    == IF a < b THEN a ELSE b
Most(a, b)     == IF a > b THEN a ELSE b

Between(lo, x, hi) == Most(lo, Least(x, hi))

MvToCode(mv) == Least((mv * CodeMax) \div VrefMv, CodeMax)

\* A correction of gain * e, in accumulator units; the shift floors.
Correction(e, gain) == (e * gain) \div (GainOne \div AccOne)

AccTop == GateOff * AccOne

-----------------------------------------------------------------------------
(* The output.  The pass element can only source current: with the gate off *)
(* the output never rises.                                                  *)

Outputs ==
    IF shorted THEN {0}
    ELSE IF dac_code = GateOff THEN 0..vout
    ELSE IF state = "PASSTHRU" THEN 0..CodeMax
    ELSE 0..Most(vout, Least(v_set + Overshoot, CodeMax))

-----------------------------------------------------------------------------
Init ==
    /\ state = "OFF"
    /\ v_set = 0 /\ v_set_target = 0 /\ sc_code = 0 /\ target_mv = 0
    /\ sc_margin_mv = MarginDfl
    /\ dac_code = GateOff /\ dac_acc = AccTop
    /\ sc_consec = 0
    /\ passthru_req = FALSE
    /\ v_min = 0 /\ v_max = 0
    /\ ki = KiDfl /\ kp = KpDfl
    /\ vout = 0
    /\ shorted = FALSE
    /\ run = 0 /\ ramp_ticks = 0

\* vreg_gate_park(): gate and integrator move together.
Park(code) ==
    /\ dac_code' = code
    /\ dac_acc' = code * AccOne

\* mutant of ParkOff: the integrator is left where it was.
ParkGateOnly == dac_code' = GateOff /\ UNCHANGED dac_acc

ParkOff == Park(GateOff)

-----------------------------------------------------------------------------
(* The control tick.  It reads v, and finds the watchdog flag set (low) if  *)
(* any conversion since the last tick was under the threshold.              *)

Watched == state \in {"ON", "PASSTHRU"}

\* mutant of Saturated: the boundary code does not count.
SaturatedStrict == dac_code < SatMargin

Saturated == dac_code <= SatMargin

\* The watchdog flag the tick may find.
Flags(v) == IF v < sc_code THEN {TRUE} ELSE IF sc_code > 0 THEN BOOLEAN ELSE {FALSE}

\* vreg_sc_consec after a watched tick.
Consec(low) == IF low /\ Saturated THEN sc_consec + 1 ELSE 0

Trips(low) == Watched /\ low /\ Saturated /\ Consec(low) >= ScTicks

\* Excursion tracking, only while watched.
Track(v) ==
    /\ v_min' = IF Watched THEN Least(v_min, v) ELSE v_min
    /\ v_max' = IF Watched THEN Most(v_max, v) ELSE v_max

\* The PI step toward the setpoint, clamped twice.
Regulate(setp, v) ==
    LET e == setp - v
    IN  /\ dac_acc' = Between(0, dac_acc - Correction(e, ki), AccTop)
        /\ dac_code' = Between(0, dac_acc' - Correction(e, kp), AccTop) \div AccOne

\* The short circuit is latched.
TickTrips(v, low) ==
    /\ Trips(low)
    /\ state' = "FAULT"
    /\ ParkOff
    /\ sc_consec' = Consec(low)
    /\ run' = run + 1
    /\ Track(v)
    /\ UNCHANGED <<setpoint, gains, ramp_ticks>>

\* Nothing to regulate.
TickParked(v, low) ==
    /\ state \in {"OFF", "FAULT", "PASSTHRU"}
    /\ ~Trips(low)
    /\ sc_consec' = IF Watched THEN Consec(low) ELSE sc_consec
    /\ run' = IF Watched /\ low /\ Saturated THEN run + 1 ELSE 0
    /\ Track(v)
    /\ UNCHANGED <<state, setpoint, gate, gains, ramp_ticks>>

TickRegulates(v, low) ==
    /\ state = "ON"
    /\ ~Trips(low)
    /\ sc_consec' = Consec(low)
    /\ run' = IF low /\ Saturated THEN run + 1 ELSE 0
    /\ Track(v)
    /\ Regulate(v_set, v)
    /\ UNCHANGED <<state, setpoint, gains, ramp_ticks>>

NextSetpoint == v_set + Step

TickRamps(v) ==
    /\ state = "SOFTSTART"
    /\ NextSetpoint < v_set_target
    /\ v_set' = NextSetpoint
    /\ ramp_ticks' = ramp_ticks + 1
    /\ Regulate(NextSetpoint, v)
    /\ run' = 0
    /\ UNCHANGED <<state, v_set_target, sc_code, target_mv, sc_margin_mv, passthru_req,
                   sc_consec, window, gains>>

\* mutant of ArmedConsec: the count of an earlier spell survives the ramp.
ArmedConsecKept == sc_consec

\* The count the watchdog is armed with.
ArmedConsec == 0

\* The ramp is over: the watchdog is armed, and a target above the regulated
\* range is handed the input rail.
TickArrives(v) ==
    /\ state = "SOFTSTART"
    /\ NextSetpoint >= v_set_target
    /\ v_set' = v_set_target
    /\ sc_consec' = ArmedConsec
    /\ IF passthru_req THEN state' = "PASSTHRU" /\ Park(0)
                       ELSE state' = "ON" /\ Regulate(v_set_target, v)
    /\ run' = 0
    /\ ramp_ticks' = 0
    /\ UNCHANGED <<v_set_target, sc_code, target_mv, sc_margin_mv, passthru_req, window, gains>>

Tick ==
    \E v \in Outputs :
        /\ vout' = v
        /\ \/ \E low \in Flags(v) : TickTrips(v, low) \/ TickParked(v, low) \/ TickRegulates(v, low)
           \/ TickRamps(v)
           \/ TickArrives(v)
        /\ UNCHANGED shorted

-----------------------------------------------------------------------------
(* The API, with the tick masked.                                           *)

\* States from which a ramp starts with the gate off.
ColdStates == {"OFF", "FAULT", "PASSTHRU"}

\* mutant of PassThrough: the top of the regulated range is passed through too.
PassThroughFromTop(mv) == mv >= RegMaxMv

\* Targets there is nothing to regulate to.
PassThrough(mv) == mv > RegMaxMv

\* Where the ramp starts: from the output, when that is below the target.
RampStart(v, code) == Least(v, code)

\* The body of mdioprobe_vreg_set_target() under a given margin.
Retarget(mv, margin, v) ==
    LET granted == Rail!Granted(mv)
        code    == MvToCode(granted)
    IN  /\ target_mv' = granted
        /\ passthru_req' = PassThrough(granted)
        /\ v_set_target' = code
        /\ sc_code' = MvToCode(IF granted > margin THEN granted - margin ELSE 0)
        /\ IF state \in ColdStates THEN ParkOff ELSE UNCHANGED gate
        /\ v_set' = RampStart(v, code)
        /\ v_min' = v
        /\ v_max' = v
        /\ vout' = v
        /\ state' = "SOFTSTART"
        /\ run' = 0
        /\ ramp_ticks' = 0
        /\ UNCHANGED <<sc_consec, gains, shorted>>

\* mdioprobe_vreg_set_target()
SetTarget(mv) ==
    \E v \in Outputs : Retarget(mv, sc_margin_mv, v) /\ UNCHANGED sc_margin_mv

\* mdioprobe_vreg_set_sc_margin(): re-applies the target, whatever the state.
SetScMargin(margin) ==
    /\ sc_margin_mv' = margin
    /\ IF target_mv # 0
       THEN \E v \in Outputs : Retarget(target_mv, margin, v)
       ELSE UNCHANGED <<state, v_set, v_set_target, sc_code, target_mv, passthru_req, gate,
                        window, sc_consec, gains, vout, shorted, history>>

\* mdioprobe_vreg_shutdown()
Shutdown ==
    /\ state' = "OFF"
    /\ ParkOff
    /\ run' = 0
    /\ ramp_ticks' = 0
    /\ UNCHANGED <<setpoint, sc_consec, window, gains, vout, shorted>>

\* gain_to_q16(): the product wraps before the division.
GainToQ16(num, den) == Least(((num * GainOne) % Word) \div den, GainOne)

SetKi(num, den) ==
    /\ ki' = GainToQ16(num, den)
    /\ UNCHANGED <<state, setpoint, gate, sc_consec, window, kp, vout, shorted, history>>

SetKp(num, den) ==
    /\ kp' = GainToQ16(num, den)
    /\ UNCHANGED <<state, setpoint, gate, sc_consec, window, ki, vout, shorted, history>>

\* mdioprobe_vreg_track_reset()
TrackReset ==
    \E v \in Outputs :
        /\ vout' = v
        /\ v_min' = v
        /\ v_max' = v
        /\ UNCHANGED <<state, setpoint, gate, sc_consec, gains, shorted, history>>

\* The target shorts the rail, or stops to.
ShortChanges ==
    /\ shorted' = ~shorted
    /\ UNCHANGED <<state, setpoint, gate, sc_consec, window, gains, vout, history>>

-----------------------------------------------------------------------------
Next ==
    \/ Tick
    \/ \E mv \in Requests : SetTarget(mv)
    \/ \E margin \in Margins : SetScMargin(margin)
    \/ Shutdown
    \/ \E num \in Nums, den \in Dens : SetKi(num, den) \/ SetKp(num, den)
    \/ TrackReset
    \/ ShortChanges

\* The timer never stops; nobody has to call.
Spec == Init /\ [][Next]_vars /\ WF_vars(Tick)

-----------------------------------------------------------------------------
\* Every variable keeps the width the code gives it: the gate and the integrator
\* stay inside the DAC, the setpoint and the window inside the ADC.
TypeOK ==
    /\ state \in {"OFF", "SOFTSTART", "ON", "PASSTHRU", "FAULT"}
    /\ v_set \in 0..CodeMax /\ v_set_target \in 0..CodeMax /\ sc_code \in 0..CodeMax
    /\ dac_code \in 0..GateOff /\ dac_acc \in 0..AccTop
    /\ target_mv \in {0} \cup MinMv..MaxMv
    /\ sc_margin_mv \in Nat
    /\ sc_consec \in 0..ScTicks
    /\ passthru_req \in BOOLEAN
    /\ v_min \in 0..CodeMax /\ v_max \in 0..CodeMax
    /\ ki \in 0..GainOne /\ kp \in 0..GainOne
    /\ vout \in 0..CodeMax
    /\ shorted \in BOOLEAN
    /\ run \in Nat /\ ramp_ticks \in Nat

\* Gate and state agree after any sequence of ticks and calls: off means off, with
\* the integrator parked beside it; pass-through means fully on, at the top target.
GateFollowsState ==
    /\ state \in {"OFF", "FAULT"} => dac_code = GateOff /\ dac_acc = AccTop
    /\ state = "PASSTHRU" => dac_code = 0 /\ dac_acc = 0 /\ target_mv = MaxMv
    /\ state = "ON" => target_mv \in MinMv..RegMaxMv

\* The setpoint never runs past the target, and rests on it once the ramp is over.
SetpointInBounds ==
    /\ v_set <= v_set_target
    /\ Watched => v_set = v_set_target /\ v_set_target = MvToCode(target_mv)

\* The short-circuit latch needs a full run of saturated low ticks in the present
\* spell: neither a load step nor what an earlier spell counted can trip it.
TripNeedsAFullRun ==
    [][state' = "FAULT" /\ state # "FAULT" => Watched /\ run' >= ScTicks]_vars

\* Every tick of a ramp advances it, so a ramp lasts at most CodeMax / Step ticks:
\* 25.6 ms, well inside the 200 ms its user waits for it.
RampAdvances == ramp_ticks * Step <= v_set \/ state # "SOFTSTART"

\* Whatever order ticks and calls come in, the fields keep their widths and stay in
\* step: gate and integrator with the state, the setpoint with its target and with
\* the time the ramp has taken.
StaysInStep == TypeOK /\ GateFollowsState /\ SetpointInBounds /\ RampAdvances

\* A lasting short is latched, if the loop integrates, the watchdog has a threshold,
\* and nobody interferes any more.
ShortIsLatched ==
    (/\ <>[][Tick]_vars
     /\ <>[](shorted /\ ki > 0 /\ sc_code > 0)) => <>[](state \in {"OFF", "FAULT"})

\* The regulator keeps the promise the rest of the firmware relies on.
KeepsSupplyPromise == Rail!Spec

\* "VREG_ON, in regulation" (mdioprobe_vreg.h): while the supply says ON the output
\* is no higher than the regulator can have driven it.
OnMeansInRegulation == state = "ON" => vout <= v_set + Overshoot
=============================================================================
