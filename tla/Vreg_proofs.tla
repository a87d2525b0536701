---------------------------- MODULE Vreg_proofs ----------------------------
(***************************************************************************)
(* Proofs about the programmable supply, for every full scale, ramp step,   *)
(* trip count, gain and set of requests VregAssumption allows.              *)
(***************************************************************************)
EXTENDS Vreg, TLAPS

\* The constants are naturals of the order the assumption gives them.
LEMMA Constants ==
  /\ MinMv \in Nat /\ RegMaxMv \in Nat /\ MaxMv \in Nat /\ VrefMv \in Nat
  /\ CodeMax \in Nat /\ GateOff \in Nat /\ AccOne \in Nat /\ GainOne \in Nat
  /\ Word \in Nat /\ Step \in Nat /\ ScTicks \in Nat /\ SatMargin \in Nat
  /\ MarginDfl \in Nat /\ KiDfl \in Nat /\ KpDfl \in Nat /\ Overshoot \in Nat
  BY VregAssumption

\* The limits of the rail are ordered and the scales are not zero.
LEMMA ConstantOrder ==
  /\ 0 < MinMv /\ MinMv <= RegMaxMv /\ RegMaxMv < MaxMv /\ MaxMv <= VrefMv
  /\ CodeMax > 0 /\ GateOff > 0 /\ Step > 0 /\ ScTicks > 0 /\ Word > 0
  /\ AccOne > 0 /\ GainOne >= AccOne /\ KiDfl <= GainOne /\ KpDfl <= GainOne
  BY VregAssumption

-----------------------------------------------------------------------------
(* Arithmetic.                                                              *)

\* A product of naturals is a natural.
LEMMA Product ==
  ASSUME NEW m \in Nat, NEW n \in Nat
  PROVE  m * n \in Nat
  OBVIOUS

\* Dividing a natural leaves a natural.
LEMMA Quotient ==
  ASSUME NEW n \in Nat, NEW d \in Nat, d > 0
  PROVE  n \div d \in Nat
  OBVIOUS

\* A value that fits k units of d is at most k when divided by d.
LEMMA QuotientBound ==
  ASSUME NEW n \in Nat, NEW d \in Nat, d > 0, NEW k \in Nat, n <= k * d
  PROVE  n \div d \in 0..k
<1>1. PICK q \in Nat : q = n \div d
  BY Quotient
<1>2. q * d <= n
  BY <1>1
<1>3. q <= k
  <2>1. SUFFICES ASSUME q >= k + 1 PROVE FALSE
    BY <1>1
  <2>2. q * d >= (k + 1) * d
    BY <2>1
  <2>3. (k + 1) * d = k * d + d
    OBVIOUS
  <2> QED
    BY <1>2, <2>2, <2>3
<1> QED
  BY <1>1, <1>3

\* The top of the integrator is a natural.
LEMMA AccTopType == AccTop \in Nat /\ AccTop = GateOff * AccOne
  BY Constants, Product DEF AccTop

\* Every voltage has a code within the scale.
LEMMA MvToCodeType ==
  ASSUME NEW mv \in Nat
  PROVE  MvToCode(mv) \in 0..CodeMax
<1>1. mv * CodeMax \in Nat
  BY Constants, Product
<1>2. (mv * CodeMax) \div VrefMv \in Nat
  BY <1>1, Constants, ConstantOrder, Quotient
<1> QED
  BY <1>2, Constants DEF MvToCode, Least

\* A correction is an integer, whatever the sign of the error.
LEMMA CorrectionType ==
  ASSUME NEW e \in Int, NEW gain \in Nat
  PROVE  Correction(e, gain) \in Int
<1>1. GainOne \div AccOne \in Nat /\ GainOne \div AccOne > 0
  BY Constants, ConstantOrder
<1>2. e * gain \in Int
  OBVIOUS
<1> QED
  BY <1>1, <1>2 DEF Correction

\* A gain asked for is within 0..1, even when its product wraps.
LEMMA GainType ==
  ASSUME NEW num \in Nums, NEW den \in Dens
  PROVE  GainToQ16(num, den) \in 0..GainOne
<1>1. num \in Nat /\ den \in Nat /\ den > 0
  BY VregAssumption
<1>2. num * GainOne \in Nat
  BY <1>1, Constants, Product
<1>3. (num * GainOne) % Word \in Nat
  BY <1>2, Constants, ConstantOrder
<1>4. ((num * GainOne) % Word) \div den \in Nat
  BY <1>1, <1>3, Quotient
<1> QED
  BY <1>4, Constants DEF GainToQ16, Least

-----------------------------------------------------------------------------
(* The parts of a step.                                                     *)

\* The environment keeps the output on the scale of the ADC.
LEMMA OutputsType ==
  ASSUME TypeOK
  PROVE  Outputs \subseteq 0..CodeMax
<1>1. vout \in 0..CodeMax /\ v_set \in 0..CodeMax
  BY DEF TypeOK
<1> QED
  BY <1>1, Constants DEF Outputs, Most, Least

\* A parked gate and its integrator both sit at off.
LEMMA ParkOffValue ==
  ASSUME ParkOff
  PROVE  /\ dac_code' = GateOff /\ dac_acc' = AccTop
         /\ dac_code' \in 0..GateOff /\ dac_acc' \in 0..AccTop
  BY AccTopType, Constants DEF ParkOff, Park

\* A gate handed over is fully on, and so is its integrator.
LEMMA ParkOnValue ==
  ASSUME Park(0)
  PROVE  /\ dac_code' = 0 /\ dac_acc' = 0
         /\ dac_code' \in 0..GateOff /\ dac_acc' \in 0..AccTop
  BY AccTopType, Constants DEF Park

\* The control law never leaves the range of the DAC, whatever the gains and error.
LEMMA RegulateType ==
  ASSUME TypeOK, NEW setp \in 0..CodeMax, NEW v \in 0..CodeMax, Regulate(setp, v)
  PROVE  dac_code' \in 0..GateOff /\ dac_acc' \in 0..AccTop
<1> DEFINE e == setp - v
           out == Between(0, dac_acc' - Correction(e, kp), AccTop)
<1>1. ki \in 0..GainOne /\ kp \in 0..GainOne /\ dac_acc \in 0..AccTop
  BY DEF TypeOK
<1>2. e \in Int /\ ki \in Nat /\ kp \in Nat /\ dac_acc \in Int
  BY <1>1, Constants, AccTopType
<1>3. /\ dac_acc' = Between(0, dac_acc - Correction(e, ki), AccTop)
      /\ dac_code' = out \div AccOne
  BY DEF Regulate
<1> HIDE DEF e
<1>4. Correction(e, ki) \in Int /\ Correction(e, kp) \in Int
  BY <1>2, CorrectionType
<1>5. dac_acc' \in 0..AccTop
  BY <1>2, <1>3, <1>4, AccTopType DEF Between, Most, Least
<1>6. out \in 0..AccTop
  BY <1>4, <1>5, AccTopType DEF Between, Most, Least
<1> HIDE DEF out
<1>7. out \div AccOne \in 0..GateOff
  BY <1>6, AccTopType, Constants, ConstantOrder, QuotientBound
<1> QED
  BY <1>3, <1>5, <1>7

-----------------------------------------------------------------------------
\* What the fields of a target say of each other.
TargetAgrees ==
  /\ target_mv # 0 => v_set_target = MvToCode(target_mv)
  /\ target_mv # 0 => (passthru_req <=> target_mv > RegMaxMv)
  /\ target_mv > RegMaxMv => target_mv = MaxMv
  /\ state # "OFF" => target_mv # 0

\* The latch is armed with a count that this spell has earned.
RunCounts == Watched => sc_consec <= run /\ sc_consec < ScTicks

IInv ==
  /\ TypeOK
  /\ GateFollowsState
  /\ SetpointInBounds
  /\ RampAdvances
  /\ TargetAgrees
  /\ RunCounts

\* The starting state satisfies the inductive invariant.
LEMMA InitIInv ==
  ASSUME Init
  PROVE  IInv
<1>1. /\ v_set \in 0..CodeMax /\ v_set_target \in 0..CodeMax /\ sc_code \in 0..CodeMax
      /\ v_min \in 0..CodeMax /\ v_max \in 0..CodeMax /\ vout \in 0..CodeMax
      /\ target_mv \in {0} \cup MinMv..MaxMv /\ sc_margin_mv \in Nat
  BY Constants DEF Init
<1>2. /\ dac_code \in 0..GateOff /\ dac_acc \in 0..AccTop /\ sc_consec \in 0..ScTicks
      /\ ki \in 0..GainOne /\ kp \in 0..GainOne /\ run \in Nat /\ ramp_ticks \in Nat
  BY Constants, ConstantOrder, AccTopType DEF Init
<1>3. /\ state \in {"OFF", "SOFTSTART", "ON", "PASSTHRU", "FAULT"}
      /\ passthru_req \in BOOLEAN /\ shorted \in BOOLEAN
  BY DEF Init
<1>4. TypeOK
  BY <1>1, <1>2, <1>3 DEF TypeOK
<1>5. GateFollowsState /\ RampAdvances /\ RunCounts
  BY DEF Init, GateFollowsState, RampAdvances, RunCounts, Watched
<1>6. SetpointInBounds /\ TargetAgrees
  BY Constants DEF Init, SetpointInBounds, TargetAgrees, Watched
<1> QED
  BY <1>4, <1>5, <1>6 DEF IInv

-----------------------------------------------------------------------------
(* Each step keeps the invariant.                                           *)

\* A tick that latches the short circuit keeps the invariant.
LEMMA TripStep ==
  ASSUME IInv, NEW v \in 0..CodeMax, NEW low \in BOOLEAN,
         TickTrips(v, low), vout' = v, UNCHANGED shorted
  PROVE  IInv' /\ Watched /\ run' >= ScTicks /\ Rail!Trip
<1>1. /\ Watched /\ state' = "FAULT" /\ sc_consec' = sc_consec + 1 /\ run' = run + 1
      /\ sc_consec' >= ScTicks
  BY DEF TickTrips, Trips, Consec
<1>2. /\ UNCHANGED <<v_set, v_set_target, sc_code, target_mv, sc_margin_mv, passthru_req, ki, kp,
                     ramp_ticks>>
  BY DEF TickTrips, setpoint, gains
<1>3. dac_code' = GateOff /\ dac_acc' = AccTop /\ dac_code' \in 0..GateOff /\ dac_acc' \in 0..AccTop
  BY ParkOffValue DEF TickTrips
<1>4. v_min' \in 0..CodeMax /\ v_max' \in 0..CodeMax
  BY Constants DEF TickTrips, Track, IInv, TypeOK, Least, Most
<1>5. sc_consec' \in 0..ScTicks /\ run' \in Nat /\ run' >= ScTicks
  BY <1>1, Constants DEF IInv, TypeOK, RunCounts
<1>6. TypeOK'
  BY <1>1, <1>2, <1>3, <1>4, <1>5 DEF IInv, TypeOK
<1>7. GateFollowsState' /\ RampAdvances' /\ RunCounts'
  BY <1>1, <1>3 DEF GateFollowsState, RampAdvances, RunCounts, Watched
<1>8. SetpointInBounds' /\ TargetAgrees'
  BY <1>1, <1>2 DEF IInv, SetpointInBounds, TargetAgrees, Watched, MvToCode, Least
<1>9. Rail!Trip
  BY <1>1, <1>2 DEF Watched, Rail!Trip
<1> QED
  BY <1>1, <1>5, <1>6, <1>7, <1>8, <1>9 DEF IInv

\* A tick with nothing to regulate keeps the invariant.
LEMMA ParkedStep ==
  ASSUME IInv, NEW v \in 0..CodeMax, NEW low \in BOOLEAN,
         TickParked(v, low), vout' = v, UNCHANGED shorted
  PROVE  IInv' /\ UNCHANGED <<state, target_mv>>
<1>1. /\ UNCHANGED <<state, v_set, v_set_target, sc_code, target_mv, sc_margin_mv, passthru_req,
                     ki, kp, dac_code, dac_acc, ramp_ticks>>
      /\ state \in {"OFF", "FAULT", "PASSTHRU"}
  BY DEF TickParked, setpoint, gains, gate
<1>2. v_min' \in 0..CodeMax /\ v_max' \in 0..CodeMax
  BY Constants DEF TickParked, Track, IInv, TypeOK, Least, Most
<1>3. CASE Watched
  <2>1. CASE low /\ Saturated
    <3>1. sc_consec' = sc_consec + 1 /\ run' = run + 1 /\ ~(sc_consec' >= ScTicks)
      BY <1>3, <2>1 DEF TickParked, Trips, Consec
    <3> QED
      BY <1>1, <1>2, <1>3, <3>1, Constants DEF IInv, TypeOK, GateFollowsState, SetpointInBounds,
         RampAdvances, TargetAgrees, RunCounts, Watched, MvToCode, Least
  <2>2. CASE ~(low /\ Saturated)
    <3>1. sc_consec' = 0 /\ run' = 0
      BY <1>3, <2>2 DEF TickParked, Consec
    <3> QED
      BY <1>1, <1>2, <1>3, <3>1, Constants, ConstantOrder DEF IInv, TypeOK, GateFollowsState,
         SetpointInBounds, RampAdvances, TargetAgrees, RunCounts, Watched, MvToCode, Least
  <2> QED
    BY <2>1, <2>2
<1>4. CASE ~Watched
  <2>1. sc_consec' = sc_consec /\ run' = 0
    BY <1>4 DEF TickParked
  <2> QED
    BY <1>1, <1>2, <1>4, <2>1 DEF IInv, TypeOK, GateFollowsState, SetpointInBounds,
       RampAdvances, TargetAgrees, RunCounts, Watched, MvToCode, Least
<1> QED
  BY <1>1, <1>3, <1>4

\* A regulating tick keeps the invariant.
LEMMA RegulatesStep ==
  ASSUME IInv, NEW v \in 0..CodeMax, NEW low \in BOOLEAN,
         TickRegulates(v, low), vout' = v, UNCHANGED shorted
  PROVE  IInv' /\ UNCHANGED <<state, target_mv>>
<1>1. /\ UNCHANGED <<state, v_set, v_set_target, sc_code, target_mv, sc_margin_mv, passthru_req,
                     ki, kp, ramp_ticks>>
      /\ state = "ON" /\ Watched /\ Regulate(v_set, v)
  BY DEF TickRegulates, setpoint, gains, Watched
<1>2. v_min' \in 0..CodeMax /\ v_max' \in 0..CodeMax
  BY Constants DEF TickRegulates, Track, IInv, TypeOK, Least, Most
<1>3. v_set \in 0..CodeMax
  BY DEF IInv, TypeOK
<1>4. dac_code' \in 0..GateOff /\ dac_acc' \in 0..AccTop
  BY <1>1, <1>3, RegulateType DEF IInv
<1>5. /\ sc_consec' \in 0..ScTicks /\ run' \in Nat
      /\ sc_consec' <= run' /\ sc_consec' < ScTicks
  <2>1. sc_consec \in 0..ScTicks /\ run \in Nat /\ sc_consec <= run
    BY <1>1 DEF IInv, TypeOK, RunCounts
  <2>2. CASE low /\ Saturated
    <3>1. sc_consec' = sc_consec + 1 /\ run' = run + 1 /\ ~(sc_consec' >= ScTicks)
      BY <1>1, <2>2 DEF TickRegulates, Trips, Consec
    <3> QED
      BY <2>1, <3>1, Constants
  <2>3. CASE ~(low /\ Saturated)
    <3>1. sc_consec' = 0 /\ run' = 0
      BY <2>3 DEF TickRegulates, Consec
    <3> QED
      BY <3>1, Constants, ConstantOrder
  <2> QED
    BY <2>2, <2>3
<1>6. TypeOK'
  BY <1>1, <1>2, <1>4, <1>5 DEF IInv, TypeOK
<1>7. GateFollowsState' /\ RampAdvances' /\ RunCounts'
  BY <1>1, <1>5 DEF IInv, GateFollowsState, RampAdvances, RunCounts
<1>8. SetpointInBounds' /\ TargetAgrees'
  BY <1>1 DEF IInv, SetpointInBounds, TargetAgrees, Watched, MvToCode, Least
<1> QED
  BY <1>1, <1>6, <1>7, <1>8 DEF IInv

\* A tick of the ramp keeps the invariant.
LEMMA RampStep ==
  ASSUME IInv, NEW v \in 0..CodeMax, TickRamps(v), vout' = v, UNCHANGED shorted
  PROVE  IInv' /\ UNCHANGED <<state, target_mv>>
<1>1. /\ UNCHANGED <<state, v_set_target, sc_code, target_mv, sc_margin_mv, passthru_req, sc_consec,
                     v_min, v_max, ki, kp>>
      /\ state = "SOFTSTART" /\ run' = 0 /\ ramp_ticks' = ramp_ticks + 1
      /\ v_set' = v_set + Step /\ v_set' < v_set_target
      /\ Regulate(v_set + Step, v)
  BY DEF TickRamps, window, gains, NextSetpoint
<1>2. v_set \in 0..CodeMax /\ v_set_target \in 0..CodeMax /\ ramp_ticks \in Nat
  BY DEF IInv, TypeOK
<1>3. v_set + Step \in 0..CodeMax
  BY <1>1, <1>2, Constants
<1>4. dac_code' \in 0..GateOff /\ dac_acc' \in 0..AccTop
  BY <1>1, <1>3, RegulateType DEF IInv
<1>5. TypeOK'
  BY <1>1, <1>2, <1>3, <1>4 DEF IInv, TypeOK
<1>6. RampAdvances'
  <2>1. ramp_ticks * Step <= v_set
    BY <1>1 DEF IInv, RampAdvances
  <2>2. (ramp_ticks + 1) * Step = ramp_ticks * Step + Step
    BY <1>2, Constants
  <2>3. ramp_ticks * Step \in Nat
    BY <1>2, Constants, Product
  <2> QED
    BY <1>1, <1>2, <2>1, <2>2, <2>3, Constants DEF RampAdvances
<1>7. GateFollowsState' /\ RunCounts'
  BY <1>1 DEF GateFollowsState, RunCounts, Watched
<1>8. SetpointInBounds' /\ TargetAgrees'
  BY <1>1, <1>2, <1>3 DEF IInv, SetpointInBounds, TargetAgrees, Watched, MvToCode, Least
<1> QED
  BY <1>1, <1>5, <1>6, <1>7, <1>8 DEF IInv

\* The tick that ends the ramp keeps the invariant.
LEMMA ArriveStep ==
  ASSUME IInv, NEW v \in 0..CodeMax, TickArrives(v), vout' = v, UNCHANGED shorted
  PROVE  IInv' /\ Rail!Settle
<1>1. /\ UNCHANGED <<v_set_target, sc_code, target_mv, sc_margin_mv, passthru_req,
                     v_min, v_max, ki, kp>>
      /\ state = "SOFTSTART" /\ run' = 0 /\ ramp_ticks' = 0 /\ sc_consec' = 0
      /\ v_set' = v_set_target
  BY DEF TickArrives, window, gains, ArmedConsec
<1>2. /\ v_set_target \in 0..CodeMax /\ target_mv # 0 /\ v_set_target = MvToCode(target_mv)
      /\ (passthru_req <=> target_mv > RegMaxMv)
      /\ (target_mv > RegMaxMv => target_mv = MaxMv)
      /\ target_mv \in MinMv..MaxMv
  BY <1>1 DEF IInv, TypeOK, TargetAgrees
<1>3. \/ /\ passthru_req /\ state' = "PASSTHRU"
         /\ dac_code' = 0 /\ dac_acc' = 0 /\ dac_code' \in 0..GateOff /\ dac_acc' \in 0..AccTop
      \/ /\ ~passthru_req /\ state' = "ON"
         /\ dac_code' \in 0..GateOff /\ dac_acc' \in 0..AccTop
  <2>1. CASE passthru_req
    BY <2>1, ParkOnValue DEF TickArrives
  <2>2. CASE ~passthru_req
    BY <1>2, <2>2, RegulateType DEF TickArrives, IInv
  <2> QED
    BY <2>1, <2>2
<1>4. TypeOK'
  BY <1>1, <1>2, <1>3, Constants DEF IInv, TypeOK
<1>5. GateFollowsState'
  BY <1>1, <1>2, <1>3, Constants DEF GateFollowsState
<1>6. RampAdvances' /\ RunCounts'
  BY <1>1, <1>3, ConstantOrder, Constants DEF RampAdvances, RunCounts
<1>7. SetpointInBounds' /\ TargetAgrees'
  BY <1>1, <1>2, <1>3 DEF IInv, SetpointInBounds, TargetAgrees, MvToCode, Least
<1>8. Rail!Settle
  BY <1>1, <1>2, <1>3, Constants DEF Rail!Settle, Rail!Held
<1> QED
  BY <1>4, <1>5, <1>6, <1>7, <1>8 DEF IInv

\* A request is granted within the range, and what is granted is granted again.
LEMMA GrantedType ==
  ASSUME NEW mv \in Nat
  PROVE  /\ Rail!Granted(mv) \in MinMv..MaxMv
         /\ Rail!Granted(mv) > RegMaxMv => Rail!Granted(mv) = MaxMv
         /\ Rail!Granted(Rail!Granted(mv)) = Rail!Granted(mv)
  BY Constants, ConstantOrder DEF Rail!Granted

\* A new target keeps the invariant.
LEMMA RetargetStep ==
  ASSUME IInv, NEW mv \in Nat, NEW margin \in Nat, NEW v \in 0..CodeMax,
         Retarget(mv, margin, v), sc_margin_mv' \in Nat
  PROVE  IInv' /\ \E m \in MinMv..MaxMv : Rail!SetTarget(m)
<1> DEFINE granted == Rail!Granted(mv)
           code == MvToCode(granted)
           trip == IF granted > margin THEN granted - margin ELSE 0
<1>1. granted \in MinMv..MaxMv /\ granted \in Nat /\ granted # 0
      /\ (granted > RegMaxMv => granted = MaxMv)
  BY GrantedType, Constants, ConstantOrder
<1>2. code \in 0..CodeMax /\ trip \in Nat
  BY <1>1, MvToCodeType
<1>3. MvToCode(trip) \in 0..CodeMax
  BY <1>2, MvToCodeType
<1>4. /\ target_mv' = granted /\ v_set_target' = code /\ sc_code' = MvToCode(trip)
      /\ v_min' = v /\ v_max' = v /\ vout' = v
      /\ state' = "SOFTSTART" /\ run' = 0 /\ ramp_ticks' = 0
      /\ UNCHANGED <<sc_consec, ki, kp, shorted>>
  BY DEF Retarget, gains
<1>5. (passthru_req' <=> granted > RegMaxMv) /\ passthru_req' \in BOOLEAN
  <2>1. passthru_req' = (granted > RegMaxMv)
    BY DEF Retarget, PassThrough
  <2>2. (granted > RegMaxMv) \in BOOLEAN
    OBVIOUS
  <2> QED
    BY <2>1, <2>2, Zenon
<1>6. v_set' \in 0..CodeMax /\ v_set' <= code
  BY <1>2, Constants DEF Retarget, RampStart, Least
<1>7. dac_code' \in 0..GateOff /\ dac_acc' \in 0..AccTop
  <2>1. CASE state \in ColdStates
    BY <2>1, ParkOffValue DEF Retarget
  <2>2. CASE ~(state \in ColdStates)
    BY <2>2 DEF Retarget, gate, IInv, TypeOK
  <2> QED
    BY <2>1, <2>2
<1> HIDE DEF granted, trip
<1>8. TypeOK'
  BY <1>1, <1>2, <1>3, <1>4, <1>5, <1>6, <1>7 DEF IInv, TypeOK
<1>9. GateFollowsState' /\ RunCounts' /\ RampAdvances'
  BY <1>4, <1>6, Constants DEF GateFollowsState, RunCounts, RampAdvances, Watched
<1>10. SetpointInBounds'
  BY <1>4, <1>6 DEF SetpointInBounds, Watched
<1>11. TargetAgrees'
  BY <1>1, <1>4, <1>5 DEF TargetAgrees, MvToCode, Least
<1>12. Rail!SetTarget(granted)
  <2>1. Rail!Granted(granted) = granted
    BY GrantedType DEF granted
  <2> QED
    BY <1>4, <2>1 DEF Rail!SetTarget
<1> QED
  BY <1>1, <1>8, <1>9, <1>10, <1>11, <1>12 DEF IInv

\* A shutdown keeps the invariant.
LEMMA ShutdownStep ==
  ASSUME IInv, Shutdown
  PROVE  IInv' /\ Rail!Shutdown
<1>1. /\ UNCHANGED <<v_set, v_set_target, sc_code, target_mv, sc_margin_mv, passthru_req,
                     sc_consec, v_min, v_max, ki, kp, vout, shorted>>
      /\ state' = "OFF" /\ run' = 0 /\ ramp_ticks' = 0
  BY DEF Shutdown, setpoint, window, gains
<1>2. dac_code' = GateOff /\ dac_acc' = AccTop /\ dac_code' \in 0..GateOff /\ dac_acc' \in 0..AccTop
  BY ParkOffValue DEF Shutdown
<1>3. TypeOK'
  BY <1>1, <1>2 DEF IInv, TypeOK
<1>4. GateFollowsState' /\ RunCounts' /\ RampAdvances'
  BY <1>1, <1>2 DEF GateFollowsState, RunCounts, RampAdvances, Watched
<1>5. SetpointInBounds' /\ TargetAgrees'
  BY <1>1 DEF IInv, SetpointInBounds, TargetAgrees, Watched, MvToCode, Least
<1> QED
  BY <1>1, <1>3, <1>4, <1>5 DEF IInv, Rail!Shutdown

\* Gains, the excursion window and the short itself touch nothing the invariant
\* relates, as long as they stay typed.
LEMMA SideStep ==
  ASSUME IInv,
         UNCHANGED <<state, v_set, v_set_target, sc_code, target_mv, sc_margin_mv, passthru_req,
                     dac_code, dac_acc, sc_consec, run, ramp_ticks>>,
         v_min' \in 0..CodeMax, v_max' \in 0..CodeMax, vout' \in 0..CodeMax,
         ki' \in 0..GainOne, kp' \in 0..GainOne, shorted' \in BOOLEAN
  PROVE  IInv'
<1>1. TypeOK'
  BY DEF IInv, TypeOK
<1>2. GateFollowsState' /\ RunCounts' /\ RampAdvances'
  BY DEF IInv, GateFollowsState, RunCounts, RampAdvances, Watched
<1>3. SetpointInBounds' /\ TargetAgrees'
  BY DEF IInv, SetpointInBounds, TargetAgrees, Watched, MvToCode, Least
<1> QED
  BY <1>1, <1>2, <1>3 DEF IInv

\* What every step keeps and does: the invariant, the earned trip, and a step or a
\* stutter of the supply's promise.
Kept ==
  /\ IInv'
  /\ state' = "FAULT" /\ state # "FAULT" => Watched /\ run' >= ScTicks
  /\ [Rail!Next]_(Rail!vars)

\* Every step keeps the invariant, earns a trip and is a step of the abstract supply.
LEMMA EveryStep ==
  ASSUME IInv, [Next]_vars
  PROVE  Kept
<1>1. CASE Tick
  <2>1. PICK v \in Outputs :
          /\ vout' = v
          /\ \/ \E low \in Flags(v) : TickTrips(v, low) \/ TickParked(v, low) \/ TickRegulates(v, low)
             \/ TickRamps(v)
             \/ TickArrives(v)
          /\ UNCHANGED shorted
    BY <1>1, Zenon DEF Tick
  <2>2. v \in 0..CodeMax
    BY <2>1, OutputsType DEF IInv
  <2>3. CASE \E low \in Flags(v) : TickTrips(v, low) \/ TickParked(v, low) \/ TickRegulates(v, low)
    <3>1. PICK low \in Flags(v) : TickTrips(v, low) \/ TickParked(v, low) \/ TickRegulates(v, low)
      BY <2>3
    <3>2. low \in BOOLEAN
      BY <3>1 DEF Flags
    <3>3. CASE TickTrips(v, low)
      BY <2>1, <2>2, <3>2, <3>3, TripStep DEF Kept, Rail!Next
    <3>4. CASE TickParked(v, low)
      BY <2>1, <2>2, <3>2, <3>4, ParkedStep DEF Kept, Rail!vars
    <3>5. CASE TickRegulates(v, low)
      BY <2>1, <2>2, <3>2, <3>5, RegulatesStep DEF Kept, Rail!vars
    <3> QED
      BY <3>1, <3>3, <3>4, <3>5
  <2>4. CASE TickRamps(v)
    BY <2>1, <2>2, <2>4, RampStep DEF Kept, Rail!vars
  <2>5. CASE TickArrives(v)
    <3>1. state' # "FAULT"
      BY <2>5 DEF TickArrives
    <3> QED
      BY <2>1, <2>2, <2>5, <3>1, ArriveStep DEF Kept, Rail!Next
  <2> QED
    BY <2>1, <2>3, <2>4, <2>5
<1>2. ASSUME NEW mv \in Nat, NEW margin \in Nat, NEW v \in Outputs,
             Retarget(mv, margin, v), sc_margin_mv' \in Nat
      PROVE  Kept
  <2>1. v \in 0..CodeMax
    BY OutputsType DEF IInv
  <2>2. IInv' /\ \E m \in MinMv..MaxMv : Rail!SetTarget(m)
    BY <1>2, <2>1, RetargetStep
  <2>3. state' # "FAULT"
    BY <1>2 DEF Retarget
  <2> QED
    BY <2>2, <2>3 DEF Kept, Rail!Next
<1>3. ASSUME NEW mv \in Requests, SetTarget(mv) PROVE Kept
  <2>1. PICK v \in Outputs : Retarget(mv, sc_margin_mv, v) /\ UNCHANGED sc_margin_mv
    BY <1>3 DEF SetTarget
  <2>2. mv \in Nat /\ sc_margin_mv \in Nat
    BY VregAssumption DEF IInv, TypeOK
  <2> QED
    BY <1>2, <2>1, <2>2
<1>4. ASSUME NEW margin \in Margins, SetScMargin(margin) PROVE Kept
  <2>1. margin \in Nat /\ sc_margin_mv' \in Nat /\ target_mv \in Nat
    BY <1>4, VregAssumption, Constants DEF SetScMargin, IInv, TypeOK
  <2>2. CASE target_mv # 0
    <3>1. PICK v \in Outputs : Retarget(target_mv, margin, v)
      BY <1>4, <2>2 DEF SetScMargin
    <3> QED
      BY <1>2, <2>1, <3>1
  <2>3. CASE target_mv = 0
    <3>1. UNCHANGED <<state, v_set, v_set_target, sc_code, target_mv, passthru_req, dac_code, dac_acc,
                      v_min, v_max, sc_consec, ki, kp, vout, shorted, run, ramp_ticks>>
      BY <1>4, <2>3 DEF SetScMargin, gate, window, gains, history
    <3>2. TypeOK'
      BY <2>1, <3>1 DEF IInv, TypeOK
    <3>3. GateFollowsState' /\ RunCounts' /\ RampAdvances'
      BY <3>1 DEF IInv, GateFollowsState, RunCounts, RampAdvances, Watched
    <3>4. SetpointInBounds' /\ TargetAgrees'
      BY <3>1 DEF IInv, SetpointInBounds, TargetAgrees, Watched, MvToCode, Least
    <3> QED
      BY <3>1, <3>2, <3>3, <3>4 DEF Kept, IInv, Rail!vars
  <2> QED
    BY <2>2, <2>3
<1>5. CASE Shutdown
  <2>1. state' # "FAULT"
    BY <1>5 DEF Shutdown
  <2> QED
    BY <1>5, <2>1, ShutdownStep DEF Kept, Rail!Next
<1>6. ASSUME NEW num \in Nums, NEW den \in Dens, SetKi(num, den) \/ SetKp(num, den) PROVE Kept
  <2>1. ki' \in 0..GainOne /\ kp' \in 0..GainOne
    BY <1>6, GainType DEF SetKi, SetKp, IInv, TypeOK
  <2>2. UNCHANGED <<state, v_set, v_set_target, sc_code, target_mv, sc_margin_mv, passthru_req,
                    dac_code, dac_acc, sc_consec, run, ramp_ticks, v_min, v_max, vout, shorted>>
    BY <1>6 DEF SetKi, SetKp, setpoint, gate, window, history
  <2>3. IInv'
    BY <2>1, <2>2, SideStep DEF IInv, TypeOK
  <2> QED
    BY <2>2, <2>3 DEF Kept, Rail!vars
<1>7. CASE TrackReset
  <2>1. PICK v \in Outputs : vout' = v /\ v_min' = v /\ v_max' = v
    BY <1>7 DEF TrackReset
  <2>2. v \in 0..CodeMax
    BY OutputsType DEF IInv
  <2>3. UNCHANGED <<state, v_set, v_set_target, sc_code, target_mv, sc_margin_mv, passthru_req,
                    dac_code, dac_acc, sc_consec, run, ramp_ticks, ki, kp, shorted>>
    BY <1>7 DEF TrackReset, setpoint, gate, gains, history
  <2>4. IInv'
    BY <2>1, <2>2, <2>3, SideStep DEF IInv, TypeOK
  <2> QED
    BY <2>3, <2>4 DEF Kept, Rail!vars
<1>8. CASE ShortChanges
  <2>1. UNCHANGED <<state, v_set, v_set_target, sc_code, target_mv, sc_margin_mv, passthru_req,
                    dac_code, dac_acc, sc_consec, run, ramp_ticks, v_min, v_max, vout, ki, kp>>
    BY <1>8 DEF ShortChanges, setpoint, gate, window, gains, history
  <2>2. shorted' \in BOOLEAN
    BY <1>8 DEF ShortChanges
  <2>3. IInv'
    BY <2>1, <2>2, SideStep DEF IInv, TypeOK
  <2> QED
    BY <2>1, <2>3 DEF Kept, Rail!vars
<1>9. CASE UNCHANGED vars
  <2>1. UNCHANGED <<state, v_set, v_set_target, sc_code, target_mv, sc_margin_mv, passthru_req,
                    dac_code, dac_acc, sc_consec, run, ramp_ticks, v_min, v_max, vout, ki, kp, shorted>>
    BY <1>9 DEF vars
  <2>2. IInv'
    BY <2>1, SideStep DEF IInv, TypeOK
  <2> QED
    BY <2>1, <2>2 DEF Kept, Rail!vars
<1> QED
  BY <1>1, <1>3, <1>4, <1>5, <1>6, <1>7, <1>8, <1>9 DEF Next

-----------------------------------------------------------------------------
\* The inductive invariant holds in every reachable state.
LEMMA Inductive == Spec => []IInv
<1>1. Init => IInv
  BY InitIInv
<1>2. IInv /\ [Next]_vars => IInv'
  BY EveryStep DEF Kept
<1> QED
  BY <1>1, <1>2, PTL DEF Spec

\* Every variable keeps its width in every reachable state, whatever the gains do.
THEOREM TypeCorrect == Spec => []TypeOK
<1>1. IInv => TypeOK
  BY DEF IInv
<1> QED
  BY <1>1, Inductive, PTL

\* Off means off and pass-through means fully on, with gate and integrator together.
THEOREM GateIsWhereTheStateSays == Spec => []GateFollowsState
<1>1. IInv => GateFollowsState
  BY DEF IInv
<1> QED
  BY <1>1, Inductive, PTL

\* The setpoint stays under its target and rests on it once the ramp is over.
THEOREM SetpointBounded == Spec => []SetpointInBounds
<1>1. IInv => SetpointInBounds
  BY DEF IInv
<1> QED
  BY <1>1, Inductive, PTL

\* A ramp of k ticks has raised the setpoint by at least k steps.
THEOREM RampBounded == Spec => []RampAdvances
<1>1. IInv => RampAdvances
  BY DEF IInv
<1> QED
  BY <1>1, Inductive, PTL

\* The latch is never set by less than a full run of saturated low ticks.
THEOREM TripIsEarned == Spec => TripNeedsAFullRun
<1>1. IInv /\ [Next]_vars
        => [state' = "FAULT" /\ state # "FAULT" => Watched /\ run' >= ScTicks]_vars
  BY EveryStep DEF Kept
<1> QED
  BY <1>1, Inductive, PTL DEF Spec, TripNeedsAFullRun

\* The regulator implements the supply the rest of the firmware is written against.
THEOREM RegulatorIsASupply == Spec => KeepsSupplyPromise
<1>1. Init => Rail!Init
  BY DEF Init, Rail!Init
<1>2. IInv /\ [Next]_vars => [Rail!Next]_(Rail!vars)
  BY EveryStep DEF Kept
<1> QED
  BY <1>1, <1>2, Inductive, PTL DEF Spec, KeepsSupplyPromise, Rail!Spec

\* All of the regulator's fields stay in step, after every order of ticks and calls.
THEOREM StepIsKept == Spec => []StaysInStep
<1>1. TypeOK /\ GateFollowsState /\ SetpointInBounds /\ RampAdvances => StaysInStep
  BY DEF StaysInStep
<1> QED
  BY <1>1, TypeCorrect, GateIsWhereTheStateSays, SetpointBounded, RampBounded, PTL
=============================================================================
