---------------------------- MODULE Probe_proofs ----------------------------
(***************************************************************************)
(* Theorems about Probe, for every supply range, every set of rails and     *)
(* requests, and every ramp that ends within the wait.                      *)
(***************************************************************************)
EXTENDS Probe, TLAPS

\* Every variable but the Boolean ones and the layers.
Domains ==
    /\ nominal_mv \in Rails \cup {-1} /\ forced_mv \in Rails \cup {0}
    /\ state \in {"OFF", "SOFTSTART", "ON", "PASSTHRU", "FAULT"}
    /\ target_mv \in {0} \cup MinMv..MaxMv
    /\ ramp \in 0..RampPolls
    /\ current_mode \in Modes
    /\ threshold \in {0} \cup {ThresholdFor(mv) : mv \in Rails}
    /\ pc \in {"idle", "supply", "retarget", "look", "sleep", "frame"}
    /\ rail \in Rails \cup {0}
    /\ waited \in 0..(RampPolls + 1)
    /\ rc \in {"ok", "EINVAL", "ENODEV", "EBUSY", "EIO", "EALREADY"}

Flags ==
    /\ present \in BOOLEAN /\ inhibit \in BOOLEAN /\ shorted \in BOOLEAN
    /\ capture_on \in BOOLEAN /\ latched \in BOOLEAN
    /\ layers \subseteq {"bus", "passive", "fault"}

\* A call that has looked up a rail has set the threshold for it.
RailIsSet == pc # "idle" => rail \in Rails /\ threshold = ThresholdFor(rail)

\* Once it waits, the supply has been sent there and is not off.
SupplyIsSent ==
    /\ pc \in {"look", "sleep", "frame"} => target_mv = rail /\ state # "OFF"
    /\ pc = "frame" => state # "SOFTSTART"

\* The wait never runs ahead of the ramp by more than the look after its end.
WaitFollowsRamp ==
    /\ pc \in {"supply", "retarget"} => waited = 0
    /\ pc = "sleep" => waited <= RampPolls
    /\ pc \in {"look", "sleep"} /\ state = "SOFTSTART" => waited <= ramp

\* A fault that was there at the start is seen at the first look.
FaultIsMet == latched => pc = "supply" /\ state = "FAULT"

IInv ==
    /\ Domains /\ Flags
    /\ RailIsSet /\ SupplyIsSent /\ WaitFollowsRamp /\ FaultIsMet
    /\ WireIsOwned

-----------------------------------------------------------------------------
\* The supply grants every logic rail as it is asked for.
LEMMA RailsAreGranted == \A mv \in Rails : Reg!Granted(mv) = mv /\ mv \in MinMv..MaxMv /\ mv \in Nat /\ mv > 0
BY ProbeAssumption DEF Reg!Granted

\* A call that is not refused has a rail of the detector's.
LEMMA NotRefused ==
    ASSUME Domains, Refusal = "none"
    PROVE  NominalMv \in Rails /\ current_mode = "mdio" /\ Ready
BY RailsAreGranted DEF Domains, Refusal, NominalMv, Ready

\* Refusals are error codes.
LEMMA RefusalCodes == Refusal \in {"ENODEV", "EBUSY", "none"}
BY DEF Refusal

\* Whatever is asked of it, the supply takes a target in its range.
LEMMA GrantedInRange == \A mv \in Nat : Reg!Granted(mv) \in MinMv..MaxMv
BY ProbeAssumption DEF Reg!Granted

LEMMA InitIsInv == Init => IInv
<1> SUFFICES ASSUME Init PROVE IInv
  OBVIOUS
<1>1. Domains
  BY ProbeAssumption DEF Init, Reg!Init, Domains, Modes
<1>2. Flags
  BY DEF Init, Flags
<1>3. RailIsSet /\ SupplyIsSent /\ WaitFollowsRamp
  BY DEF Init, RailIsSet, SupplyIsSent, WaitFollowsRamp
<1>4. FaultIsMet /\ WireIsOwned
  BY Zenon DEF Init, FaultIsMet, WireIsOwned
<1> QED
  BY <1>1, <1>2, <1>3, <1>4 DEF IInv

\* A step keeps the domains.
LEMMA DomainsStep ==
    ASSUME Domains, RailIsSet, SupplyIsSent, WaitFollowsRamp, Next
    PROVE  Domains'
<1> USE DEF Domains, RailIsSet, WaitFollowsRamp, SupplyIsSent, vars, target, supply, owned, call
<1>1. CASE DetectorPolls
  BY <1>1, ProbeAssumption DEF DetectorPolls
<1>2. CASE RampEnds
  BY <1>2, ProbeAssumption DEF RampEnds, Reg!Settle, Reg!Held
<1>3. CASE ShortTrips
  BY <1>3, ProbeAssumption DEF ShortTrips, Reg!Trip
<1>4. CASE ShortChanges
  BY <1>4, ProbeAssumption DEF ShortChanges
<1>5. CASE XferRefused
  BY <1>5, ProbeAssumption, RefusalCodes DEF XferRefused, Returns, Idle
<1>6. CASE XferBegins
  <2>1. Refusal = "none" /\ NominalMv \in Rails
    BY <1>6, NotRefused DEF XferBegins
  <2>2. threshold' \in {ThresholdFor(mv) : mv \in Rails} /\ rail' \in Rails
    BY <1>6, <2>1 DEF XferBegins
  <2> QED
    BY <1>6, <2>2, ProbeAssumption DEF XferBegins
<1>7. CASE SupplyChecked
  BY <1>7, ProbeAssumption DEF SupplyChecked, Returns, FaultSeen, Unsuitable
<1>8. CASE Retarget
  BY <1>8, ProbeAssumption, RailsAreGranted DEF Retarget, Reg!SetTarget
<1>9. CASE LookArrived
  BY <1>9, ProbeAssumption DEF LookArrived, Patience, Arrived
<1>10. CASE LookFails
  BY <1>10, ProbeAssumption DEF LookFails, Patience, Returns
<1>11. CASE LookWaits
  BY <1>11, ProbeAssumption DEF LookWaits, Patience, Arrived
<1>12. CASE SleepEnds
  BY <1>12, ProbeAssumption DEF SleepEnds
<1>13. CASE FrameEnds
  BY <1>13, ProbeAssumption DEF FrameEnds, Returns
<1>14. ASSUME NEW mv \in Rails \cup {0}, ForceLevel(mv) PROVE Domains'
  BY <1>14, ProbeAssumption DEF ForceLevel, Idle, Returns
<1>15. ASSUME NEW mv \in Requests, VregSet(mv) PROVE Domains'
  BY <1>15, ProbeAssumption, GrantedInRange DEF VregSet, Idle, Returns, Reg!SetTarget
<1>16. CASE VregOff
  BY <1>16, ProbeAssumption DEF VregOff, Idle, Returns, Reg!Shutdown
<1>17. CASE VregGet
  BY <1>17, ProbeAssumption DEF VregGet, Idle, Returns
<1>18. CASE CaptureStart
  BY <1>18, ProbeAssumption, NotRefused, RefusalCodes DEF CaptureStart, Idle, Returns
<1>19. CASE CaptureNothing
  BY <1>19, ProbeAssumption DEF CaptureNothing, Idle, Returns
<1>20. CASE CaptureEnds
  BY <1>20, ProbeAssumption DEF CaptureEnds, Idle, Returns
<1>21. ASSUME NEW m \in Modes, ConnectorSetMode(m) PROVE Domains'
  BY <1>21, ProbeAssumption DEF ConnectorSetMode, Idle, Returns, StopsCapture
<1> QED
  BY <1>1, <1>2, <1>3, <1>4, <1>5, <1>6, <1>7, <1>8, <1>9, <1>10, <1>11, <1>12, <1>13, <1>14, <1>15, <1>16, <1>17, <1>18, <1>19, <1>20, <1>21 DEF Next, Continue

\* A step keeps the rail, the threshold and the supply of a call together.
LEMMA RailStep ==
    ASSUME Domains, RailIsSet, SupplyIsSent, Next
    PROVE  (RailIsSet /\ SupplyIsSent)'
<1> USE DEF RailIsSet, SupplyIsSent, vars, target, supply, owned, call
<1>1. CASE DetectorPolls
  BY <1>1 DEF DetectorPolls
<1>2. CASE RampEnds
  BY <1>2 DEF RampEnds, Reg!Settle, Reg!Held
<1>3. CASE ShortTrips
  BY <1>3 DEF ShortTrips, Reg!Trip
<1>4. CASE ShortChanges
  BY <1>4 DEF ShortChanges
<1>5. CASE XferRefused
  BY <1>5 DEF XferRefused, Returns, Idle
<1>6. CASE XferBegins
  <2>1. Refusal = "none" /\ NominalMv \in Rails
    BY <1>6, NotRefused DEF XferBegins
  <2> QED
    BY <1>6, <2>1 DEF XferBegins
<1>7. CASE SupplyChecked
  BY <1>7 DEF SupplyChecked, Returns, FaultSeen, Unsuitable
<1>8. CASE Retarget
  <2>1. rail \in Rails
    BY <1>8 DEF Retarget
  <2> QED
    BY <1>8, <2>1, RailsAreGranted DEF Retarget, Reg!SetTarget
<1>9. CASE LookArrived
  BY <1>9 DEF LookArrived, Patience, Arrived
<1>10. CASE LookFails
  BY <1>10 DEF LookFails, Patience, Returns
<1>11. CASE LookWaits
  BY <1>11 DEF LookWaits, Patience, Arrived
<1>12. CASE SleepEnds
  BY <1>12 DEF SleepEnds
<1>13. CASE FrameEnds
  BY <1>13 DEF FrameEnds, Returns
<1>14. ASSUME NEW mv \in Rails \cup {0}, ForceLevel(mv) PROVE (RailIsSet /\ SupplyIsSent)'
  BY <1>14 DEF ForceLevel, Idle, Returns
<1>15. ASSUME NEW mv \in Requests, VregSet(mv) PROVE (RailIsSet /\ SupplyIsSent)'
  BY <1>15 DEF VregSet, Idle, Returns, Reg!SetTarget
<1>16. CASE VregOff
  BY <1>16 DEF VregOff, Idle, Returns, Reg!Shutdown
<1>17. CASE VregGet
  BY <1>17 DEF VregGet, Idle, Returns
<1>18. CASE CaptureStart
  BY <1>18 DEF CaptureStart, Idle, Returns
<1>19. CASE CaptureNothing
  BY <1>19 DEF CaptureNothing, Idle, Returns
<1>20. CASE CaptureEnds
  BY <1>20 DEF CaptureEnds, Idle, Returns
<1>21. ASSUME NEW m \in Modes, ConnectorSetMode(m) PROVE (RailIsSet /\ SupplyIsSent)'
  BY <1>21 DEF ConnectorSetMode, Idle, Returns, StopsCapture
<1> QED
  BY <1>1, <1>2, <1>3, <1>4, <1>5, <1>6, <1>7, <1>8, <1>9, <1>10, <1>11, <1>12, <1>13, <1>14, <1>15, <1>16, <1>17, <1>18, <1>19, <1>20, <1>21 DEF Next, Continue

\* A step keeps the wait behind the ramp.
LEMMA WaitStep ==
    ASSUME Domains, SupplyIsSent, WaitFollowsRamp, Next
    PROVE  WaitFollowsRamp'
<1> USE DEF WaitFollowsRamp, Domains, SupplyIsSent, vars, target, supply, owned, call
<1>1. CASE DetectorPolls
  BY <1>1, ProbeAssumption DEF DetectorPolls
<1>2. CASE RampEnds
  BY <1>2, ProbeAssumption DEF RampEnds, Reg!Settle, Reg!Held
<1>3. CASE ShortTrips
  BY <1>3, ProbeAssumption DEF ShortTrips, Reg!Trip
<1>4. CASE ShortChanges
  BY <1>4, ProbeAssumption DEF ShortChanges
<1>5. CASE XferRefused
  BY <1>5, ProbeAssumption DEF XferRefused, Returns, Idle
<1>6. CASE XferBegins
  BY <1>6, ProbeAssumption DEF XferBegins, Idle
<1>7. CASE SupplyChecked
  BY <1>7, ProbeAssumption DEF SupplyChecked, Returns, FaultSeen, Unsuitable
<1>8. CASE Retarget
  BY <1>8, ProbeAssumption DEF Retarget, Reg!SetTarget
<1>9. CASE LookArrived
  BY <1>9, ProbeAssumption DEF LookArrived, Patience, Arrived
<1>10. CASE LookFails
  BY <1>10, ProbeAssumption DEF LookFails, Patience, Returns
<1>11. CASE LookWaits
  BY <1>11, ProbeAssumption DEF LookWaits, Patience, Arrived
<1>12. CASE SleepEnds
  BY <1>12, ProbeAssumption DEF SleepEnds
<1>13. CASE FrameEnds
  BY <1>13, ProbeAssumption DEF FrameEnds, Returns
<1>14. ASSUME NEW mv \in Rails \cup {0}, ForceLevel(mv) PROVE WaitFollowsRamp'
  BY <1>14, ProbeAssumption DEF ForceLevel, Idle, Returns
<1>15. ASSUME NEW mv \in Requests, VregSet(mv) PROVE WaitFollowsRamp'
  BY <1>15, ProbeAssumption DEF VregSet, Idle, Returns, Reg!SetTarget
<1>16. CASE VregOff
  BY <1>16, ProbeAssumption DEF VregOff, Idle, Returns, Reg!Shutdown
<1>17. CASE VregGet
  BY <1>17, ProbeAssumption DEF VregGet, Idle, Returns
<1>18. CASE CaptureStart
  BY <1>18, ProbeAssumption DEF CaptureStart, Idle, Returns
<1>19. CASE CaptureNothing
  BY <1>19, ProbeAssumption DEF CaptureNothing, Idle, Returns
<1>20. CASE CaptureEnds
  BY <1>20, ProbeAssumption DEF CaptureEnds, Idle, Returns
<1>21. ASSUME NEW m \in Modes, ConnectorSetMode(m) PROVE WaitFollowsRamp'
  BY <1>21, ProbeAssumption DEF ConnectorSetMode, Idle, Returns, StopsCapture
<1> QED
  BY <1>1, <1>2, <1>3, <1>4, <1>5, <1>6, <1>7, <1>8, <1>9, <1>10, <1>11, <1>12, <1>13, <1>14, <1>15, <1>16, <1>17, <1>18, <1>19, <1>20, <1>21 DEF Next, Continue

\* A step keeps the flags.
LEMMA FlagsStep ==
    ASSUME Flags, Next
    PROVE  Flags'
<1> USE DEF Flags, vars, target, supply, owned, call
<1>1. CASE DetectorPolls
  BY <1>1 DEF DetectorPolls
<1>2. CASE RampEnds
  BY <1>2 DEF RampEnds, Reg!Settle, Reg!Held
<1>3. CASE ShortTrips
  BY <1>3 DEF ShortTrips, Reg!Trip
<1>4. CASE ShortChanges
  BY <1>4 DEF ShortChanges
<1>5. CASE XferRefused
  BY <1>5 DEF XferRefused, Returns, Idle
<1>6. CASE XferBegins
  BY <1>6 DEF XferBegins, Idle
<1>7. CASE SupplyChecked
  BY <1>7 DEF SupplyChecked, Returns, FaultSeen, Unsuitable
<1>8. CASE Retarget
  BY <1>8 DEF Retarget, Reg!SetTarget
<1>9. CASE LookArrived
  BY <1>9 DEF LookArrived, Patience, Arrived
<1>10. CASE LookFails
  BY <1>10 DEF LookFails, Patience, Returns
<1>11. CASE LookWaits
  BY <1>11 DEF LookWaits, Patience, Arrived
<1>12. CASE SleepEnds
  BY <1>12 DEF SleepEnds
<1>13. CASE FrameEnds
  BY <1>13 DEF FrameEnds, Returns
<1>14. ASSUME NEW mv \in Rails \cup {0}, ForceLevel(mv) PROVE Flags'
  BY <1>14 DEF ForceLevel, Idle, Returns
<1>15. ASSUME NEW mv \in Requests, VregSet(mv) PROVE Flags'
  BY <1>15 DEF VregSet, Idle, Returns, Reg!SetTarget
<1>16. CASE VregOff
  BY <1>16 DEF VregOff, Idle, Returns, Reg!Shutdown
<1>17. CASE VregGet
  BY <1>17 DEF VregGet, Idle, Returns
<1>18. CASE CaptureStart
  BY <1>18 DEF CaptureStart, Idle, Returns
<1>19. CASE CaptureNothing
  BY <1>19 DEF CaptureNothing, Idle, Returns
<1>20. CASE CaptureEnds
  BY <1>20 DEF CaptureEnds, Idle, Returns
<1>21. ASSUME NEW m \in Modes, ConnectorSetMode(m) PROVE Flags'
  BY <1>21 DEF ConnectorSetMode, Idle, Returns, StopsCapture
<1> QED
  BY <1>1, <1>2, <1>3, <1>4, <1>5, <1>6, <1>7, <1>8, <1>9, <1>10, <1>11, <1>12, <1>13, <1>14, <1>15, <1>16, <1>17, <1>18, <1>19, <1>20, <1>21 DEF Next, Continue

\* A step keeps a fault that was there.
LEMMA FaultStep ==
    ASSUME Domains, Flags, FaultIsMet, Next
    PROVE  FaultIsMet'
<1> USE DEF FaultIsMet, vars, target, supply, owned, call
<1>1. CASE DetectorPolls
  BY <1>1 DEF DetectorPolls
<1>2. CASE RampEnds
  BY <1>2 DEF RampEnds, Reg!Settle, Reg!Held
<1>3. CASE ShortTrips
  BY <1>3 DEF ShortTrips, Reg!Trip
<1>4. CASE ShortChanges
  BY <1>4 DEF ShortChanges
<1>5. CASE XferRefused
  BY <1>5 DEF XferRefused, Returns, Idle
<1>6. CASE XferBegins
  BY <1>6 DEF XferBegins, Idle
<1>7. CASE SupplyChecked
  BY <1>7 DEF SupplyChecked, Returns, FaultSeen, Unsuitable
<1>8. CASE Retarget
  BY <1>8 DEF Retarget, Reg!SetTarget
<1>9. CASE LookArrived
  BY <1>9 DEF LookArrived, Patience, Arrived
<1>10. CASE LookFails
  BY <1>10 DEF LookFails, Patience, Returns
<1>11. CASE LookWaits
  BY <1>11 DEF LookWaits, Patience, Arrived
<1>12. CASE SleepEnds
  BY <1>12 DEF SleepEnds
<1>13. CASE FrameEnds
  BY <1>13 DEF FrameEnds, Returns
<1>14. ASSUME NEW mv \in Rails \cup {0}, ForceLevel(mv) PROVE FaultIsMet'
  BY <1>14 DEF ForceLevel, Idle, Returns
<1>15. ASSUME NEW mv \in Requests, VregSet(mv) PROVE FaultIsMet'
  BY <1>15 DEF VregSet, Idle, Returns, Reg!SetTarget
<1>16. CASE VregOff
  BY <1>16 DEF VregOff, Idle, Returns, Reg!Shutdown
<1>17. CASE VregGet
  BY <1>17 DEF VregGet, Idle, Returns
<1>18. CASE CaptureStart
  BY <1>18 DEF CaptureStart, Idle, Returns
<1>19. CASE CaptureNothing
  BY <1>19 DEF CaptureNothing, Idle, Returns
<1>20. CASE CaptureEnds
  BY <1>20 DEF CaptureEnds, Idle, Returns
<1>21. ASSUME NEW m \in Modes, ConnectorSetMode(m) PROVE FaultIsMet'
  BY <1>21 DEF ConnectorSetMode, Idle, Returns, StopsCapture
<1> QED
  BY <1>1, <1>2, <1>3, <1>4, <1>5, <1>6, <1>7, <1>8, <1>9, <1>10, <1>11, <1>12, <1>13, <1>14, <1>15, <1>16, <1>17, <1>18, <1>19, <1>20, <1>21 DEF Next, Continue

\* A step keeps the ownership of the wire.
LEMMA WireStep ==
    ASSUME Domains, Flags, WireIsOwned, Next
    PROVE  WireIsOwned'
<1> USE DEF WireIsOwned, vars, target, supply, owned, call
<1>1. CASE DetectorPolls
  BY <1>1 DEF DetectorPolls
<1>2. CASE RampEnds
  BY <1>2 DEF RampEnds, Reg!Settle, Reg!Held
<1>3. CASE ShortTrips
  BY <1>3 DEF ShortTrips, Reg!Trip
<1>4. CASE ShortChanges
  BY <1>4 DEF ShortChanges
<1>5. CASE XferRefused
  BY <1>5 DEF XferRefused, Returns, Idle
<1>6. CASE XferBegins
  BY <1>6 DEF XferBegins, Idle
<1>7. CASE SupplyChecked
  BY <1>7 DEF SupplyChecked, Returns, FaultSeen, Unsuitable
<1>8. CASE Retarget
  BY <1>8 DEF Retarget, Reg!SetTarget
<1>9. CASE LookArrived
  BY <1>9 DEF LookArrived, Patience, Arrived
<1>10. CASE LookFails
  BY <1>10 DEF LookFails, Patience, Returns
<1>11. CASE LookWaits
  BY <1>11 DEF LookWaits, Patience, Arrived
<1>12. CASE SleepEnds
  BY <1>12 DEF SleepEnds
<1>13. CASE FrameEnds
  BY <1>13 DEF FrameEnds, Returns
<1>14. ASSUME NEW mv \in Rails \cup {0}, ForceLevel(mv) PROVE WireIsOwned'
  BY <1>14 DEF ForceLevel, Idle, Returns
<1>15. ASSUME NEW mv \in Requests, VregSet(mv) PROVE WireIsOwned'
  BY <1>15 DEF VregSet, Idle, Returns, Reg!SetTarget
<1>16. CASE VregOff
  BY <1>16 DEF VregOff, Idle, Returns, Reg!Shutdown
<1>17. CASE VregGet
  BY <1>17 DEF VregGet, Idle, Returns
<1>18. CASE CaptureStart
  BY <1>18, NotRefused DEF CaptureStart, Idle, Returns
<1>19. CASE CaptureNothing
  BY <1>19 DEF CaptureNothing, Idle, Returns
<1>20. CASE CaptureEnds
  BY <1>20 DEF CaptureEnds, Idle, Returns
<1>21. ASSUME NEW m \in Modes, ConnectorSetMode(m) PROVE WireIsOwned'
  BY <1>21 DEF ConnectorSetMode, Idle, Returns, StopsCapture
<1> QED
  BY <1>1, <1>2, <1>3, <1>4, <1>5, <1>6, <1>7, <1>8, <1>9, <1>10, <1>11, <1>12, <1>13, <1>14, <1>15, <1>16, <1>17, <1>18, <1>19, <1>20, <1>21 DEF Next, Continue

-----------------------------------------------------------------------------
\* The invariant is inductive.
LEMMA Inductive == IInv /\ [Next]_vars => IInv'
<1>1. ASSUME IInv, Next PROVE IInv'
  BY <1>1, DomainsStep, RailStep, WaitStep, FlagsStep, FaultStep, WireStep DEF IInv
<1>2. ASSUME IInv, UNCHANGED vars PROVE IInv'
  <2> USE <1>2 DEF vars, IInv
  <2>1. Domains'
    BY DEF Domains
  <2>2. Flags'
    BY DEF Flags
  <2>3. (RailIsSet /\ SupplyIsSent /\ WaitFollowsRamp)'
    BY DEF RailIsSet, SupplyIsSent, WaitFollowsRamp
  <2>4. (FaultIsMet /\ WireIsOwned)'
    BY DEF FaultIsMet, WireIsOwned
  <2> QED
    BY <2>1, <2>2, <2>3, <2>4
<1> QED
  BY <1>1, <1>2

LEMMA Invariance == Spec => []IInv
<1> QED
  BY InitIsInv, Inductive, PTL DEF Spec

-----------------------------------------------------------------------------
\* Whatever the calls, the detector and the supply do, no state is outside its domain:
\* the threshold in particular is always that of a logic rail.
THEOREM TypeCorrect == Spec => []TypeOK
<1>1. IInv => TypeOK
  <2> SUFFICES ASSUME Domains, Flags PROVE TypeOK
    BY DEF IInv
  <2>1. rc \in {"ok", "EINVAL", "ENODEV", "EBUSY", "EIO", "EALREADY", "ETIMEDOUT"}
    BY DEF Domains
  <2> QED
    BY Zenon, <2>1 DEF Domains, Flags, TypeOK
<1> QED
  BY <1>1, Invariance, PTL

\* A frame is driven at the rail that its threshold was set for, whatever moved since.
THEOREM OneRailPerFrame == Spec => []ThresholdMatchesSupply
<1>1. IInv => ThresholdMatchesSupply
  BY DEF IInv, RailIsSet, SupplyIsSent, ThresholdMatchesSupply
<1> QED
  BY <1>1, Invariance, PTL

\* No frame is driven from a ramping or absent supply.
THEOREM FramesAfterTheRamp == Spec => []NoFrameInTheRamp
<1>1. IInv => NoFrameInTheRamp
  BY DEF IInv, Domains, SupplyIsSent, NoFrameInTheRamp
<1> QED
  BY <1>1, Invariance, PTL

\* A transaction leaves a short circuit latched that was latched when it began.
THEOREM LatchSurvivesTransactions == Spec => []FaultIsKept
<1>1. IInv => FaultIsKept
  BY DEF IInv, FaultIsMet, FaultIsKept
<1> QED
  BY <1>1, Invariance, PTL

\* supply_at_rail() never times out, if a ramp ends two looks before its patience does.
THEOREM NoTimeout == Spec => []SupplyIsWaitedOut
<1>1. IInv => SupplyIsWaitedOut
  BY DEF IInv, Domains, SupplyIsWaitedOut
<1> QED
  BY <1>1, Invariance, PTL

\* Capture, connector, detector and indication agree about who has the wire.
THEOREM WireHasOneOwner == Spec => []WireIsOwned
<1>1. IInv => WireIsOwned
  BY DEF IInv
<1> QED
  BY <1>1, Invariance, PTL

\* Both: every wait for the supply ends, and ends with the supply there.
THEOREM SupplyAwaited == Spec => []SupplyIsAwaited
<1>1. NoFrameInTheRamp /\ SupplyIsWaitedOut => SupplyIsAwaited
  BY DEF SupplyIsAwaited
<1> QED
  BY <1>1, FramesAfterTheRamp, NoTimeout, PTL
=============================================================================
