------------------------------- MODULE Supply -------------------------------
(***************************************************************************)
(* What the programmable supply promises the rest of the firmware           *)
(* (mdioprobe_vreg.h): after a target is set it ramps, then holds the rail  *)
(* that target asks for, and only its own short-circuit trip or a new call  *)
(* takes it away again.                                                     *)
(***************************************************************************)
EXTENDS Integers

CONSTANTS
    MinMv,      \* VREG_MIN_MV
    RegMaxMv,   \* VREG_REG_MAX_MV: above this the input rail is passed through
    MaxMv       \* VREG_MAX_MV

VARIABLES state,        \* enum vreg_state
          target_mv     \* requested output voltage, 0 before the first request

vars == <<state, target_mv>>

\* The target that a request for mv selects.
Granted(mv) == IF mv > RegMaxMv THEN MaxMv ELSE IF mv < MinMv THEN MinMv ELSE mv

\* The state in which that target is held.
Held(mv) == IF mv > RegMaxMv THEN "PASSTHRU" ELSE "ON"

Init ==
    /\ state = "OFF"
    /\ target_mv = 0

\* mdioprobe_vreg_set_target()
SetTarget(mv) ==
    /\ state' = "SOFTSTART"
    /\ target_mv' = Granted(mv)

\* mdioprobe_vreg_shutdown()
Shutdown ==
    /\ state' = "OFF"
    /\ UNCHANGED target_mv

\* The ramp reaches the target.
Settle ==
    /\ state = "SOFTSTART"
    /\ state' = Held(target_mv)
    /\ UNCHANGED target_mv

\* A short circuit is latched.
Trip ==
    /\ state \in {"ON", "PASSTHRU"}
    /\ state' = "FAULT"
    /\ UNCHANGED target_mv

Next ==
    \/ \E mv \in MinMv..MaxMv : SetTarget(mv)   \* any other request is granted like one of these
    \/ Shutdown
    \/ Settle
    \/ Trip

Spec == Init /\ [][Next]_vars
=============================================================================
