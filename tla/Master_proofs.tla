--------------------------- MODULE Master_proofs ---------------------------
(***************************************************************************)
(* Proofs about the MDIO master and its buffer, for every linger, settle    *)
(* time and number of trim rounds MasterAssumption allows.                  *)
(***************************************************************************)
EXTENDS Master, TLAPS

\* The constants are positive, and the settle time fits the linger.
LEMMA Constants ==
  /\ Linger \in Nat /\ Settle \in Nat /\ TrimRounds \in Nat
  /\ Linger > 0 /\ Settle > 0 /\ TrimRounds > 0 /\ Settle <= Linger
  BY MasterAssumption

-----------------------------------------------------------------------------
(* The inductive invariant.                                                 *)

FramePcs  == {"buffer", "settle", "arm", "ready", "frame", "stamp"}
TimingPcs == {"time", "timing", "timed"}
ModePcs   == {"cancel", "drop", "park", "switch"}

\* Which call is where.
JobsInPlace ==
  /\ pc = "idle" => job = "none"
  /\ pc = "lock" => job \in {"transact", "measure"}
  /\ pc \in FramePcs => job = "transact"
  /\ pc = "init" => job \in {"transact", "mode"}
  /\ pc \in TimingPcs => job # "none"
  /\ pc \in ModePcs => job = "mode"

\* The lock is held by a frame and by a timing run a caller asked for.
LockWhereNeeded ==
  /\ pc \in FramePcs => lock = "main"
  /\ pc \in TimingPcs /\ job = "measure" => lock = "main"
  /\ lock = "main" => pc \in FramePcs \/ (pc \in TimingPcs /\ job = "measure")

\* Where the buffer is known to be up, and where it is known to be down.
BufferKnown ==
  /\ buffer_on => mdc_en
  /\ mdc_en => buffer_on
  /\ buffer_on => initialised /\ current_mode = "mdio"
  /\ pc \in {"lock"} \cup FramePcs => initialised
  /\ pc \in {"settle", "arm", "ready", "frame", "stamp"} => buffer_on
  /\ pc \in {"park", "switch"} => ~buffer_on
  /\ pc \in {"init"} \cup TimingPcs /\ job = "mode" => ~buffer_on
  /\ pc \in {"init"} \cup TimingPcs /\ job = "transact" => ~initialised

\* Whose the pads are.
PadsOwned ==
  /\ job = "transact" => current_mode = "mdio"
  /\ pb8 = "uart" => current_mode = "uart"
  /\ pb8 = "i2c" => current_mode = "i2c"
  /\ pb9 = "uart" => current_mode = "uart"
  /\ pb9 = "i2c" => current_mode = "i2c"
  /\ pc = "switch" \/ (pc \in {"init"} \cup TimingPcs /\ job = "mode")
        => pb8 = "analog" /\ pb9 = "analog"

\* A release is pending exactly while there is a buffer to drop.
ReleaseKnown ==
  /\ due # None \/ waiting => buffer_on
  /\ buffer_on => due # None \/ waiting \/ pc \in {"settle", "arm", "drop"}
  /\ due = None \/ ~waiting
  /\ pc \in {"settle", "arm", "drop"} => due = None /\ ~waiting

\* The age the handler reads and the time since the wire was used.
AgeIsHonest ==
  /\ quiet <= age \/ age = Linger
  /\ pc \notin {"frame", "stamp"} => age <= quiet
  /\ pc # "ready" /\ due > 0 => due + quiet <= Linger

\* There is a timing run left wherever one is about to begin.
RoundsLeftOver ==
  /\ pc = "time" => rounds > 0
  /\ pc = "lock" /\ job = "measure" => rounds > 0

\* TypeOK in two parts: the Booleans, and everything else.
FlagsOK ==
  /\ initialised \in BOOLEAN /\ calibrated \in BOOLEAN
  /\ buffer_on \in BOOLEAN /\ mdc_en \in BOOLEAN /\ waiting \in BOOLEAN

DomainsOK ==
  /\ pc \in {"idle", "lock", "init"} \cup FramePcs \cup TimingPcs \cup ModePcs
  /\ job \in {"none", "transact", "clock", "measure", "mode"}
  /\ want_mode \in Modes
  /\ rounds \in 0..(CalRuns + TrimRounds)
  /\ lock \in {"free", "main"}
  /\ age \in 0..Linger /\ quiet \in 0..(Linger + 1)
  /\ due \in {None} \cup 0..Linger
  /\ current_mode \in Modes
  /\ pb8 \in {"analog"} \cup Modes
  /\ pb9 \in {"analog", "uart", "i2c"}

IInv ==
  /\ FlagsOK
  /\ DomainsOK
  /\ JobsInPlace
  /\ LockWhereNeeded
  /\ BufferKnown
  /\ PadsOwned
  /\ ReleaseKnown
  /\ AgeIsHonest
  /\ RoundsLeftOver

-----------------------------------------------------------------------------
\* The starting state satisfies the invariant.
LEMMA InitIInv ==
  ASSUME Init
  PROVE  IInv
<1> USE Constants DEF IInv, FlagsOK, DomainsOK, JobsInPlace, LockWhereNeeded, BufferKnown, PadsOwned,
      ReleaseKnown, AgeIsHonest, RoundsLeftOver, FramePcs, TimingPcs, ModePcs, Modes, CalRuns, None
<1>1. FlagsOK
  BY DEF Init
<1>2. DomainsOK
  BY DEF Init
<1>3. /\ JobsInPlace /\ LockWhereNeeded /\ BufferKnown /\ PadsOwned
      /\ ReleaseKnown /\ AgeIsHonest /\ RoundsLeftOver
  BY DEF Init
<1> QED
  BY <1>1, <1>2, <1>3

\* What the handler may do: drop a buffer that has been quiet for a linger, put the
\* release off, or block on the lock.
HandlerDrops ==
  /\ buffer_on /\ age >= Linger /\ lock = "free"
  /\ buffer_on' = FALSE /\ mdc_en' = FALSE /\ due' = None /\ waiting' = FALSE

HandlerPutsOff ==
  /\ buffer_on /\ age < Linger /\ lock = "free" /\ (due # None \/ waiting)
  /\ due' = Linger - age /\ waiting' = FALSE
  /\ UNCHANGED buffer

HandlerBlocks ==
  /\ due = 0 /\ lock # "free" /\ due' = None /\ waiting' = TRUE
  /\ UNCHANGED buffer

HandlerLeaves == UNCHANGED <<call, lock, setup, age, quiet, pads>>

\* Every step of the handler is one of the three.
LEMMA HandlerCases ==
  ASSUME IInv, Handler
  PROVE  HandlerLeaves /\ (HandlerDrops \/ HandlerPutsOff \/ HandlerBlocks)
<1>1. age \in Nat /\ lock \in {"free", "main"}
  BY Constants DEF IInv, FlagsOK, DomainsOK
<1>2. CASE ReleaseFires
  <2>1. due # None /\ buffer_on /\ waiting = FALSE
    BY <1>2 DEF ReleaseFires, IInv, FlagsOK, DomainsOK, ReleaseKnown, None
  <2>2. CASE lock = "free"
    <3>1. Handle(None) /\ UNCHANGED waiting /\ HandlerLeaves
      BY <1>2, <2>2 DEF ReleaseFires, HandlerMayEnter, HandlerLeaves
    <3>2. CASE age >= Linger
      BY <2>1, <2>2, <3>1, <3>2 DEF Handle, QuietLongEnough, HandlerDrops
    <3>3. CASE age < Linger
      BY <1>1, <2>1, <2>2, <3>1, <3>3, Constants DEF Handle, QuietLongEnough, HandlerPutsOff
    <3> QED
      BY <1>1, <3>1, <3>2, <3>3, Constants
  <2>3. CASE lock # "free"
    BY <1>2, <2>3 DEF ReleaseFires, HandlerMayEnter, HandlerLeaves, HandlerBlocks
  <2> QED
    BY <2>2, <2>3
<1>3. CASE ReleaseResumes
  <2>1. due = None /\ buffer_on /\ lock = "free" /\ waiting
    BY <1>3 DEF ReleaseResumes, IInv, ReleaseKnown
  <2>2. Handle(None) /\ waiting' = FALSE /\ HandlerLeaves
    BY <1>3, <2>1 DEF ReleaseResumes, HandlerLeaves
  <2>3. CASE age >= Linger
    BY <2>1, <2>2, <2>3 DEF Handle, QuietLongEnough, HandlerDrops
  <2>4. CASE age < Linger
    BY <1>1, <2>1, <2>2, <2>4, Constants DEF Handle, QuietLongEnough, HandlerPutsOff
  <2> QED
    BY <1>1, <2>2, <2>3, <2>4, Constants
<1> QED
  BY <1>2, <1>3 DEF Handler

\* A step of the handler keeps the invariant.
LEMMA HandlerStep ==
  ASSUME IInv, Handler
  PROVE  IInv'
<1> USE Constants DEF IInv, FlagsOK, DomainsOK, JobsInPlace, LockWhereNeeded, BufferKnown, PadsOwned,
      ReleaseKnown, AgeIsHonest, RoundsLeftOver, FramePcs, TimingPcs, ModePcs, Modes, CalRuns, None,
      HandlerLeaves, call, setup, buffer, timers, pads
<1>1. HandlerLeaves /\ (HandlerDrops \/ HandlerPutsOff \/ HandlerBlocks)
  BY HandlerCases
<1>2. CASE HandlerDrops
  <2>1. FlagsOK'
    BY <1>1, <1>2 DEF HandlerDrops
  <2>2. DomainsOK'
    BY <1>1, <1>2 DEF HandlerDrops
  <2>3. /\ JobsInPlace' /\ LockWhereNeeded' /\ BufferKnown' /\ PadsOwned'
         /\ ReleaseKnown' /\ AgeIsHonest' /\ RoundsLeftOver'
    BY <1>1, <1>2 DEF HandlerDrops
  <2> QED
    BY <2>1, <2>2, <2>3
<1>3. CASE HandlerPutsOff
  <2>1. FlagsOK'
    BY <1>1, <1>3 DEF HandlerPutsOff
  <2>2. DomainsOK'
    BY <1>1, <1>3 DEF HandlerPutsOff
  <2>3. AgeIsHonest'
    BY <1>1, <1>3 DEF HandlerPutsOff
  <2>4. JobsInPlace' /\ LockWhereNeeded' /\ BufferKnown'
    BY <1>1, <1>3 DEF HandlerPutsOff
  <2>5. PadsOwned' /\ RoundsLeftOver'
    BY <1>1, <1>3 DEF HandlerPutsOff
  <2>6. ReleaseKnown'
    <3>1. due' # -1
      BY <1>3 DEF HandlerPutsOff
    <3> QED
      BY <3>1, <1>1, <1>3 DEF HandlerPutsOff
  <2> QED
    BY <2>1, <2>2, <2>3, <2>4, <2>5, <2>6
<1>4. CASE HandlerBlocks
  BY <1>1, <1>4 DEF HandlerBlocks
<1> QED
  BY <1>1, <1>2, <1>3, <1>4

\* Every step keeps the invariant.
LEMMA EveryStep ==
  ASSUME IInv, [Next]_vars
  PROVE  IInv'
<1> USE Constants DEF IInv, FlagsOK, DomainsOK, JobsInPlace, LockWhereNeeded, BufferKnown, PadsOwned,
      ReleaseKnown, AgeIsHonest, RoundsLeftOver, FramePcs, TimingPcs, ModePcs, Modes, CalRuns, None,
      At, HandlerReady, IrqLocked, Return, call, setup, buffer, timers, pads
<1>1. CASE TakeLock
  BY <1>1 DEF TakeLock
<1>2. CASE BufferStillUp
  BY <1>2 DEF BufferStillUp
<1>3. CASE BufferUp
  <2>1. FlagsOK'
    BY <1>3 DEF BufferUp
  <2>2. DomainsOK'
    BY <1>3 DEF BufferUp
  <2>3. /\ JobsInPlace' /\ LockWhereNeeded' /\ BufferKnown' /\ PadsOwned'
         /\ ReleaseKnown' /\ AgeIsHonest' /\ RoundsLeftOver'
    BY <1>3 DEF BufferUp
  <2> QED
    BY <2>1, <2>2, <2>3
<1>4. CASE SettleDone
  BY <1>4 DEF SettleDone
<1>5. CASE ArmRelease
  <2>1. FlagsOK'
    BY <1>5 DEF ArmRelease, ReleaseDelay
  <2>2. DomainsOK'
    BY <1>5 DEF ArmRelease, ReleaseDelay
  <2>3. /\ JobsInPlace' /\ LockWhereNeeded' /\ BufferKnown' /\ PadsOwned'
         /\ ReleaseKnown' /\ AgeIsHonest' /\ RoundsLeftOver'
    BY <1>5 DEF ArmRelease, ReleaseDelay
  <2> QED
    BY <2>1, <2>2, <2>3
<1>6. CASE FrameBegin
  BY <1>6 DEF FrameBegin
<1>7. CASE FrameEnd
  BY <1>7 DEF FrameEnd
<1>8. CASE Stamp
  <2>1. FlagsOK'
    BY <1>8 DEF Stamp, StampedAge
  <2>2. DomainsOK'
    BY <1>8 DEF Stamp, StampedAge
  <2>3. /\ JobsInPlace' /\ LockWhereNeeded' /\ BufferKnown' /\ PadsOwned'
         /\ ReleaseKnown' /\ AgeIsHonest' /\ RoundsLeftOver'
    BY <1>8 DEF Stamp, StampedAge
  <2> QED
    BY <2>1, <2>2, <2>3
<1>9. CASE InitPins
  <2>1. FlagsOK'
    BY <1>9 DEF InitPins
  <2>2. DomainsOK'
    BY <1>9 DEF InitPins
  <2>3. /\ JobsInPlace' /\ LockWhereNeeded' /\ BufferKnown' /\ PadsOwned'
         /\ ReleaseKnown' /\ AgeIsHonest' /\ RoundsLeftOver'
    BY <1>9 DEF InitPins
  <2> QED
    BY <2>1, <2>2, <2>3
<1>10. CASE TimeBegin
  <2>1. FlagsOK'
    BY <1>10 DEF TimeBegin, RoundsLeft
  <2>2. DomainsOK'
    BY <1>10 DEF TimeBegin, RoundsLeft
  <2>3. /\ JobsInPlace' /\ LockWhereNeeded' /\ BufferKnown' /\ PadsOwned'
         /\ ReleaseKnown' /\ AgeIsHonest' /\ RoundsLeftOver'
    BY <1>10 DEF TimeBegin, RoundsLeft
  <2> QED
    BY <2>1, <2>2, <2>3
<1>11. CASE TimeEnd
  BY <1>11 DEF TimeEnd
<1>12. CASE Timed
  BY <1>12 DEF Timed
<1>13. CASE Cancel
  <2>1. FlagsOK'
    BY <1>13 DEF Cancel, CancelledDue
  <2>2. DomainsOK'
    BY <1>13 DEF Cancel, CancelledDue
  <2>3. /\ JobsInPlace' /\ LockWhereNeeded' /\ BufferKnown' /\ PadsOwned'
         /\ ReleaseKnown' /\ AgeIsHonest' /\ RoundsLeftOver'
    BY <1>13 DEF Cancel, CancelledDue
  <2> QED
    BY <2>1, <2>2, <2>3
<1>14. CASE Drop
  <2>1. FlagsOK'
    BY <1>14 DEF Drop, FlagAfterRelease
  <2>2. DomainsOK'
    BY <1>14 DEF Drop, FlagAfterRelease
  <2>3. /\ JobsInPlace' /\ LockWhereNeeded' /\ BufferKnown' /\ PadsOwned'
         /\ ReleaseKnown' /\ AgeIsHonest' /\ RoundsLeftOver'
    BY <1>14 DEF Drop, FlagAfterRelease
  <2> QED
    BY <2>1, <2>2, <2>3
<1>15. CASE Park
  BY <1>15 DEF Park
<1>16. CASE SwitchToMdio
  BY <1>16 DEF SwitchToMdio
<1>17. CASE SwitchToSerial
  BY <1>17 DEF SwitchToSerial
<1>18. CASE ReleaseFires
  BY <1>18, HandlerStep DEF Handler
<1>19. CASE ReleaseResumes
  BY <1>19, HandlerStep DEF Handler
<1>20. CASE TimePasses
  BY <1>20 DEF TimePasses, Capped
<1>21. CASE CallTransact
  BY <1>21 DEF CallTransact, MasterOwnsConnector
<1>22. CASE CallSetClock
  BY <1>22 DEF CallSetClock
<1>23. CASE CallMeasureClock
  BY <1>23 DEF CallMeasureClock
<1>24. CASE UNCHANGED vars
  BY <1>24 DEF vars
<1>25. ASSUME NEW m \in Modes, CallSetMode(m) PROVE IInv'
  BY <1>25 DEF CallSetMode
<1> QED
  BY <1>1, <1>2, <1>3, <1>4, <1>5, <1>6, <1>7, <1>8, <1>9, <1>10, <1>11, <1>12, <1>13,
     <1>14, <1>15, <1>16, <1>17, <1>18, <1>19, <1>20, <1>21, <1>22, <1>23, <1>24, <1>25
     DEF Next, Continue, Handler

-----------------------------------------------------------------------------
\* The inductive invariant holds in every reachable state.
LEMMA Inductive == Spec => []IInv
<1>1. Init => IInv
  BY InitIInv
<1>2. IInv /\ [Next]_vars => IInv'
  BY EveryStep
<1> QED
  BY <1>1, <1>2, PTL DEF Spec

\* Every variable stays in its domain.
THEOREM TypeCorrect == Spec => []TypeOK
<1>1. IInv => TypeOK
  BY DEF IInv, FlagsOK, DomainsOK, TypeOK, FramePcs, TimingPcs, ModePcs
<1> QED
  BY <1>1, Inductive, PTL

\* No release, wherever it fires, cuts the buffer out from under a frame.
THEOREM FramesAreBuffered == Spec => []FrameIsBuffered
<1>1. IInv => FrameIsBuffered
  BY DEF IInv, JobsInPlace, LockWhereNeeded, BufferKnown, PadsOwned, FramePcs, FrameIsBuffered
<1> QED
  BY <1>1, Inductive, PTL

\* The flag buffer_up() trusts and the pin agree, whoever dropped the buffer last.
THEOREM FlagIsTruthful == Spec => []BufferFlagIsTruthful
<1>1. IInv => BufferFlagIsTruthful
  BY DEF IInv, FlagsOK, BufferKnown, BufferFlagIsTruthful
<1> QED
  BY <1>1, Inductive, PTL

\* A release is pending exactly while there is a buffer for it to drop.
THEOREM ReleasesArePaired == Spec => []ReleaseIsPaired
<1>1. IInv => ReleaseIsPaired
  BY DEF IInv, ReleaseKnown, ReleaseIsPaired
<1> QED
  BY <1>1, Inductive, PTL

\* Between calls the bus is given back within a linger of its last use.
THEOREM BusIsGivenBack == Spec => []BusHeldBriefly
<1>1. ASSUME IInv, buffer_on, pc = "idle", ~HandlerReady
      PROVE  quiet <= Linger
  <2>1. lock = "free" /\ ~waiting /\ due # None /\ due # 0
    BY <1>1 DEF IInv, DomainsOK, LockWhereNeeded, JobsInPlace, ReleaseKnown, HandlerReady, IrqLocked,
                FramePcs, TimingPcs
  <2>2. due \in 1..Linger /\ quiet \in 0..(Linger + 1)
    BY <1>1, <2>1, Constants DEF IInv, DomainsOK, None
  <2> QED
    BY <1>1, <2>2, Constants DEF IInv, AgeIsHonest
<1>2. IInv => BusHeldBriefly
  BY <1>1 DEF BusHeldBriefly
<1> QED
  BY <1>2, Inductive, PTL

\* The connector never has two personalities at once.
THEOREM PersonalityIsUnique == Spec => []OnePersonality
<1>1. IInv => OnePersonality
  BY DEF IInv, FlagsOK, DomainsOK, BufferKnown, PadsOwned, OnePersonality, Modes
<1> QED
  BY <1>1, Inductive, PTL

\* A series of frames, each within the linger of the last, keeps the buffer up: the
\* handler drops it only after a full linger without use.
THEOREM SeriesIsUnbroken == Spec => SeriesKeepsTheBuffer
<1>1. ASSUME IInv, [Next]_vars, buffer_on, ~buffer_on'
      PROVE  quiet >= Linger \/ pc = "drop"
  <2>1. CASE Handler
    <3>1. HandlerDrops
      BY <1>1, <2>1, HandlerCases DEF HandlerPutsOff, HandlerBlocks, buffer
    <3>2. age >= Linger /\ pc \notin {"frame", "stamp"}
      BY <1>1, <3>1 DEF HandlerDrops, IInv, LockWhereNeeded, FramePcs
    <3> QED
      BY <1>1, <3>2, Constants DEF IInv, DomainsOK, AgeIsHonest
  <2>2. CASE Drop
    BY <2>2 DEF Drop, At
  <2>3. CASE BufferUp
    BY <1>1, <2>3 DEF BufferUp
  <2>4. CASE ~Handler /\ ~Drop /\ ~BufferUp
    <3>1. UNCHANGED buffer_on
      BY <1>1, <2>4 DEF Next, Continue, vars, buffer, CallTransact, CallSetClock, CallMeasureClock,
           CallSetMode, TimePasses, TakeLock, BufferStillUp, SettleDone, ArmRelease, FrameBegin,
           FrameEnd, Stamp, InitPins, TimeBegin, TimeEnd, Timed, Cancel, Park, SwitchToMdio,
           SwitchToSerial
    <3> QED
      BY <1>1, <3>1
  <2> QED
    BY <2>1, <2>2, <2>3, <2>4
<1>2. IInv /\ [Next]_vars => [buffer_on /\ ~buffer_on' => quiet >= Linger \/ pc = "drop"]_vars
  BY <1>1
<1> QED
  BY <1>2, Inductive, PTL DEF Spec, SeriesKeepsTheBuffer

\* Flag, pin and pending release agree, and the bus is given back.
THEOREM BufferAccounted == Spec => []BufferIsAccounted
<1>1. BufferFlagIsTruthful /\ ReleaseIsPaired /\ BusHeldBriefly => BufferIsAccounted
  BY DEF BufferIsAccounted
<1> QED
  BY <1>1, FlagIsTruthful, ReleasesArePaired, BusIsGivenBack, PTL
=============================================================================
