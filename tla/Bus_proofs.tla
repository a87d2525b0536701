---------------------------- MODULE Bus_proofs ----------------------------
(***************************************************************************)
(* Proofs about the target detector, for every set of line levels, burst    *)
(* size and amount of traffic BusAssumption allows.                         *)
(***************************************************************************)
EXTENDS Bus, TLAPS

\* A published rail is a standard rail or -1.
LEMMA ClassifyType == \A mv : Classify(mv) \in BusRails \cup {-1}
  BY DEF Classify, BusRails

\* The rail a burst shows is a standard rail or -1.
LEMMA RailOfType == \A r : RailOf(r) \in BusRails \cup {-1}
  BY ClassifyType DEF RailOf

\* The cluster a burst needs is at least two conversions.
LEMMA MinUsedType == MinUsed \in Nat /\ MinUsed >= 2
  BY BusAssumption DEF MinUsed

\* What is published of a reading is a level of the line or -1.
LEMMA ReadingMv ==
  ASSUME NEW r \in Readings \cup {NoReading}
  PROVE  r.mv \in Levels \cup {-1}
<1>1. CASE r \in Readings
  BY <1>1 DEF Readings
<1>2. CASE r = NoReading
  BY <1>2 DEF NoReading
<1> QED
  BY <1>1, <1>2

\* An undisturbed burst classifies exactly when the line holds a rail.
LEMMA CleanVerdict ==
  ASSUME wire \in Levels, NEW r \in CleanReadings
  PROVE  (RailOf(r) # -1) <=> HoldsARail(wire)
<1>1. r \in Readings /\ r.mv = wire /\ r.used >= Total - MaxSpoilt
  BY DEF CleanReadings
<1>2. ~r.err /\ r.used \in 1..Total
  BY <1>1 DEF Readings
<1>3. wire \in Nat /\ r.used \in Nat /\ r.used >= MinUsed
  BY <1>1, <1>2, MinUsedType, BusAssumption
<1>4. wire >= MinPresent => Sane(r)
  BY <1>1, <1>2, <1>3 DEF Sane, MinPresent
<1> QED
  BY <1>1, <1>4 DEF RailOf, HoldsARail

-----------------------------------------------------------------------------
\* The starting state is well typed.
LEMMA InitType ==
  ASSUME Init
  PROVE  TypeOK
<1>1. StartStatus \in Statuses
  BY DEF StartStatus, Statuses
<1>2. seen \in {"hit", "miss", "none"} \X {"hit", "miss", "none"}
  BY DEF Init
<1>3. wire \in Levels /\ status \in Statuses /\ reading \in Readings \cup {NoReading}
  BY <1>1 DEF Init
<1>4. /\ forced_mv \in BusRails \cup {0} /\ inhibit_depth \in 0..1
      /\ conn_streak \in 0..BusStreak /\ disc_streak \in 0..BusStreak
      /\ boot \in 0..2 /\ steady \in 0..2
  BY DEF Init, BusStreak
<1>5. /\ pc \in {"sleep", "burst", "update", "led", "connect"}
      /\ led_arg \in BOOLEAN /\ connected \in BOOLEAN /\ clean \in BOOLEAN
  BY DEF Init
<1> QED
  BY <1>2, <1>3, <1>4, <1>5 DEF TypeOK

\* Every step keeps the state well typed.
LEMMA StepType ==
  ASSUME TypeOK, [Next]_vars
  PROVE  TypeOK'
<1> USE DEF TypeOK
<1>1. CASE PollBegin
  BY <1>1 DEF PollBegin, detector
<1>2. CASE BurstDone
  BY <1>2 DEF BurstDone, detector, history, CleanReadings
<1>3. CASE BurstFails
  BY <1>3 DEF BurstFails, detector
<1>4. CASE Update
  <2>1. /\ conn_streak' \in 0..BusStreak
        /\ disc_streak' \in 0..BusStreak
    BY <1>4 DEF Update, ConnStreak, DiscStreak, Saturate, BusStreak
  <2>2. reading.mv \in Levels \cup {-1}
    BY ReadingMv
  <2>3. status' \in Statuses
    BY <1>4, <2>2, RailOfType DEF Update, PublishedRail, Debounced, Statuses
  <2>4. seen' \in {"hit", "miss", "none"} \X {"hit", "miss", "none"}
    BY <1>4 DEF Update
  <2>5. steady' \in 0..2
    BY <1>4 DEF Update
  <2>6. clean' \in BOOLEAN
    BY <1>4 DEF Update
  <2>7. QED
    BY <1>4, <2>1, <2>3, <2>4, <2>5, <2>6 DEF Update
<1>5. CASE LedArgument
  BY <1>5 DEF LedArgument, detector, history, LedWanted, Statuses
<1>6. CASE LedSet
  <2>1. boot' \in 0..2
    BY <1>6 DEF LedSet
  <2> QED
    BY <1>6, <2>1 DEF LedSet, detector, history
<1>7. ASSUME NEW mv \in BusRails \cup {0}, ForceLevel(mv) PROVE TypeOK'
  <2>1. status' \in Statuses
    BY <1>7 DEF ForceLevel, ForcedStatus, Statuses
  <2> QED
    BY <1>7, <2>1 DEF ForceLevel, history
<1>8. CASE InhibitOn
  BY <1>8 DEF InhibitOn, detector
<1>9. CASE InhibitOff
  BY <1>9 DEF InhibitOff, detector, history
<1>10. CASE WireMoves
  <2>1. wire' \in Levels
    BY <1>10 DEF WireMoves
  <2>2. steady' \in 0..2
    BY <1>10 DEF WireMoves
  <2>3. clean' \in BOOLEAN
    BY <1>10 DEF WireMoves
  <2> QED
    BY <1>10, <2>1, <2>2, <2>3 DEF WireMoves, detector
<1>11. CASE UNCHANGED vars
  BY <1>11 DEF vars
<1> QED
  BY <1>1, <1>2, <1>3, <1>4, <1>5, <1>6, <1>7, <1>8, <1>9, <1>10, <1>11 DEF Next, Poll

\* Every reachable state is well typed, so a saturated streak never overflows.
THEOREM TypeCorrect == Spec => []TypeOK
<1>1. Init => TypeOK
  BY InitType
<1>2. TypeOK /\ [Next]_vars => TypeOK'
  BY StepType
<1> QED
  BY <1>1, <1>2, PTL DEF Spec

-----------------------------------------------------------------------------
\* While the line is steady the streaks count the polls it has been steady for,
\* on the side of the verdict the line deserves.
StreaksFollowTheLine ==
  steady >= 1 => IF HoldsARail(wire) THEN conn_streak >= steady /\ disc_streak = 0
                                     ELSE conn_streak = 0 /\ disc_streak >= steady

\* What is about to be published of an undisturbed burst is the line itself.
CleanMeansClean == pc = "update" /\ clean => reading \in CleanReadings

IInv == TypeOK /\ SettledPresence /\ StreaksFollowTheLine /\ CleanMeansClean

\* A poll that was undisturbed keeps the streaks in step with the line.
LEMMA UpdateKeepsIInv ==
  ASSUME IInv, Update, TypeOK'
  PROVE  SettledPresence' /\ StreaksFollowTheLine'
<1> DEFINE c == RailOf(reading) # -1
<1>1. wire' = wire
  BY DEF Update
<1>2. CASE clean
  <2>1. c <=> HoldsARail(wire)
    BY <1>2, CleanVerdict DEF IInv, TypeOK, CleanMeansClean, Update
  <2>2. /\ conn_streak' = ConnStreak(c)
        /\ disc_streak' = DiscStreak(c)
        /\ steady' = IF steady < 2 THEN steady + 1 ELSE steady
    BY <1>2 DEF Update
  <2>3. status'.target_present = Debounced(status.target_present, conn_streak', disc_streak')
    BY <2>2 DEF Update
  <2>4. /\ conn_streak \in 0..2 /\ disc_streak \in 0..2 /\ steady \in 0..2
        /\ status.target_present \in BOOLEAN
    BY DEF IInv, TypeOK, BusStreak, Statuses
  <2> HIDE DEF c
  <2>5. CASE HoldsARail(wire)
    <3>1. conn_streak' = Saturate(conn_streak) /\ disc_streak' = 0
      BY <2>1, <2>2, <2>5 DEF ConnStreak, DiscStreak
    <3>2. conn_streak' >= steady'
      BY <2>2, <2>4, <2>5, <3>1 DEF IInv, StreaksFollowTheLine, Saturate, BusStreak
    <3>3. steady' = 2 => status'.target_present = TRUE
      BY <2>3, <2>4, <3>1, <3>2 DEF Debounced, BusStreak, Saturate
    <3> QED
      BY <1>1, <2>5, <3>1, <3>2, <3>3 DEF SettledPresence, StreaksFollowTheLine, HoldsARail
  <2>6. CASE ~HoldsARail(wire)
    <3>1. conn_streak' = 0 /\ disc_streak' = Saturate(disc_streak)
      BY <2>1, <2>2, <2>6 DEF ConnStreak, DiscStreak
    <3>2. disc_streak' >= steady'
      BY <2>2, <2>4, <2>6, <3>1 DEF IInv, StreaksFollowTheLine, Saturate, BusStreak
    <3>3. steady' = 2 => status'.target_present = FALSE
      BY <2>3, <2>4, <3>1, <3>2 DEF Debounced, BusStreak, Saturate
    <3> QED
      BY <1>1, <2>6, <3>1, <3>2, <3>3 DEF SettledPresence, StreaksFollowTheLine, HoldsARail
  <2> QED
    BY <2>5, <2>6
<1>3. CASE ~clean
  <2>1. steady' = 0
    BY <1>3 DEF Update
  <2> QED
    BY <2>1 DEF SettledPresence, StreaksFollowTheLine
<1> QED
  BY <1>2, <1>3

\* Two undisturbed polls in a row settle presence on the truth about the line,
\* for every mix of levels, traffic, forced rails and master transactions.
THEOREM PresenceSettles == Spec => []SettledPresence
<1>1. Init => IInv
  <2> SUFFICES ASSUME Init PROVE IInv
    OBVIOUS
  <2>1. steady = 0 /\ pc = "sleep"
    BY DEF Init
  <2> QED
    BY <2>1, InitType DEF IInv, SettledPresence, StreaksFollowTheLine, CleanMeansClean
<1>2. IInv /\ [Next]_vars => IInv'
  <2> SUFFICES ASSUME IInv, [Next]_vars PROVE IInv'
    OBVIOUS
  <2>0. TypeOK'
    BY StepType DEF IInv
  <2>1. CASE PollBegin
    <3>1. UNCHANGED <<wire, status, conn_streak, disc_streak, steady>> /\ pc' # "update"
      BY <2>1 DEF PollBegin, detector
    <3> QED
      BY <2>0, <3>1 DEF IInv, SettledPresence, StreaksFollowTheLine, CleanMeansClean, HoldsARail
  <2>2. CASE BurstDone
    <3>1. UNCHANGED <<wire, status, conn_streak, disc_streak, steady>>
      BY <2>2 DEF BurstDone, detector, history
    <3>2. clean' => reading' \in CleanReadings
      BY <2>2 DEF BurstDone, history
    <3>3. CleanReadings' = CleanReadings
      BY <3>1 DEF CleanReadings
    <3> QED
      BY <2>0, <3>1, <3>2, <3>3 DEF IInv, SettledPresence, StreaksFollowTheLine, CleanMeansClean, HoldsARail
  <2>3. CASE BurstFails
    <3>1. UNCHANGED <<wire, status, conn_streak, disc_streak, steady>> /\ ~clean'
      BY <2>3 DEF BurstFails, detector
    <3> QED
      BY <2>0, <3>1 DEF IInv, SettledPresence, StreaksFollowTheLine, CleanMeansClean, HoldsARail
  <2>4. CASE Update
    <3>1. pc' # "update"
      BY <2>4 DEF Update
    <3> QED
      BY <2>0, <2>4, <3>1, UpdateKeepsIInv DEF IInv, CleanMeansClean
  <2>5. CASE LedArgument \/ LedSet
    <3>1. UNCHANGED <<wire, status, conn_streak, disc_streak, steady>> /\ pc' # "update"
      BY <2>5 DEF LedArgument, LedSet, detector, history
    <3> QED
      BY <2>0, <3>1 DEF IInv, SettledPresence, StreaksFollowTheLine, CleanMeansClean, HoldsARail
  <2>6. ASSUME NEW mv \in BusRails \cup {0}, ForceLevel(mv) PROVE IInv'
    <3>1. /\ UNCHANGED <<wire, conn_streak, disc_streak, steady, pc, reading, clean>>
          /\ status'.target_present = status.target_present
      BY <2>6 DEF ForceLevel, ForcedStatus, history
    <3> QED
      BY <2>0, <3>1 DEF IInv, SettledPresence, StreaksFollowTheLine, CleanMeansClean, HoldsARail,
                        CleanReadings
  <2>7. CASE InhibitOn \/ InhibitOff
    <3>1. UNCHANGED <<wire, status, conn_streak, disc_streak, steady, pc, reading>>
      BY <2>7 DEF InhibitOn, InhibitOff, detector, history
    <3>2. clean' => clean
      BY <2>7, Zenon DEF InhibitOn, InhibitOff, history
    <3>3. SettledPresence' /\ StreaksFollowTheLine'
      BY <3>1 DEF IInv, SettledPresence, StreaksFollowTheLine, HoldsARail
    <3>4. CleanReadings' = CleanReadings /\ pc' = pc /\ reading' = reading
      BY <3>1 DEF CleanReadings
    <3>5. CleanMeansClean'
      BY <3>2, <3>4, Zenon DEF IInv, CleanMeansClean
    <3> QED
      BY <2>0, <3>3, <3>5 DEF IInv
  <2>8. CASE WireMoves
    <3>1. steady' = 0 /\ ~clean'
      BY <2>8 DEF WireMoves
    <3> QED
      BY <2>0, <3>1 DEF IInv, SettledPresence, StreaksFollowTheLine, CleanMeansClean
  <2>9. CASE UNCHANGED vars
    BY <2>0, <2>9 DEF vars, IInv, SettledPresence, StreaksFollowTheLine, CleanMeansClean,
                      HoldsARail, CleanReadings
  <2> QED
    BY <2>1, <2>2, <2>3, <2>4, <2>5, <2>6, <2>7, <2>8, <2>9 DEF Next, Poll
<1>3. IInv => SettledPresence
  BY DEF IInv
<1> QED
  BY <1>1, <1>2, <1>3, PTL DEF Spec

-----------------------------------------------------------------------------
\* The two streaks say no more and no less than the last two verdicts.
StreaksAreTheHistory ==
  /\ conn_streak = CASE seen[2] # "hit" -> 0
                     [] seen[2] = "hit" /\ seen[1] # "hit" -> 1
                     [] OTHER -> 2
  /\ disc_streak = CASE seen[2] # "miss" -> 0
                     [] seen[2] = "miss" /\ seen[1] # "miss" -> 1
                     [] OTHER -> 2

\* A poll is an observation of its verdict.
LEMMA UpdateObserves ==
  ASSUME TypeOK, StreaksAreTheHistory, Update
  PROVE  StreaksAreTheHistory' /\ Presence!Next
<1>1. /\ conn_streak' = ConnStreak(RailOf(reading) # -1)
      /\ disc_streak' = DiscStreak(RailOf(reading) # -1)
      /\ seen' = <<seen[2], IF RailOf(reading) # -1 THEN "hit" ELSE "miss">>
      /\ status'.target_present = Debounced(status.target_present, conn_streak', disc_streak')
  BY DEF Update
<1>2. seen[2] \in {"hit", "miss", "none"} /\ status.target_present \in BOOLEAN
  BY DEF TypeOK, Statuses
<1>3. CASE RailOf(reading) # -1
  <2>1. conn_streak' = Saturate(conn_streak) /\ disc_streak' = 0 /\ seen' = <<seen[2], "hit">>
    BY <1>1, <1>3 DEF ConnStreak, DiscStreak
  <2>2. conn_streak' = IF seen[2] = "hit" THEN 2 ELSE 1
    BY <1>2, <2>1 DEF StreaksAreTheHistory, Saturate, BusStreak
  <2>3. /\ ~status.target_present /\ conn_streak' >= 2 => status'.target_present = TRUE
        /\ ~status.target_present /\ ~(conn_streak' >= 2) => status'.target_present = FALSE
        /\ status.target_present => status'.target_present = TRUE
    BY <1>1, <1>2, <2>1 DEF Debounced, BusStreak
  <2>4. seen'[1] = seen[2] /\ seen'[2] = "hit"
    BY <2>1
  <2>5. StreaksAreTheHistory'
    BY <1>2, <2>1, <2>2, <2>4 DEF StreaksAreTheHistory
  <2>6. seen' = <<"hit", "hit">> <=> conn_streak' >= 2
    BY <1>2, <2>1, <2>2
  <2>7. status'.target_present <=> \/ status.target_present /\ ~(seen' = <<"miss", "miss">>)
                                  \/ seen' = <<"hit", "hit">>
    BY <2>1, <2>3, <2>6
  <2>8. status'.target_present \in BOOLEAN
    BY <1>2, <2>3
  <2>9. Presence!Observe("hit")
    BY <1>2, <2>1, <2>7, <2>8, Zenon DEF Presence!Observe
  <2> QED
    BY <2>5, <2>9 DEF Presence!Next, Presence!Verdicts
<1>4. CASE RailOf(reading) = -1
  <2>1. conn_streak' = 0 /\ disc_streak' = Saturate(disc_streak) /\ seen' = <<seen[2], "miss">>
    BY <1>1, <1>4 DEF ConnStreak, DiscStreak
  <2>2. disc_streak' = IF seen[2] = "miss" THEN 2 ELSE 1
    BY <1>2, <2>1 DEF StreaksAreTheHistory, Saturate, BusStreak
  <2>3. /\ status.target_present /\ disc_streak' >= 2 => status'.target_present = FALSE
        /\ status.target_present /\ ~(disc_streak' >= 2) => status'.target_present = TRUE
        /\ ~status.target_present => status'.target_present = FALSE
    BY <1>1, <1>2, <2>1 DEF Debounced, BusStreak
  <2>4. seen'[1] = seen[2] /\ seen'[2] = "miss"
    BY <2>1
  <2>5. StreaksAreTheHistory'
    BY <1>2, <2>1, <2>2, <2>4 DEF StreaksAreTheHistory
  <2>6. seen' = <<"miss", "miss">> <=> disc_streak' >= 2
    BY <1>2, <2>1, <2>2
  <2>7. status'.target_present <=> \/ status.target_present /\ ~(seen' = <<"miss", "miss">>)
                                  \/ seen' = <<"hit", "hit">>
    BY <2>1, <2>3, <2>6
  <2>8. status'.target_present \in BOOLEAN
    BY <1>2, <2>3
  <2>9. Presence!Observe("miss")
    BY <1>2, <2>1, <2>7, <2>8, Zenon DEF Presence!Observe
  <2> QED
    BY <2>5, <2>9 DEF Presence!Next, Presence!Verdicts
<1> QED
  BY <1>3, <1>4

\* The detector implements the two-poll debounce: the indication changes only when
\* two polls in a row agree against it, whatever else happens in between.
THEOREM DetectorDebounces == Spec => PresenceIsDebounced
<1>1. Init => StreaksAreTheHistory /\ Presence!Init
  BY DEF Init, StreaksAreTheHistory, Presence!Init, StartStatus
<1>2. TypeOK /\ StreaksAreTheHistory /\ [Next]_vars
        => StreaksAreTheHistory' /\ [Presence!Next]_(Presence!vars)
  <2> SUFFICES ASSUME TypeOK, StreaksAreTheHistory, [Next]_vars
               PROVE  StreaksAreTheHistory' /\ [Presence!Next]_(Presence!vars)
    OBVIOUS
  <2>1. CASE Update
    BY <2>1, UpdateObserves
  <2>2. ASSUME UNCHANGED <<conn_streak, disc_streak, seen>>,
               status'.target_present = status.target_present
        PROVE  StreaksAreTheHistory' /\ [Presence!Next]_(Presence!vars)
    BY <2>2 DEF StreaksAreTheHistory, Presence!vars
  <2>3. CASE PollBegin \/ BurstDone \/ BurstFails
    BY <2>2, <2>3 DEF PollBegin, BurstDone, BurstFails, detector, history
  <2>4. CASE LedArgument \/ LedSet
    BY <2>2, <2>4 DEF LedArgument, LedSet, detector, history
  <2>5. ASSUME NEW mv \in BusRails \cup {0}, ForceLevel(mv)
        PROVE  StreaksAreTheHistory' /\ [Presence!Next]_(Presence!vars)
    BY <2>2, <2>5 DEF ForceLevel, ForcedStatus, history
  <2>6. CASE InhibitOn \/ InhibitOff \/ WireMoves
    BY <2>2, <2>6 DEF InhibitOn, InhibitOff, WireMoves, detector, history
  <2>7. CASE UNCHANGED vars
    BY <2>2, <2>7 DEF vars
  <2> QED
    BY <2>1, <2>3, <2>4, <2>5, <2>6, <2>7 DEF Next, Poll
<1> QED
  BY <1>1, <1>2, TypeCorrect, PTL DEF Spec, PresenceIsDebounced, Presence!Spec
=============================================================================
