------------------------------- MODULE Capture -------------------------------
(***************************************************************************)
(* Passive capture (mdioprobe_mdio_api.c, mdioprobe_api.c section 3).       *)
(*                                                                         *)
(* A DMA channel writes the bytes of the frames on the bus into a ring and  *)
(* never stops.  The interpreter reads the ring one frame per call, with a  *)
(* cursor of its own and no synchronisation but the DMA's write position,   *)
(* which it knows only modulo the ring.  Where a frame begins in the stream *)
(* is guessed from the bytes, once, and then kept.                          *)
(*                                                                         *)
(* Bytes are named by their position in the stream since boot, so that the  *)
(* content of the ring follows from how much was written.  What four bytes  *)
(* that are not one frame look like is nondeterministic.                    *)
(***************************************************************************)
EXTENDS Integers, FiniteSets

CONSTANTS
    Slots,      \* MDIO_SLOTS
    MaxBytes,   \* bytes the bus carries in a behaviour
    MaxTorn,    \* frames that are cut short in a behaviour
    Slack,      \* bytes that may land between a look at the ring and the read
    Counts,     \* lengths of the captures asked for, 0 for an open one
    Timeouts,   \* timeouts asked for, in ms
    Overrides,  \* offsets forced by hand, -1 to detect again
    Lookalikes  \* bytes of two frames may together pass for a frame

FrameLen == 4           \* MDIO_FRAME_LEN
BufBytes == Slots * FrameLen
PollMs   == 2           \* the sleep between two looks at the ring

ASSUME CaptureAssumption ==
    /\ Slots \in Nat /\ Slots >= 4
    /\ MaxBytes \in Nat /\ MaxTorn \in Nat
    /\ Slack \in 0..(2 * FrameLen)      \* the overrun margin covers the read
    /\ Counts \subseteq Nat /\ Timeouts \subseteq Nat
    /\ Overrides \subseteq -1..3
    /\ Lookalikes \in BOOLEAN

VARIABLES
    total,              \* bytes written since boot; the program sees it modulo the ring
    frame_at,           \* where in the stream the frame on the wire begins
    whole,              \* where frames begin that were not cut short
    torn,               \* how many were
    mdio_read_slot,
    mdio_byte_offset,   \* -1 while unknown
    capture_on, capture_counted, capture_remaining,
    activity,           \* the passive-activity indication
    pc,                 \* where capture_next() is
    timeout_ms, waited_ms, skipped,
    slack,              \* bytes that may still land before the read
    due_from            \* history: where the session's next frame may end at the earliest

wire    == <<total, frame_at, whole, torn>>
session == <<capture_on, capture_counted, capture_remaining, activity>>
cursor  == <<mdio_read_slot, mdio_byte_offset>>
wait    == <<timeout_ms, waited_ms, skipped>>
vars == <<total, frame_at, whole, torn, mdio_read_slot, mdio_byte_offset, capture_on,
          capture_counted, capture_remaining, activity, pc, timeout_ms, waited_ms, skipped,
          slack, due_from>>

-----------------------------------------------------------------------------
(* The ring.                                                                *)

\* mdio_head_bytes(): CNDTR, counted up.
Head == total % BufBytes

Base == mdio_read_slot * FrameLen

\* How far the writer is past the read slot, as far as the reader can tell.
Written == (Head + BufBytes - Base) % BufBytes

\* The position in the stream of the byte at index i; -1 before the first lap gets there.
At(i) == IF total > i THEN total - 1 - ((total - 1 - i) % BufBytes) ELSE -1

\* mdio_read_frame_bytes()
Window(off) == [i \in 1..FrameLen |-> At((Base + off + i - 1) % BufBytes)]

Consecutive(w) == \A i \in 2..FrameLen : w[i] = w[1] + i - 1

\* The window holds one frame, all of it.
IsFrame(w) == Consecutive(w) /\ w[1] \in whole

\* The candidates that mdio_window_is_c22() lets pass, as the data may have it: a
\* frame always passes.
Passings ==
    LET frames == {off \in 0..3 : IsFrame(Window(off))}
    IN  IF Lookalikes THEN {frames \cup others : others \in SUBSET ((0..3) \ frames)} ELSE {frames}

\* mutant of Overrun: the reader trusts any distance.
NoMargin == FALSE

\* The writer is about to lap the reader.
Overrun == Written > BufBytes - 2 * FrameLen

-----------------------------------------------------------------------------
Init ==
    /\ total = 0 /\ frame_at = 0 /\ whole = {0} /\ torn = 0
    /\ mdio_read_slot = 0
    /\ mdio_byte_offset = -1
    /\ capture_on = FALSE /\ capture_counted = FALSE /\ capture_remaining = 0
    /\ activity = FALSE
    /\ pc = "idle"
    /\ timeout_ms = 0 /\ waited_ms = 0 /\ skipped = 0 /\ slack = 0
    /\ due_from = 0

-----------------------------------------------------------------------------
(* The bus and the DMA.                                                     *)

\* A byte of the frame on the wire is complete and stored.
ByteArrives ==
    /\ total < MaxBytes
    /\ pc = "take" => slack > 0
    /\ total' = total + 1
    /\ slack' = IF slack > 0 THEN slack - 1 ELSE 0
    /\ IF total' = frame_at + FrameLen
       THEN frame_at' = total' /\ whole' = whole \cup {total'}
       ELSE UNCHANGED <<frame_at, whole>>
    /\ UNCHANGED <<torn, session, cursor, wait, pc, due_from>>

\* The frame on the wire is cut short: what was stored of it stays in the stream.
FrameTears ==
    /\ total > frame_at
    /\ torn < MaxTorn
    /\ torn' = torn + 1
    /\ frame_at' = total
    /\ whole' = (whole \ {frame_at}) \cup {total}
    /\ UNCHANGED <<total, session, cursor, wait, pc, slack, due_from>>

-----------------------------------------------------------------------------
(* The session.                                                             *)

\* mutant of LatestSlot: a session begins where the last one stopped reading.
SameSlot == mdio_read_slot

\* mdioprobe_mdio_skip_to_latest(), and the resync after an overrun.
LatestSlot == (Head \div FrameLen) % Slots

\* capture_begin(); a call that is refused changes nothing.
CaptureStart(n) ==
    /\ pc = "idle"
    /\ ~capture_on
    /\ mdio_read_slot' = LatestSlot
    /\ mdio_byte_offset' = -1
    /\ capture_counted' = (n # 0)
    /\ capture_remaining' = n
    /\ capture_on' = TRUE
    /\ activity' = TRUE
    /\ due_from' = total
    /\ UNCHANGED <<wire, wait, pc, slack>>

\* What mdioprobe_capture_stop() finds.
WasOn == capture_on

\* mdioprobe_capture_stop()
Stop ==
    /\ capture_on' = FALSE
    /\ capture_counted' = FALSE
    /\ capture_remaining' = 0
    /\ activity' = IF WasOn THEN FALSE ELSE activity

CaptureStop ==
    /\ pc = "idle"
    /\ Stop
    /\ UNCHANGED <<wire, cursor, wait, pc, slack, due_from>>

\* mdioprobe_mdio_set_byte_offset(), from the diagnostics.
SetByteOffset(off) ==
    /\ pc = "idle"
    /\ mdio_byte_offset' = off
    /\ due_from' = 0      \* what a different offset finds may have been delivered before
    /\ UNCHANGED <<wire, session, mdio_read_slot, wait, pc, slack>>

-----------------------------------------------------------------------------
(* mdioprobe_capture_next().                                                 *)

\* Without a session the call is refused.
CaptureNext(ms) ==
    /\ pc = "idle"
    /\ capture_on
    /\ pc' = "look"
    /\ timeout_ms' = ms
    /\ UNCHANGED <<wire, session, cursor, waited_ms, skipped, slack, due_from>>

\* The call returns, and its locals with it.
Return ==
    /\ pc' = "idle"
    /\ timeout_ms' = 0 /\ waited_ms' = 0 /\ skipped' = 0 /\ slack' = 0

\* One turn of the loop of mdioprobe_mdio_sniff_one_to(), as far as the overrun check.
LookOverrun ==
    /\ pc = "look"
    /\ Overrun
    /\ mdio_read_slot' = LatestSlot
    /\ UNCHANGED <<wire, session, mdio_byte_offset, wait, pc, slack, due_from>>

Looks == pc = "look" /\ ~Overrun

GoAndTake == pc' = "take" /\ slack' = Slack

\* The offset is known and the frame is in.
LookLocked ==
    /\ Looks
    /\ mdio_byte_offset >= 0
    /\ Written >= mdio_byte_offset + FrameLen
    /\ GoAndTake
    /\ UNCHANGED <<wire, session, cursor, wait, due_from>>

\* mutant of Unique: any candidate that passes will do.
AnyOf(passing) == passing # {}

\* mdio_detect_offset() names a candidate.
Unique(passing) == Cardinality(passing) = 1

FullScan == mdio_byte_offset = -1 /\ Written >= 3 + FrameLen

\* All four candidates are in, and one of them is the frame.
LookDetects(passing) ==
    /\ FullScan
    /\ Unique(passing)
    /\ mdio_byte_offset' \in passing
    /\ GoAndTake
    /\ UNCHANGED <<wire, session, mdio_read_slot, wait, due_from>>

SlotToSpare(passing) == Cardinality(passing) > 1 \/ Written >= 2 * FrameLen

\* The scan does not settle it, and the slot is given up for the next one...
LookSkips(passing) ==
    /\ FullScan
    /\ ~Unique(passing)
    /\ SlotToSpare(passing)
    /\ skipped + 1 < Slots
    /\ skipped' = skipped + 1
    /\ mdio_read_slot' = (mdio_read_slot + 1) % Slots
    /\ UNCHANGED <<wire, session, mdio_byte_offset, timeout_ms, waited_ms, pc, slack, due_from>>

\* ...or handed up as it is.
LookGivesUp(passing) ==
    /\ FullScan
    /\ ~Unique(passing)
    /\ SlotToSpare(passing) => skipped + 1 >= Slots
    /\ skipped' = IF SlotToSpare(passing) THEN skipped + 1 ELSE skipped
    /\ GoAndTake
    /\ UNCHANGED <<wire, session, cursor, timeout_ms, waited_ms, due_from>>

QuickLook == mdio_byte_offset = -1 /\ Written >= FrameLen /\ Written < 3 + FrameLen

\* Only the slot's own bytes are in, and they look like a frame.
LookAccepts(passing) ==
    /\ QuickLook
    /\ 0 \in passing
    /\ mdio_byte_offset' = 0
    /\ GoAndTake
    /\ UNCHANGED <<wire, session, mdio_read_slot, wait, due_from>>

\* Nothing to take yet.
NothingYet(passing) ==
    IF mdio_byte_offset >= 0 THEN Written < mdio_byte_offset + FrameLen
    ELSE Written < FrameLen \/ (QuickLook /\ 0 \notin passing)

LookTimesOut(passing) ==
    /\ NothingYet(passing)
    /\ waited_ms >= timeout_ms
    /\ Return
    /\ UNCHANGED <<wire, session, cursor, due_from>>

LookWaits(passing) ==
    /\ NothingYet(passing)
    /\ waited_ms < timeout_ms
    /\ pc' = "sleep"
    /\ UNCHANGED <<wire, session, cursor, wait, slack, due_from>>

Look ==
    \/ LookOverrun
    \/ LookLocked
    \/ /\ Looks
       /\ \E passing \in IF mdio_byte_offset = -1 THEN Passings ELSE {{}} :
             \/ LookDetects(passing) \/ LookSkips(passing) \/ LookGivesUp(passing)
             \/ LookAccepts(passing)
             \/ LookTimesOut(passing) \/ LookWaits(passing)

\* mutant of WaitedSoFar: the time slept is not counted.
WaitedNot == waited_ms

WaitedSoFar == waited_ms + PollMs

Wake ==
    /\ pc = "sleep"
    /\ pc' = "look"
    /\ waited_ms' = WaitedSoFar
    /\ UNCHANGED <<wire, session, cursor, timeout_ms, skipped, slack, due_from>>

SlotAfterRead == (mdio_read_slot + 1) % Slots

\* The offset a frame is read at.
TakenOffset == IF mdio_byte_offset >= 0 THEN mdio_byte_offset ELSE 0

\* The frame is read and, in a counted capture, counted.
Take ==
    /\ pc = "take"
    /\ Return
    /\ mdio_read_slot' = SlotAfterRead
    /\ IF capture_counted /\ capture_remaining = 1
       THEN Stop
       ELSE /\ capture_remaining' = IF capture_counted THEN capture_remaining - 1 ELSE 0
            /\ UNCHANGED <<capture_on, capture_counted, activity>>
    /\ due_from' = Window(TakenOffset)[FrameLen] + FrameLen
    /\ UNCHANGED <<wire, mdio_byte_offset>>

-----------------------------------------------------------------------------
Reader == Look \/ Wake \/ Take

Next ==
    \/ ByteArrives
    \/ FrameTears
    \/ \E n \in Counts : CaptureStart(n)
    \/ CaptureStop
    \/ \E off \in Overrides : SetByteOffset(off)
    \/ \E ms \in Timeouts : CaptureNext(ms)
    \/ Reader

\* A call in progress goes on; nobody has to call, and nothing has to arrive.
Spec == Init /\ [][Next]_vars /\ WF_vars(Reader)

-----------------------------------------------------------------------------
\* Every variable stays in its domain.
TypeOK ==
    /\ total \in 0..MaxBytes /\ frame_at \in 0..total /\ torn \in 0..MaxTorn
    /\ whole \subseteq 0..total
    /\ mdio_read_slot \in 0..(Slots - 1)
    /\ mdio_byte_offset \in -1..3
    /\ capture_on \in BOOLEAN /\ capture_counted \in BOOLEAN /\ activity \in BOOLEAN
    /\ capture_remaining \in {0} \cup UNION {0..n : n \in Counts}
    /\ pc \in {"idle", "look", "sleep", "take"}
    /\ timeout_ms \in {0} \cup Timeouts
    /\ waited_ms \in Nat /\ waited_ms < timeout_ms + PollMs
    /\ skipped \in 0..Slots
    /\ slack \in 0..Slack
    /\ due_from \in 0..(total + FrameLen)

\* The frame a call takes from the ring.
Taken == Window(TakenOffset)

Takes == pc = "take" /\ pc' = "idle"

\* What a call hands up are four successive bytes of the stream, however close the
\* writer came and however often it lapped the reader: never the head of one frame
\* and, across the ring's seam, the tail of one a lap older.
FramesAreOfAPiece == [][Takes => Consecutive(Taken)]_vars

\* A session delivers the stream forwards, while the offset is left alone: no byte
\* twice, and no frame that was in before the session began, across skips, laps and
\* resynchronisations.
NothingIsReplayed ==
    [][Takes => Taken[FrameLen] >= due_from]_vars

\* A full scan that has a frame before it locks onto a frame, whatever else in the
\* bytes looks like one.
ScanLocksOnAFrame ==
    [][/\ pc = "look" /\ FullScan /\ mdio_byte_offset' # -1
       /\ \E off \in 0..3 : IsFrame(Window(off))
       => IsFrame(Window(mdio_byte_offset'))]_vars

\* The session and its indication agree, and a counted session is over exactly when
\* its last frame has been handed up.
SessionIsConsistent ==
    /\ activity = capture_on
    /\ capture_counted => capture_on /\ capture_remaining > 0

\* Every call returns, with a frame or without, whatever the bus carries.
NextReturns == pc # "idle" ~> pc = "idle"

\* Every byte of the window belongs to a frame that was not cut short.
Untorn(w) == \A i \in 1..FrameLen : \E n \in whole : w[i] \in n..(n + FrameLen - 1)

\* "Bump the offset by K so future slots decode with the corrected rotation"
\* (mdioprobe_mdio_api.c): under a lock, a window clear of torn frames is a frame.
LockedReadsAreFrames ==
    [][Takes /\ mdio_byte_offset >= 0 /\ Untorn(Taken) => IsFrame(Taken)]_vars
=============================================================================
