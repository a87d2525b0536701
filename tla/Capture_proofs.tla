--------------------------- MODULE Capture_proofs ---------------------------
(***************************************************************************)
(* What a session hands up, for every size of the ring and however far the  *)
(* writer has run ahead.                                                    *)
(***************************************************************************)
EXTENDS Capture, FiniteSetTheorems, TLAPS

(* Division by a number that has no value yet, the size of the ring.        *)

\* Quotient and remainder make up the number.
LEMMA DivMod ==
    ASSUME NEW x \in Int, NEW B \in Nat, B > 0
    PROVE  /\ x = B * (x \div B) + (x % B)
           /\ x % B \in 0..(B - 1)
           /\ x \div B \in Int
BY SMT

\* A larger multiple is larger by a whole ring at least.
LEMMA MultiplesApart ==
    ASSUME NEW a \in Int, NEW b \in Int, NEW B \in Nat, a > b
    PROVE  B * a >= B * b + B
BY SMT

\* Quotient and remainder are unique.
LEMMA Remainder ==
    ASSUME NEW x \in Int, NEW B \in Nat, B > 0,
           NEW q \in Int, NEW r \in 0..(B - 1), x = B * q + r
    PROVE  x % B = r /\ x \div B = q
<1> DEFINE Q == x \div B
           R == x % B
<1>1. x = B * Q + R /\ R \in 0..(B - 1) /\ Q \in Int
  BY DivMod
<1> HIDE DEF Q, R
<1>2. Q = q
  <2>1. CASE Q > q
    <3>1. B * Q >= B * q + B
      BY <2>1, <1>1, MultiplesApart
    <3>2. QED
      BY <3>1, <1>1, SMT
  <2>2. CASE Q < q
    <3>1. B * q >= B * Q + B
      BY <2>2, <1>1, MultiplesApart
    <3>2. QED
      BY <3>1, <1>1, SMT
  <2>3. QED
    BY <2>1, <2>2, <1>1, SMT
<1>3. R = r
  BY <1>1, <1>2, SMT
<1>4. QED
  BY <1>2, <1>3 DEF Q, R

\* Whole rings do not show in the remainder.
LEMMA WholeLapsVanish ==
    ASSUME NEW B \in Nat, B > 0, NEW q \in Int, NEW y \in Int
    PROVE  (B * q + y) % B = y % B
<1> DEFINE Y == y \div B
           r == y % B
<1>1. y = B * Y + r /\ r \in 0..(B - 1) /\ Y \in Int
  BY DivMod
<1> HIDE DEF Y, r
<1>2. B * q + y = B * (q + Y) + r /\ B * q + y \in Int /\ q + Y \in Int
  BY <1>1, SMT
<1>3. (B * q + y) % B = r
  BY <1>1, <1>2, Remainder
<1>4. QED
  BY <1>3 DEF r

-----------------------------------------------------------------------------
(* The ring.                                                                *)

\* Position n of a stream of length T, not yet overwritten in a ring of size B, is
\* what the ring holds at n's place.
LEMMA RingPosition ==
    ASSUME NEW B \in Nat, B > 0, NEW T \in Nat, NEW n \in Nat, n < T, T <= n + B
    PROVE  /\ T > n % B
           /\ T - 1 - ((T - 1 - (n % B)) % B) = n
<1> DEFINE q == n \div B
           i == n % B
           r == T - 1 - n
<1>1. n = B * q + i /\ i \in 0..(B - 1) /\ q \in Int
  BY DivMod
<1> HIDE DEF q, i
<1>2. B * q >= 0
  <2>1. CASE q < 0
    <3>1. B * 0 >= B * q + B
      BY <2>1, <1>1, MultiplesApart
    <3>2. QED
      BY <3>1, <1>1, SMT
  <2>2. CASE q >= 0
    BY <2>2, <1>1, SMT
  <2>3. QED
    BY <2>1, <2>2, <1>1, SMT
<1>3. T > i
  BY <1>1, <1>2, SMT
<1>4. r \in 0..(B - 1) /\ T - 1 - i \in Int /\ T - 1 - i = B * q + r
  BY <1>1, SMT
<1> HIDE DEF r
<1>5. (T - 1 - i) % B = r
  BY <1>1, <1>4, Remainder
<1>6. T - 1 - r = n
  BY SMT DEF r
<1>7. QED
  BY <1>3, <1>5, <1>6 DEF i

\* A reader at place b of the ring, in any lap the writer has reached, measures its
\* distance from the writer modulo the ring: that many bytes before the end of the
\* stream there is a place b, and no later one.
LEMMA Distance ==
    ASSUME NEW B \in Nat, B > 0, NEW T \in Nat, NEW b \in 0..(B - 1),
           NEW k \in Nat, B * k + b <= T,
           NEW W, W = ((T % B) + B - b) % B
    PROVE  /\ W \in 0..(B - 1)
           /\ \E j \in Nat : B * j + b = T - W /\ B * k + b <= B * j + b
<1> DEFINE H == T % B
           q == T \div B
           y == (H + B - b) \div B
           j == q - 1 + y
<1>1. T = B * q + H /\ H \in 0..(B - 1) /\ q \in Int
  BY DivMod
<1> HIDE DEF H, q
<1>2. H + B - b \in Int
  BY <1>1, SMT
<1>3. H + B - b = B * y + W /\ W \in 0..(B - 1) /\ y \in Int
  BY <1>2, DivMod DEF H
<1> HIDE DEF y
<1>4. B * j + b = T - W /\ j \in Int
  BY <1>1, <1>3, SMT
<1> HIDE DEF j
<1>5. k <= j
  <2>1. CASE k > j
    <3>1. B * k >= B * j + B
      BY <2>1, <1>4, MultiplesApart
    <3>2. QED
      BY <3>1, <1>3, <1>4, SMT
  <2>2. QED
    BY <2>1, <1>4, SMT
<1>6. B * k + b <= B * j + b
  <2>1. CASE k = j
    BY <2>1, <1>4, SMT
  <2>2. CASE k < j
    <3>1. B * j >= B * k + B
      BY <2>2, <1>4, MultiplesApart
    <3>2. QED
      BY <3>1, <1>4, SMT
  <2>3. QED
    BY <2>1, <2>2, <1>4, <1>5, SMT
<1>7. j \in Nat
  BY <1>4, <1>5, SMT
<1>8. QED
  BY <1>3, <1>4, <1>6, <1>7

\* The slot the writer is in, whatever lap it is on, begins at most three bytes before
\* the end of the stream.
LEMMA LiveSlot ==
    ASSUME NEW S \in Nat, S > 0, NEW T \in Nat, NEW s,
           s = ((T % (S * 4)) \div 4) % S
    PROVE  /\ s \in 0..(S - 1)
           /\ \E j \in Nat : /\ (S * 4) * j + s * 4 <= T
                            /\ T <= (S * 4) * j + s * 4 + 3
<1> DEFINE B == S * 4
           H == T % B
           q == T \div B
           t == H \div 4
<1>1. B \in Nat /\ B > 0
  BY SMT
<1> HIDE DEF B
<1>2. T = B * q + H /\ H \in 0..(B - 1) /\ q \in Int
  BY <1>1, DivMod
<1> HIDE DEF H, q
<1>3. H = 4 * t + (H % 4) /\ H % 4 \in 0..3 /\ t \in Int
  BY <1>2, <1>1, SMT
<1> HIDE DEF t
<1>4. t \in 0..(S - 1)
  BY <1>2, <1>3, SMT DEF B
<1>5. S * 0 + t = t
  BY <1>4, SMT
<1>6. t % S = t
  BY <1>4, <1>5, Remainder, SMT
<1>7. s = t
  BY <1>6 DEF t, H, B
<1>8. q \in Nat
  <2>1. CASE q < 0
    <3>1. B * 0 >= B * q + B
      BY <2>1, <1>1, <1>2, MultiplesApart
    <3>2. QED
      BY <3>1, <1>1, <1>2, SMT
  <2>2. QED
    BY <2>1, <1>2, SMT
<1>9. B * q + s * 4 <= T /\ T <= B * q + s * 4 + 3
  BY <1>1, <1>2, <1>3, <1>7, <1>8, SMT
<1>10. QED
  BY <1>4, <1>7, <1>8, <1>9 DEF B

-----------------------------------------------------------------------------
(* The invariant.                                                           *)

\* The ring has at least four slots of four bytes, as numbers.
LEMMA Constants ==
    /\ Slots \in Nat /\ Slots >= 4
    /\ MaxBytes \in Nat /\ MaxTorn \in Nat
    /\ Slack \in 0..8
    /\ Counts \subseteq Nat /\ Timeouts \subseteq Nat
    /\ Overrides \subseteq -1..3
    /\ FrameLen = 4 /\ PollMs = 2
    /\ BufBytes = Slots * 4 /\ BufBytes \in Nat /\ BufBytes >= 16
    /\ Base = mdio_read_slot * 4
<1>1. Slots \in Nat /\ Slots >= 4 /\ FrameLen = 4
  BY CaptureAssumption DEF FrameLen
<1>2. BufBytes = Slots * 4 /\ Base = mdio_read_slot * 4
  BY <1>1 DEF BufBytes, Base
<1>3. BufBytes \in Nat /\ BufBytes >= 16
  BY <1>1, <1>2, SMT
<1>4. QED
  BY <1>1, <1>2, <1>3, CaptureAssumption DEF PollMs, FrameLen

\* The ring holds the last BufBytes bytes of the stream, each at its place.
LEMMA RingHoldsTheLast ==
    ASSUME total \in Nat, NEW n \in Nat, n < total, total <= n + BufBytes
    PROVE  At(n % BufBytes) = n
<1>1. total > n % BufBytes /\ total - 1 - ((total - 1 - (n % BufBytes)) % BufBytes) = n
  BY RingPosition, Constants
<1>2. QED
  BY <1>1 DEF At

\* TypeOK in parts: the Booleans, the stream, and the reader.
FlagsOK == capture_on \in BOOLEAN /\ capture_counted \in BOOLEAN /\ activity \in BOOLEAN

StreamOK ==
    /\ total \in 0..MaxBytes /\ frame_at \in 0..total /\ torn \in 0..MaxTorn
    /\ whole \subseteq 0..total

ReaderOK ==
    /\ mdio_read_slot \in 0..(Slots - 1)
    /\ mdio_byte_offset \in -1..3
    /\ pc \in {"idle", "look", "sleep", "take"}
    /\ timeout_ms \in {0} \cup Timeouts
    /\ waited_ms \in Nat /\ waited_ms < timeout_ms + 2
    /\ skipped \in 0..Slots
    /\ slack \in 0..Slack
    /\ due_from \in 0..(total + 4)

RemainingOK == capture_remaining \in {0} \cup UNION {0..n : n \in Counts}

\* Locals start at zero; a sleep is only begun within the timeout.
LocalsOK ==
    /\ pc = "idle" => waited_ms = 0
    /\ pc = "sleep" => waited_ms < timeout_ms
    /\ pc # "take" => skipped < Slots

\* The stream position of the read slot, if the reader is k laps in.
Place(k) == BufBytes * k + Base

\* The reader is k laps in: its slot has been reached by the writer, holds nothing
\* already delivered, and, once the reader has decided to take the frame there, holds
\* all of it and will until it has been read.
ReaderAt(k) ==
    /\ Place(k) <= total
    /\ due_from <= Place(k) + TakenOffset + 3
    /\ pc = "take" => /\ Place(k) + TakenOffset + 4 <= total
                      /\ total + slack <= Place(k) + TakenOffset + BufBytes

ReaderPlaced == \E k \in Nat : ReaderAt(k)

IInv ==
    /\ FlagsOK
    /\ StreamOK
    /\ ReaderOK
    /\ RemainingOK
    /\ LocalsOK
    /\ SessionIsConsistent
    /\ ReaderPlaced

\* The starting state satisfies the invariant.
LEMMA InitIInv ==
    ASSUME Init
    PROVE  IInv
<1> USE Constants DEF Init
<1>1. FlagsOK
  BY DEF FlagsOK
<1>2. StreamOK
  BY DEF StreamOK
<1>3. ReaderOK
  BY DEF ReaderOK
<1>4. RemainingOK
  BY DEF RemainingOK
<1>5. LocalsOK
  BY DEF LocalsOK
<1>6. SessionIsConsistent
  BY DEF SessionIsConsistent
<1>7. ReaderAt(0)
  BY DEF ReaderAt, Place, TakenOffset
<1>8. QED
  BY <1>1, <1>2, <1>3, <1>4, <1>5, <1>6, <1>7 DEF IInv, ReaderPlaced

-----------------------------------------------------------------------------
(* The reader's place.                                                      *)

\* What the reader measures is its distance from the writer, up to whole laps.
LEMMA WrittenIsDistance ==
    ASSUME StreamOK, ReaderOK, NEW k \in Nat, Place(k) <= total
    PROVE  /\ Written \in 0..(BufBytes - 1)
           /\ \E j \in Nat : Place(j) = total - Written /\ Place(k) <= Place(j)
<1>1. total \in Nat /\ Base \in 0..(BufBytes - 1)
  BY Constants, SMT DEF StreamOK, ReaderOK
<1>2. Written = ((total % BufBytes) + BufBytes - Base) % BufBytes
  BY DEF Written, Head
<1>3. BufBytes * k + Base <= total /\ BufBytes \in Nat /\ BufBytes > 0
  BY Constants DEF Place
<1>4. \A B, T, b, j \in Nat :
         B > 0 /\ b \in 0..(B - 1) /\ B * j + b <= T
         => \A W : W = ((T % B) + B - b) % B
                  => /\ W \in 0..(B - 1)
                     /\ \E i \in Nat : B * i + b = T - W /\ B * j + b <= B * i + b
  BY Distance
<1>5. total \in Nat /\ Base \in Nat /\ BufBytes \in Nat /\ BufBytes > 0
  BY <1>1, <1>3, Constants
<1>6. \A W : W = ((total % BufBytes) + BufBytes - Base) % BufBytes
            => /\ W \in 0..(BufBytes - 1)
               /\ \E i \in Nat : /\ BufBytes * i + Base = total - W
                               /\ BufBytes * k + Base <= BufBytes * i + Base
  BY <1>1, <1>3, <1>4, <1>5, Zenon
<1>7. /\ Written \in 0..(BufBytes - 1)
      /\ \E j \in Nat : /\ BufBytes * j + Base = total - Written
                       /\ BufBytes * k + Base <= BufBytes * j + Base
  BY <1>2, <1>6, Zenon
<1>8. QED
  BY <1>7 DEF Place

\* The slot the writer is in is a slot, and the reader put there has lost nothing
\* but whole frames.
LEMMA LatestSlotIsLive ==
    ASSUME total \in Nat
    PROVE  /\ LatestSlot \in 0..(Slots - 1)
           /\ \E j \in Nat : /\ BufBytes * j + LatestSlot * 4 <= total
                            /\ total <= BufBytes * j + LatestSlot * 4 + 3
<1>1. LatestSlot = ((total % (Slots * 4)) \div 4) % Slots
  BY Constants DEF LatestSlot, Head
<1>2. Slots \in Nat /\ Slots > 0 /\ BufBytes = Slots * 4
  BY Constants
<1>3. /\ LatestSlot \in 0..(Slots - 1)
      /\ \E j \in Nat : /\ (Slots * 4) * j + LatestSlot * 4 <= total
                       /\ total <= (Slots * 4) * j + LatestSlot * 4 + 3
  BY <1>1, <1>2, LiveSlot, Zenon
<1>4. QED
  BY <1>2, <1>3

\* The slot after the read slot, a lap on where the ring wraps.
LEMMA NextSlotPlace ==
    ASSUME ReaderOK, NEW j \in Nat, NEW s, s = (mdio_read_slot + 1) % Slots
    PROVE  /\ s \in 0..(Slots - 1)
           /\ \E i \in Nat : BufBytes * i + s * 4 = Place(j) + 4
<1>1. CASE mdio_read_slot + 1 < Slots
  <2>1. Slots * 0 + (mdio_read_slot + 1) = mdio_read_slot + 1
    BY <1>1, Constants DEF ReaderOK
  <2>2. s = mdio_read_slot + 1
    BY <1>1, <2>1, Remainder, Constants DEF ReaderOK
  <2>3. s \in 0..(Slots - 1) /\ BufBytes * j + s * 4 = Place(j) + 4
    BY <1>1, <2>2, Constants DEF ReaderOK, Place
  <2>4. QED
    BY <2>3
<1>2. CASE mdio_read_slot + 1 = Slots
  <2>1. Slots * 1 + 0 = mdio_read_slot + 1
    BY <1>2, Constants DEF ReaderOK
  <2>2. s = 0
    BY <2>1, Remainder, Constants DEF ReaderOK
  <2>3. BufBytes * (j + 1) + s * 4 = Place(j) + 4
    BY <1>2, <2>2, Constants, SMT DEF ReaderOK, Place
  <2>4. s \in 0..(Slots - 1) /\ j + 1 \in Nat
    BY <2>2, Constants
  <2>5. QED
    BY <2>3, <2>4
<1>3. QED
  BY <1>1, <1>2, Constants DEF ReaderOK

\* Once the reader has decided to take a frame, what it reads is that stretch of the
\* stream.
LEMMA TakenIsInPlace ==
    ASSUME StreamOK, ReaderOK, pc = "take", NEW k \in Nat, ReaderAt(k)
    PROVE  \A i \in 1..4 : Taken[i] = Place(k) + TakenOffset + i - 1
<1> DEFINE p == Place(k) + TakenOffset
<1>1. p \in Nat /\ TakenOffset \in 0..3 /\ Base \in Nat /\ Place(k) \in Nat
  BY Constants, SMT DEF ReaderOK, TakenOffset, Place
<1>2. p + 4 <= total /\ total <= p + BufBytes /\ total \in Nat
  BY <1>1, Constants DEF ReaderAt, ReaderOK, StreamOK
<1>3. SUFFICES ASSUME NEW i \in 1..4
               PROVE  Taken[i] = p + i - 1
  OBVIOUS
<1>4. Taken[i] = At((Base + TakenOffset + i - 1) % BufBytes)
  BY Constants DEF Taken, Window
<1>5. (Base + TakenOffset + i - 1) % BufBytes = (p + i - 1) % BufBytes
  <2>1. Base + TakenOffset + i - 1 \in Int /\ BufBytes \in Nat /\ BufBytes > 0 /\ k \in Int
    BY <1>1, Constants
  <2>2. (BufBytes * k + (Base + TakenOffset + i - 1)) % BufBytes
        = (Base + TakenOffset + i - 1) % BufBytes
    BY <2>1, WholeLapsVanish
  <2>3. BufBytes * k + (Base + TakenOffset + i - 1) = p + i - 1
    BY <2>1, <1>1, SMT DEF Place
  <2>4. QED
    BY <2>2, <2>3
<1> HIDE DEF p
<1>6. p + i - 1 \in Nat /\ p + i - 1 < total /\ total <= p + i - 1 + BufBytes
  BY <1>1, <1>2, Constants DEF p
<1>7. At((p + i - 1) % BufBytes) = p + i - 1
  <2>1. \A n \in Nat : n < total /\ total <= n + BufBytes => At(n % BufBytes) = n
    BY <1>2, RingHoldsTheLast
  <2>2. p + i - 1 \in Nat /\ p + i - 1 < total /\ total <= (p + i - 1) + BufBytes
    BY <1>6
  <2>3. QED
    BY <2>1, <2>2, Zenon
<1>8. QED
  BY <1>4, <1>5, <1>7 DEF p

-----------------------------------------------------------------------------
(* Every step keeps the reader in its place.                                *)

\* The reader does not move: neither does its place.
LEMMA PlaceStays ==
    ASSUME UNCHANGED mdio_read_slot, NEW k \in Nat
    PROVE  Place(k)' = Place(k)
BY DEF Place, Base, BufBytes, FrameLen

\* A look that decides to take a frame: the frame is in, and the margin outlasts the
\* bytes that may still land.
LEMMA DecidesToTake ==
    ASSUME StreamOK, ReaderOK, ReaderPlaced, ~Overrun,
           UNCHANGED <<mdio_read_slot, total, due_from>>,
           slack' = Slack, TakenOffset \in 0..3, TakenOffset' \in 0..3,
           TakenOffset <= TakenOffset', Written >= TakenOffset' + 4
    PROVE  ReaderPlaced'
<1>1. PICK k \in Nat : ReaderAt(k)
  BY DEF ReaderPlaced
<1>2. Place(k) <= total
  BY <1>1 DEF ReaderAt
<1>3. PICK j \in Nat : Place(j) = total - Written /\ Place(k) <= Place(j)
  BY <1>2, WrittenIsDistance
<1>4. Written \in 0..(BufBytes - 1) /\ Written <= BufBytes - 8
  BY <1>2, WrittenIsDistance, Constants DEF Overrun
<1>5. Place(k) \in Int /\ Place(j) \in Int /\ total \in Nat /\ due_from \in Nat
  BY Constants, SMT DEF Place, ReaderOK, StreamOK
<1>6. due_from <= Place(k) + TakenOffset + 3
  BY <1>1 DEF ReaderAt
<1>7. Place(j)' = Place(j)
  BY PlaceStays
<1>8. /\ Place(j)' <= total'
      /\ due_from' <= Place(j)' + TakenOffset' + 3
      /\ Place(j)' + TakenOffset' + 4 <= total'
      /\ total' + slack' <= Place(j)' + TakenOffset' + BufBytes
  <2> DEFINE p == Place(j)
             o == TakenOffset
             o2 == TakenOffset'
  <2>1. BufBytes \in Nat /\ Slack \in 0..8
    BY Constants
  <2>2. Written \in Int
    BY <1>4, <2>1
  <2>3. o \in 0..3 /\ o2 \in 0..3 /\ o <= o2 /\ Written >= o2 + 4
    OBVIOUS
  <2>4. p \in Int /\ p = total - Written
    BY <1>3, <1>5
  <2>5. due_from <= p + o + 3
    <3> HIDE DEF o
    <3>1. due_from <= Place(k) + o + 3
      BY <1>6 DEF o
    <3>2. QED
      BY <1>3, <1>5, <2>3, <3>1
  <2> HIDE DEF p, o, o2
  <2>6. /\ p <= total
        /\ due_from <= p + o2 + 3
        /\ p + o2 + 4 <= total
        /\ total + Slack <= p + o2 + BufBytes
    BY <1>4, <1>5, <2>1, <2>2, <2>3, <2>4, <2>5
  <2>7. QED
    BY <1>7, <2>6 DEF p, o2
<1>9. ReaderAt(j)'
  BY <1>8 DEF ReaderAt, BufBytes, FrameLen
<1>10. QED
  BY <1>9 DEF ReaderPlaced

\* What passes is a set of candidates.
LEMMA PassingsAreCandidates == \A passing \in Passings : passing \in SUBSET (0..3)
BY DEF Passings

\* Every step keeps the reader placed.
LEMMA PlaceStep ==
    ASSUME IInv, [Next]_vars
    PROVE  ReaderPlaced'
<1> USE Constants DEF FrameLen
<1>1. StreamOK /\ ReaderOK /\ ReaderPlaced
  BY DEF IInv
<1>2. PICK k \in Nat : ReaderAt(k)
  BY <1>1 DEF ReaderPlaced
<1>3. Place(k) \in Nat /\ Place(k) <= total /\ total \in Nat /\ TakenOffset \in 0..3
  BY <1>1, <1>2, SMT DEF ReaderAt, Place, ReaderOK, StreamOK, TakenOffset
\* A step that leaves the reader's data alone and does not take.
<1>4. ASSUME UNCHANGED <<mdio_read_slot, mdio_byte_offset, total, due_from>>, pc' # "take"
      PROVE  ReaderPlaced'
  <2>1. Place(k)' = Place(k) /\ TakenOffset' = TakenOffset
    BY <1>4, PlaceStays DEF TakenOffset
  <2>2. ReaderAt(k)'
    BY <1>2, <1>4, <2>1 DEF ReaderAt
  <2>3. QED
    BY <2>2 DEF ReaderPlaced
<1>5. CASE ByteArrives
  <2>1. /\ UNCHANGED <<mdio_read_slot, mdio_byte_offset, due_from, pc>>
        /\ total' = total + 1
        /\ pc = "take" => slack > 0
        /\ slack' = IF slack > 0 THEN slack - 1 ELSE 0
    BY <1>5 DEF ByteArrives, cursor
  <2>2. Place(k)' = Place(k) /\ TakenOffset' = TakenOffset
    BY <2>1, PlaceStays DEF TakenOffset
  <2>3. BufBytes' = BufBytes /\ slack \in Nat /\ due_from \in Nat
    BY <1>1 DEF ReaderOK, StreamOK, BufBytes
  <2>4. ReaderAt(k)'
    BY <1>2, <1>3, <2>1, <2>2, <2>3, SMT DEF ReaderAt
  <2>5. QED
    BY <2>4 DEF ReaderPlaced
<1>6. CASE FrameTears
  <2>1. UNCHANGED <<mdio_read_slot, mdio_byte_offset, total, due_from, pc, slack>>
    BY <1>6 DEF FrameTears, cursor
  <2>2. Place(k)' = Place(k) /\ TakenOffset' = TakenOffset /\ BufBytes' = BufBytes
    BY <2>1, PlaceStays DEF TakenOffset, BufBytes
  <2>3. ReaderAt(k)'
    BY <1>2, <2>1, <2>2 DEF ReaderAt
  <2>4. QED
    BY <2>3 DEF ReaderPlaced
<1>7. ASSUME mdio_read_slot' = LatestSlot, total' = total, pc' # "take",
             (TakenOffset' = 0 /\ due_from' = total) \/ UNCHANGED <<mdio_byte_offset, due_from>>
      PROVE  ReaderPlaced'
  <2>1. PICK j \in Nat : /\ BufBytes * j + LatestSlot * 4 <= total
                         /\ total <= BufBytes * j + LatestSlot * 4 + 3
    BY <1>3, LatestSlotIsLive
  <2>2. LatestSlot \in 0..(Slots - 1)
    BY <1>3, LatestSlotIsLive
  <2>3. Place(j)' = BufBytes * j + LatestSlot * 4
    BY <1>7 DEF Place, Base, BufBytes
  <2>4. Place(j)' \in Nat
    BY <2>2, <2>3, SMT
  <2>5. CASE TakenOffset' = 0 /\ due_from' = total
    BY <1>3, <1>7, <2>1, <2>3, <2>4, <2>5 DEF ReaderPlaced, ReaderAt
  <2>6. CASE UNCHANGED <<mdio_byte_offset, due_from>>
    <3>1. Place(k) <= Place(j)'
      <4> DEFINE x == Slots * k + mdio_read_slot
                 y == Slots * j + LatestSlot
      <4>1. Place(k) = 4 * x /\ x \in Int
        BY <1>1, SMT DEF Place, ReaderOK
      <4>2. Place(j)' = 4 * y /\ y \in Int
        BY <2>2, <2>3, SMT
      <4>3. 4 * x <= 4 * y + 3
        BY <1>3, <2>1, <2>3, <4>1, <4>2
      <4> HIDE DEF x, y
      <4>4. QED
        BY <4>1, <4>2, <4>3
    <3>2. due_from <= Place(k) + TakenOffset + 3 /\ due_from \in Nat
      BY <1>1, <1>2 DEF ReaderAt, ReaderOK, StreamOK
    <3>3. TakenOffset' = TakenOffset
      BY <2>6 DEF TakenOffset
    <3>4. Place(j)' <= total' /\ due_from' <= Place(j)' + TakenOffset' + 3
      BY <1>3, <1>7, <2>1, <2>3, <2>4, <2>6, <3>1, <3>2, <3>3
    <3>5. QED
      BY <1>7, <3>4 DEF ReaderPlaced, ReaderAt
  <2>7. QED
    BY <1>7, <2>5, <2>6
<1>8. CASE \E n \in Counts : CaptureStart(n)
  <2>1. TakenOffset' = 0 /\ pc' # "take"
    BY <1>8 DEF CaptureStart, TakenOffset
  <2>2. QED
    BY <1>7, <1>8, <2>1 DEF CaptureStart, wire
<1>9. CASE LookOverrun
  BY <1>7, <1>9 DEF LookOverrun, wire
<1>10. CASE \E off \in Overrides : SetByteOffset(off)
  <2>1. PICK off \in Overrides : SetByteOffset(off)
    BY <1>10
  <2>2. /\ mdio_read_slot' = mdio_read_slot /\ total' = total /\ due_from' = 0 /\ pc' # "take"
        /\ TakenOffset' \in 0..3
    BY <2>1, SMT DEF SetByteOffset, wire, TakenOffset
  <2>3. Place(k)' = Place(k)
    BY <2>2, PlaceStays
  <2>4. ReaderAt(k)'
    BY <1>3, <2>2, <2>3 DEF ReaderAt
  <2>5. QED
    BY <2>4 DEF ReaderPlaced
<1>11. CASE CaptureStop \/ (\E ms \in Timeouts : CaptureNext(ms)) \/ Wake
  <2>1. UNCHANGED <<mdio_read_slot, mdio_byte_offset, total, due_from>> /\ pc' # "take"
    BY <1>11 DEF CaptureStop, CaptureNext, Wake, wire, cursor
  <2>2. QED
    BY <1>4, <2>1
<1>12. CASE LookLocked
  <2>1. /\ UNCHANGED <<mdio_read_slot, mdio_byte_offset, total, due_from>> /\ slack' = Slack
        /\ mdio_byte_offset >= 0 /\ Written >= mdio_byte_offset + 4 /\ ~Overrun
    BY <1>12 DEF LookLocked, GoAndTake, Looks, wire, cursor
  <2>2. TakenOffset = mdio_byte_offset /\ TakenOffset' = TakenOffset
    BY <1>1, <2>1 DEF TakenOffset, ReaderOK
  <2>3. QED
    BY <1>1, <1>3, <2>1, <2>2, DecidesToTake
<1>13. ASSUME NEW passing \in SUBSET (0..3), mdio_byte_offset = -1, Looks,
              \/ LookDetects(passing) \/ LookSkips(passing) \/ LookGivesUp(passing)
              \/ LookAccepts(passing)
              \/ LookTimesOut(passing) \/ LookWaits(passing)
       PROVE  ReaderPlaced'
  <2>1. TakenOffset = 0 /\ ~Overrun
    BY <1>13 DEF TakenOffset, Looks
  <2>2. Written \in 0..(BufBytes - 1)
    BY <1>1, <1>3, WrittenIsDistance
  <2>3. CASE LookDetects(passing)
    <3>1. /\ UNCHANGED <<mdio_read_slot, total, due_from>> /\ slack' = Slack
          /\ Written >= 7 /\ TakenOffset' \in 0..3
      BY <2>2, <2>3 DEF LookDetects, GoAndTake, FullScan, wire, TakenOffset
    <3>2. TakenOffset <= TakenOffset' /\ Written >= TakenOffset' + 4
      <4> DEFINE o == TakenOffset'
      <4>1. o \in 0..3 /\ Written >= 7 /\ Written \in Int
        BY <2>2, <3>1
      <4> HIDE DEF o
      <4>2. 0 <= o /\ Written >= o + 4
        BY <4>1
      <4>3. QED
        BY <2>1, <4>2 DEF o
    <3>3. QED
      BY <1>1, <2>1, <3>1, <3>2, DecidesToTake
  <2>4. CASE LookGivesUp(passing)
    <3>1. /\ UNCHANGED <<mdio_read_slot, total, due_from>> /\ slack' = Slack
          /\ Written >= 7 /\ TakenOffset' = 0
      BY <1>13, <2>2, <2>4 DEF LookGivesUp, GoAndTake, FullScan, wire, cursor, TakenOffset
    <3>2. QED
      BY <1>1, <2>1, <2>2, <3>1, DecidesToTake
  <2>5. CASE LookAccepts(passing)
    <3>1. /\ UNCHANGED <<mdio_read_slot, total, due_from>> /\ slack' = Slack
          /\ Written >= 4 /\ TakenOffset' = 0
      BY <2>5 DEF LookAccepts, GoAndTake, QuickLook, wire, TakenOffset
    <3>2. QED
      BY <1>1, <2>1, <2>2, <3>1, DecidesToTake
  <2>6. CASE LookTimesOut(passing) \/ LookWaits(passing)
    <3>1. UNCHANGED <<mdio_read_slot, mdio_byte_offset, total, due_from>> /\ pc' # "take"
      BY <2>6 DEF LookTimesOut, LookWaits, Return, wire, cursor
    <3>2. QED
      BY <1>4, <3>1
  <2>7. CASE LookSkips(passing)
    <3>1. /\ mdio_read_slot' = (mdio_read_slot + 1) % Slots
          /\ UNCHANGED <<mdio_byte_offset, total, due_from, pc>> /\ pc # "take"
          /\ Written >= 7
      BY <1>13, <2>7 DEF LookSkips, FullScan, Looks, wire
    <3>2. PICK j \in Nat : Place(j) = total - Written /\ Place(k) <= Place(j)
      BY <1>1, <1>3, WrittenIsDistance
    <3>3. PICK i \in Nat : BufBytes * i + mdio_read_slot' * 4 = Place(j) + 4
      BY <1>1, <3>1, NextSlotPlace
    <3>4. Place(i)' = Place(j) + 4
      BY <3>3 DEF Place, Base, BufBytes
    <3>5. due_from <= Place(k) + TakenOffset + 3 /\ due_from \in Nat
      BY <1>1, <1>2 DEF ReaderAt, ReaderOK, StreamOK
    <3>6. TakenOffset' = 0
      BY <1>13, <3>1 DEF TakenOffset
    <3>7. Place(i)' <= total' /\ due_from' <= Place(i)' + TakenOffset' + 3 /\ pc' # "take"
      BY <1>3, <2>1, <2>2, <3>1, <3>2, <3>4, <3>5, <3>6
    <3>8. QED
      BY <3>7 DEF ReaderPlaced, ReaderAt
  <2>8. QED
    BY <1>13, <2>3, <2>4, <2>5, <2>6, <2>7
<1>14. CASE Take
  <2>1. /\ mdio_read_slot' = (mdio_read_slot + 1) % Slots
        /\ due_from' = Taken[4] + 4 /\ UNCHANGED <<mdio_byte_offset, total>>
        /\ pc = "take" /\ pc' # "take"
    BY <1>14 DEF Take, SlotAfterRead, Taken, Return, wire
  <2>2. Taken[4] = Place(k) + TakenOffset + 3
    BY <1>1, <1>2, <1>3, <2>1, TakenIsInPlace
  <2>3. PICK i \in Nat : BufBytes * i + mdio_read_slot' * 4 = Place(k) + 4
    BY <1>1, <2>1, NextSlotPlace
  <2>4. Place(i)' = Place(k) + 4
    BY <2>3 DEF Place, Base, BufBytes
  <2>5. TakenOffset' = TakenOffset
    BY <2>1 DEF TakenOffset
  <2>6. Place(k) + TakenOffset + 4 <= total
    BY <1>2, <2>1 DEF ReaderAt
  <2>7. Place(i)' <= total' /\ due_from' <= Place(i)' + TakenOffset' + 3
    BY <1>3, <2>1, <2>2, <2>4, <2>5, <2>6
  <2>8. QED
    BY <2>1, <2>7 DEF ReaderPlaced, ReaderAt
<1>15. CASE UNCHANGED vars
  BY <1>1, <1>15, PlaceStays DEF vars, ReaderPlaced, ReaderAt, TakenOffset, BufBytes, Place, Base
<1>16. CASE Look
  <2>1. CASE LookOverrun
    BY <1>9, <2>1
  <2>2. CASE LookLocked
    BY <1>12, <2>2
  <2>3. ASSUME Looks, NEW passing \in IF mdio_byte_offset = -1 THEN Passings ELSE {{}},
               \/ LookDetects(passing) \/ LookSkips(passing) \/ LookGivesUp(passing)
               \/ LookAccepts(passing)
               \/ LookTimesOut(passing) \/ LookWaits(passing)
        PROVE  ReaderPlaced'
    <3>1. CASE mdio_byte_offset = -1
      BY <1>13, <2>3, <3>1, PassingsAreCandidates
    <3>2. CASE mdio_byte_offset # -1
      <4>1. LookTimesOut(passing) \/ LookWaits(passing)
        BY <2>3, <3>2 DEF LookDetects, LookSkips, LookGivesUp, LookAccepts, FullScan, QuickLook
      <4>2. UNCHANGED <<mdio_read_slot, mdio_byte_offset, total, due_from>> /\ pc' # "take"
        BY <4>1 DEF LookTimesOut, LookWaits, Return, wire, cursor
      <4>3. QED
        BY <1>4, <4>2
    <3>3. QED
      BY <3>1, <3>2
  <2>4. QED
    BY <1>16, <2>1, <2>2, <2>3 DEF Look
<1>17. QED
  BY <1>5, <1>6, <1>8, <1>10, <1>11, <1>14, <1>15, <1>16 DEF Next, Reader

-----------------------------------------------------------------------------
(* The rest of the invariant.                                               *)

\* The stream only grows.
LEMMA StreamStep ==
    ASSUME IInv, [Next]_vars
    PROVE  StreamOK'
<1> USE Constants DEF IInv, StreamOK
<1>1. CASE ByteArrives
  <2>1. total' = total + 1 /\ total < MaxBytes /\ torn' = torn
    BY <1>1 DEF ByteArrives
  <2>2. CASE total' = frame_at + FrameLen
    <3>1. frame_at' = total' /\ whole' = whole \cup {total'}
      BY <1>1, <2>2 DEF ByteArrives
    <3>2. QED
      BY <2>1, <3>1
  <2>3. CASE total' # frame_at + FrameLen
    <3>1. frame_at' = frame_at /\ whole' = whole
      BY <1>1, <2>3 DEF ByteArrives
    <3>2. QED
      BY <2>1, <3>1
  <2>4. QED
    BY <2>2, <2>3
<1>2. CASE FrameTears
  BY <1>2 DEF FrameTears
<1>3. CASE UNCHANGED wire
  BY <1>3 DEF wire
<1>4. CASE ~ByteArrives /\ ~FrameTears
  <2>1. UNCHANGED wire
    BY <1>4 DEF Next, vars, wire, CaptureStart, CaptureStop, SetByteOffset, CaptureNext, Reader, Look,
         LookOverrun, LookLocked, LookDetects, LookSkips, LookGivesUp, LookAccepts, LookTimesOut,
         LookWaits, Wake, Take
  <2>2. QED
    BY <1>3, <2>1
<1>5. QED
  BY <1>1, <1>2, <1>4

\* The session's flags and counter.
LEMMA SessionStep ==
    ASSUME IInv, [Next]_vars
    PROVE  FlagsOK' /\ RemainingOK' /\ SessionIsConsistent'
<1> USE Constants
<1>1. FlagsOK /\ RemainingOK /\ SessionIsConsistent
  BY DEF IInv
<1>2. ASSUME UNCHANGED session
      PROVE  FlagsOK' /\ RemainingOK' /\ SessionIsConsistent'
  BY <1>1, <1>2 DEF session, FlagsOK, RemainingOK, SessionIsConsistent
<1>3. ASSUME Stop
      PROVE  FlagsOK' /\ RemainingOK' /\ SessionIsConsistent'
  <2>1. activity' = FALSE
    BY <1>1, <1>3 DEF Stop, WasOn, SessionIsConsistent, FlagsOK
  <2>2. capture_on' = FALSE /\ capture_counted' = FALSE /\ capture_remaining' = 0
    BY <1>3 DEF Stop
  <2>3. QED
    BY <2>1, <2>2 DEF FlagsOK, RemainingOK, SessionIsConsistent
<1>4. ASSUME NEW n \in Counts, CaptureStart(n)
      PROVE  FlagsOK' /\ RemainingOK' /\ SessionIsConsistent'
  <2>1. /\ capture_on' = TRUE /\ activity' = TRUE /\ capture_counted' = (n # 0)
        /\ capture_remaining' = n /\ n \in Nat
    BY <1>4 DEF CaptureStart
  <2>2. FlagsOK'
    BY <2>1 DEF FlagsOK
  <2>3. RemainingOK'
    <3>1. n \in 0..n
      BY <2>1
    <3>2. QED
      BY <2>1, <3>1 DEF RemainingOK
  <2>4. capture_counted' => capture_remaining' > 0
    <3>1. CASE n = 0
      BY <2>1, <3>1
    <3>2. CASE n > 0
      BY <2>1, <3>2
    <3>3. QED
      BY <2>1, <3>1, <3>2
  <2>5. QED
    BY <2>1, <2>2, <2>3, <2>4 DEF SessionIsConsistent
<1>5. CASE Take
  <2>1. CASE capture_counted /\ capture_remaining = 1
    BY <1>3, <1>5, <2>1 DEF Take
  <2>2. CASE ~(capture_counted /\ capture_remaining = 1)
    <3>1. /\ UNCHANGED <<capture_on, capture_counted, activity>>
          /\ capture_remaining' = IF capture_counted THEN capture_remaining - 1 ELSE 0
      BY <1>5, <2>2 DEF Take
    <3>2. CASE capture_counted
      <4>1. PICK n \in Counts : capture_remaining \in 0..n /\ capture_remaining > 1
        BY <1>1, <2>2, <3>2 DEF RemainingOK, SessionIsConsistent
      <4>2. capture_remaining' \in 0..n /\ capture_remaining' > 0
        BY <3>1, <3>2, <4>1
      <4>3. RemainingOK'
        BY <4>2 DEF RemainingOK
      <4>4. QED
        BY <1>1, <3>1, <4>2, <4>3 DEF FlagsOK, SessionIsConsistent
    <3>3. CASE ~capture_counted
      BY <1>1, <3>1, <3>3 DEF FlagsOK, RemainingOK, SessionIsConsistent
    <3>4. QED
      BY <3>2, <3>3
  <2>3. QED
    BY <2>1, <2>2
<1>6. CASE CaptureStop
  BY <1>3, <1>6 DEF CaptureStop
<1>7. CASE ~Take /\ ~CaptureStop /\ ~(\E n \in Counts : CaptureStart(n))
  <2>1. UNCHANGED session
    BY <1>7 DEF Next, vars, session, ByteArrives, FrameTears, SetByteOffset, CaptureNext, Reader, Look,
         LookOverrun, LookLocked, LookDetects, LookSkips, LookGivesUp, LookAccepts, LookTimesOut,
         LookWaits, Wake
  <2>2. QED
    BY <1>2, <2>1
<1>8. QED
  BY <1>4, <1>5, <1>6, <1>7

\* The reader's data and the locals of a call.
LEMMA ReaderStep ==
    ASSUME IInv, [Next]_vars
    PROVE  ReaderOK' /\ LocalsOK'
<1> USE Constants
<1>1. StreamOK /\ ReaderOK /\ LocalsOK
  BY DEF IInv
<1>2. PICK k \in Nat : ReaderAt(k)
  BY DEF IInv, ReaderPlaced
<1>3. CASE ByteArrives
  BY <1>1, <1>3 DEF ByteArrives, cursor, wait, StreamOK, ReaderOK, LocalsOK
<1>4. CASE FrameTears
  BY <1>1, <1>4 DEF FrameTears, cursor, wait, ReaderOK, LocalsOK
<1>5. CASE \E n \in Counts : CaptureStart(n)
  <2>1. LatestSlot \in 0..(Slots - 1)
    BY <1>1, LatestSlotIsLive DEF StreamOK
  <2>2. QED
    BY <1>1, <1>5, <2>1 DEF CaptureStart, wire, wait, StreamOK, ReaderOK, LocalsOK
<1>6. CASE CaptureStop
  BY <1>1, <1>6 DEF CaptureStop, wire, cursor, wait, ReaderOK, LocalsOK
<1>7. CASE \E off \in Overrides : SetByteOffset(off)
  BY <1>1, <1>7 DEF SetByteOffset, wire, wait, StreamOK, ReaderOK, LocalsOK
<1>8. CASE \E ms \in Timeouts : CaptureNext(ms)
  BY <1>1, <1>8 DEF CaptureNext, wire, cursor, ReaderOK, LocalsOK
<1>9. CASE Wake
  BY <1>1, <1>9 DEF Wake, WaitedSoFar, wire, cursor, ReaderOK, LocalsOK
<1>10. CASE Take
  <2>1. pc = "take"
    BY <1>10 DEF Take
  <2>2. /\ mdio_read_slot' = (mdio_read_slot + 1) % Slots
        /\ due_from' = Taken[4] + 4
        /\ UNCHANGED <<mdio_byte_offset, total>>
        /\ pc' = "idle" /\ timeout_ms' = 0 /\ waited_ms' = 0 /\ skipped' = 0 /\ slack' = 0
    BY <1>10 DEF Take, SlotAfterRead, Taken, Return, wire, FrameLen
  <2>3. mdio_read_slot' \in 0..(Slots - 1)
    BY <1>1, <2>2, NextSlotPlace
  <2>4. Taken[4] = Place(k) + TakenOffset + 3
    BY <1>1, <1>2, <2>1, TakenIsInPlace
  <2>5. due_from' \in 0..(total' + 4)
    <3>1. Place(k) \in Nat /\ TakenOffset \in 0..3 /\ total \in Nat
      BY <1>1, SMT DEF Place, ReaderOK, StreamOK, TakenOffset
    <3>2. Place(k) + TakenOffset + 4 <= total
      BY <1>2, <2>1 DEF ReaderAt
    <3>3. QED
      BY <2>2, <2>4, <3>1, <3>2
  <2>6. QED
    BY <1>1, <2>2, <2>3, <2>5 DEF ReaderOK, LocalsOK
<1>11. CASE LookOverrun
  <2>1. LatestSlot \in 0..(Slots - 1)
    BY <1>1, LatestSlotIsLive DEF StreamOK
  <2>2. QED
    BY <1>1, <1>11, <2>1 DEF LookOverrun, wire, wait, ReaderOK, LocalsOK
<1>12. CASE LookLocked
  BY <1>1, <1>12 DEF LookLocked, Looks, GoAndTake, wire, cursor, wait, ReaderOK, LocalsOK
<1>13. ASSUME Looks, NEW passing \in SUBSET (0..3),
              \/ LookDetects(passing) \/ LookSkips(passing) \/ LookGivesUp(passing)
              \/ LookAccepts(passing)
              \/ LookTimesOut(passing) \/ LookWaits(passing)
       PROVE  ReaderOK' /\ LocalsOK'
  <2>1. skipped < Slots /\ pc = "look"
    BY <1>1, <1>13 DEF Looks, LocalsOK
  <2>2. CASE LookDetects(passing)
    BY <1>1, <2>1, <2>2 DEF LookDetects, GoAndTake, wire, wait, ReaderOK, LocalsOK
  <2>3. CASE LookSkips(passing)
    <3>1. (mdio_read_slot + 1) % Slots \in 0..(Slots - 1)
      BY <1>1, <1>2, NextSlotPlace
    <3>2. QED
      BY <1>1, <2>1, <2>3, <3>1 DEF LookSkips, wire, ReaderOK, LocalsOK
  <2>4. CASE LookGivesUp(passing)
    <3>1. /\ UNCHANGED <<wire, cursor, timeout_ms, waited_ms, due_from>> /\ pc' = "take" /\ slack' = Slack
          /\ skipped' = skipped + 1 \/ skipped' = skipped
      BY <2>4 DEF LookGivesUp, GoAndTake
    <3>2. QED
      BY <1>1, <2>1, <3>1 DEF wire, cursor, ReaderOK, LocalsOK
  <2>5. CASE LookAccepts(passing)
    BY <1>1, <2>1, <2>5 DEF LookAccepts, GoAndTake, wire, wait, ReaderOK, LocalsOK
  <2>6. CASE LookTimesOut(passing)
    BY <1>1, <2>1, <2>6 DEF LookTimesOut, Return, wire, cursor, ReaderOK, LocalsOK
  <2>7. CASE LookWaits(passing)
    BY <1>1, <2>1, <2>7 DEF LookWaits, wire, cursor, wait, ReaderOK, LocalsOK
  <2>8. QED
    BY <1>13, <2>2, <2>3, <2>4, <2>5, <2>6, <2>7
<1>14. CASE Look
  <2>1. ASSUME Looks, NEW passing \in IF mdio_byte_offset = -1 THEN Passings ELSE {{}}
        PROVE  passing \in SUBSET (0..3)
    BY <2>1, PassingsAreCandidates
  <2>2. QED
    BY <1>11, <1>12, <1>13, <1>14, <2>1 DEF Look
<1>15. CASE UNCHANGED vars
  BY <1>1, <1>15 DEF vars, ReaderOK, LocalsOK
<1>16. QED
  BY <1>3, <1>4, <1>5, <1>6, <1>7, <1>8, <1>9, <1>10, <1>14, <1>15 DEF Next, Reader

\* The invariant holds in every reachable state.
LEMMA Inductive == Spec => []IInv
<1>1. Init => IInv
  BY InitIInv
<1>2. IInv /\ [Next]_vars => IInv'
  BY StreamStep, SessionStep, ReaderStep, PlaceStep DEF IInv
<1>3. QED
  BY <1>1, <1>2, PTL DEF Spec

-----------------------------------------------------------------------------
\* Every variable stays in its domain: the cursor on the ring, the wait within a poll
\* of the timeout.
THEOREM TypeCorrect == Spec => []TypeOK
<1>1. IInv => TypeOK
  BY Constants DEF IInv, TypeOK, FlagsOK, StreamOK, ReaderOK, RemainingOK
<1>2. QED
  BY <1>1, Inductive, PTL

\* The session, its counter and its indication agree.
THEOREM SessionsAreConsistent == Spec => []SessionIsConsistent
<1>1. IInv => SessionIsConsistent
  BY DEF IInv
<1>2. QED
  BY <1>1, Inductive, PTL

\* What a take reads: four successive bytes, none due earlier.
LEMMA TakesAreGood ==
    ASSUME IInv, Takes
    PROVE  Consecutive(Taken) /\ Taken[FrameLen] >= due_from
<1>1. PICK k \in Nat : ReaderAt(k)
  BY DEF IInv, ReaderPlaced
<1>2. StreamOK /\ ReaderOK /\ pc = "take"
  BY DEF IInv, Takes
<1>3. \A i \in 1..4 : Taken[i] = Place(k) + TakenOffset + i - 1
  BY <1>1, <1>2, TakenIsInPlace
<1>4. Place(k) \in Nat /\ TakenOffset \in 0..3 /\ due_from \in Nat
  BY <1>2, Constants, SMT DEF Place, ReaderOK, StreamOK, TakenOffset
<1>5. due_from <= Place(k) + TakenOffset + 3
  BY <1>1 DEF ReaderAt
<1>6. Consecutive(Taken)
  BY <1>3, <1>4, Constants DEF Consecutive
<1>7. Taken[4] >= due_from
  BY <1>3, <1>4, <1>5
<1>8. QED
  BY <1>6, <1>7, Constants

\* What a call hands up is one stretch of the stream, for every size of the ring and
\* however often the writer lapped the reader.
THEOREM PiecesAreWhole == Spec => FramesAreOfAPiece
<1>1. IInv /\ [Next]_vars => [Takes => Consecutive(Taken)]_vars
  BY TakesAreGood
<1>2. QED
  BY <1>1, Inductive, PTL DEF Spec, FramesAreOfAPiece

\* A session delivers the stream forwards and never twice.
THEOREM DeliveryIsForwards == Spec => NothingIsReplayed
<1>1. IInv /\ [Next]_vars => [Takes => Taken[FrameLen] >= due_from]_vars
  BY TakesAreGood
<1>2. QED
  BY <1>1, Inductive, PTL DEF Spec, NothingIsReplayed

\* A set with one member has no two.
LEMMA OneOf ==
  ASSUME NEW S \in SUBSET (0..3), Unique(S), NEW a \in S, NEW b \in S
  PROVE  a = b
<1>1. IsFiniteSet(0..3)
  <2>1. \A n \in Nat : IsFiniteSet(0..n)
    BY FS_Interval
  <2> QED
    BY <2>1
<1>2. IsFiniteSet(S)
  BY <1>1, FS_Subset
<1>3. \E x : S = {x}
  BY <1>2, FS_Singleton DEF Unique
<1> QED
  BY <1>3

\* What the reader measures is a number.
LEMMA WrittenIsInt == ASSUME IInv PROVE Written \in Int /\ FrameLen = 4
<1>1. StreamOK /\ ReaderOK
  BY DEF IInv
<1>2. total \in Nat /\ Base \in 0..(BufBytes - 1) /\ BufBytes \in Nat /\ BufBytes > 0 /\ FrameLen = 4
  BY <1>1, Constants, SMT DEF StreamOK, ReaderOK
<1> DEFINE x == (total % BufBytes) + BufBytes - Base
<1>3. x \in Int
  BY <1>2
<1> HIDE DEF x
<1>4. Written = x % BufBytes
  BY DEF Written, Head, x
<1> QED
  BY <1>2, <1>3, <1>4

\* A full scan that has a frame before it locks onto a frame, for every way in
\* which other bytes look like one. (mdio_detect_offset)
THEOREM ScansLock == Spec => ScanLocksOnAFrame
<1> DEFINE Locks == /\ pc = "look" /\ FullScan /\ mdio_byte_offset' # -1
                    /\ \E off \in 0..3 : IsFrame(Window(off))
                    => IsFrame(Window(mdio_byte_offset'))
<1>1. IInv /\ Next => Locks
  <2> SUFFICES ASSUME IInv, Next, pc = "look", FullScan, mdio_byte_offset' # -1,
                      NEW off \in 0..3, IsFrame(Window(off))
               PROVE  IsFrame(Window(mdio_byte_offset'))
    OBVIOUS
  <2>1. PICK passing \in Passings : LookDetects(passing)
    <3>1. Look
      BY DEF Next, ByteArrives, FrameTears, CaptureStart, CaptureStop, SetByteOffset, CaptureNext,
             Reader, Wake, Take, cursor, FullScan
    <3>2. ~LookOverrun /\ ~LookLocked
      BY DEF LookOverrun, LookLocked, FullScan
    <3>3. PICK passing \in Passings :
             \/ LookDetects(passing) \/ LookSkips(passing) \/ LookGivesUp(passing)
             \/ LookAccepts(passing) \/ LookTimesOut(passing) \/ LookWaits(passing)
      BY <3>1, <3>2 DEF Look, FullScan
    <3>4. ~LookSkips(passing) /\ ~LookGivesUp(passing) /\ ~LookTimesOut(passing) /\ ~LookWaits(passing)
      BY DEF LookSkips, LookGivesUp, LookTimesOut, LookWaits, cursor, FullScan
    <3>5. ~LookAccepts(passing)
      BY WrittenIsInt DEF LookAccepts, QuickLook, FullScan
    <3> QED
      BY <3>3, <3>4, <3>5
  <2> DEFINE frames == {o \in 0..3 : IsFrame(Window(o))}
  <2>2. passing \in SUBSET (0..3) /\ off \in passing
    <3> HIDE DEF frames
    <3>1. off \in frames /\ frames \subseteq 0..3
      BY DEF frames
    <3>2. CASE Lookalikes
      <4>1. PICK others \in SUBSET ((0..3) \ frames) : passing = frames \cup others
        BY <2>1, <3>2 DEF Passings, frames
      <4> QED
        BY <3>1, <4>1
    <3>3. CASE ~Lookalikes
      <4>1. passing = frames
        BY <2>1, <3>3 DEF Passings, frames
      <4> QED
        BY <3>1, <4>1
    <3> QED
      BY <3>2, <3>3
  <2>3. Unique(passing) /\ mdio_byte_offset' \in passing
    BY <2>1 DEF LookDetects
  <2> QED
    BY <2>2, <2>3, OneOf
<1>2. IInv /\ [Next]_vars => [Locks]_vars
  BY <1>1
<1> QED
  BY <1>2, Inductive, PTL DEF Spec, ScanLocksOnAFrame
=============================================================================
