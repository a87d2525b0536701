---------------------------- MODULE Access_proofs -----------------------------
(* Proofs about the access of registers behind others: the windows of a switch *)
(* (Smi), the addressing modes of a PHY (Modes), and the commands to a port of *)
(* a switch that are made of such accesses (Ports).                            *)
(*                                                                             *)
(* Smi: a call is a program of up to eight accesses, each of them up to four   *)
(* frames when the switch has several addresses. What holds of window and PHY  *)
(* between two accesses is stated per operation (Held), as one annotates a     *)
(* program; the invariant says that a call is where its step says, however     *)
(* the units' own work and the frames fall. What an earlier failed call left   *)
(* in hand (left) may still land until the first wait of the next is over.     *)
(* Modes: the selectors written so far hold until the access they are for.     *)
(* Ports: at each step of a command it is known which parts of the port's path *)
(* have been found, missed and written, and whether the SERDES page is out.    *)
EXTENDS MCAccess, SequenceTheorems, TLAPS

-----------------------------------------------------------------------------
(* The state of the two units, and the access under way, field by field.   *)

\* What a 16-bit register can hold, and what the SMI unit can be told.
Kinds    == {"value", "busy", "read", "write", "address", "read45", "write45", "index", "update"}
Regs     == {"phycmd", "phydata", "scratch"}
Words    == [kind : Kinds, at : Places \cup Indices \cup {Nowhere}, v : Values]
Accesses == [do : {"wait", "read", "write"}, reg : Regs, word : Words]

UnitsOK ==
  /\ smi \in [busy : BOOLEAN, cmd : Accesses, data : Words]
  /\ window \in [busy : BOOLEAN, cmd : Words, data : Words]

Op == call.op
At == call.at
V  == call.v

SBusy == smi.busy
SDo   == smi.cmd.do
SReg  == smi.cmd.reg
SKind == smi.data.kind
SAt   == smi.data.at
SV    == smi.data.v

WBusy == window.busy
WKind == window.cmd.kind
WName == window.cmd.at
WAt   == window.data.at
WV    == window.data.v

ADo   == Access.do
AReg  == Access.reg
AKind == Access.word.kind
AAt   == Access.word.at
AV    == Access.word.v

\* The register a command reaches.
Clause45 == {"read45", "write45"}
Storing  == {"write", "write45"}
WTo == IF WKind \in Clause45 THEN latch ELSE WName
STo == IF SKind \in Clause45 THEN latch ELSE SAt

\* Accesses of a call.
Length(op) == IF op \in {"phy_read", "phy_write"} THEN 4
              ELSE IF op \in {"phy_read_c45", "phy_write_c45"} THEN 7
              ELSE IF op = "modify" THEN 8
              ELSE IF op = "scratch_read" THEN 2 ELSE 1

-----------------------------------------------------------------------------
(* The inductive invariant.                                                *)

\* What the SMI unit has still to store fits what it was given, and never finds
\* the window at work.
StoresFit ==
  /\ ~multi => ~SBusy
  /\ SBusy /\ SDo = "write" =>
       /\ smi.data = smi.cmd.word
       /\ SReg # "scratch" => ~WBusy
       /\ SReg = "phycmd" /\ SKind = "address" => WAt \in Serdes
       /\ SReg = "phycmd" /\ SKind \in {"read", "write"} => SAt \in Phys
       /\ SReg = "scratch" => SAt \in Indices
  /\ WBusy /\ WKind = "address" => WAt \in Serdes
  /\ WBusy /\ WKind \in {"read", "write"} => WName \in Phys

\* The call has not come past its first wait, or never waits.
Before == status # "busy" \/ step = 1 \/ Op \in ScratchOps

\* The writes behind the window that the units have in hand: until the call is
\* past its first wait, they are what the last failed call left.
InHand(S) ==
  /\ WBusy /\ WKind \in Storing => <<WTo, WV>> \in S
  /\ SBusy /\ SDo = "write" /\ SReg = "phycmd" /\ SKind \in Storing => <<STo, WV>> \in S

LeftIsKnown == Before => InHand(left)

\* What the SMI unit read of the access under way is still so.
Truthful ==
  /\ AReg = "phycmd" => (SKind # "busy" => ~WBusy)
  /\ AReg = "phydata" => SV = WV
  /\ AReg = "scratch" => SV = scratch[pointer]

\* How far the access under way has come.
FrameKnown ==
  /\ step <= Length(Op)
  /\ status = "busy" /\ ~multi => frame = 1
  /\ status = "ok" => ~SBusy
  /\ status = "busy" /\ multi =>
       /\ frame = 1 /\ step # 1 => ~SBusy
       /\ frame = 2 => ~SBusy
       /\ frame = 3 => IF ADo = "write" THEN ~SBusy /\ smi.data = Access.word
                       ELSE IF SBusy THEN smi.cmd = Access ELSE Truthful
       /\ frame = 4 => IF ADo = "write" THEN SBusy => smi.cmd = Access
                       ELSE ~SBusy /\ Truthful

\* What holds of window and PHY before access k of the call, whatever was there
\* when it began.
Free == ~WBusy
Reading(kind)    == IF WBusy THEN WKind = kind /\ WTo = At ELSE WV = phy[At]
Writing(kind, v) == IF WBusy THEN WKind = kind /\ WTo = At /\ WV = v ELSE phy[At] = v
Addressing       == IF WBusy THEN WKind = "address" /\ WAt = At ELSE latch = At

HeldAddress(k) ==
  /\ k \in {2, 3, 5} => Free
  /\ k = 3 => WAt = At
  /\ k = 4 => Addressing
  /\ k \in {5, 6, 7, 8} => latch = At

Held(k) ==
  /\ Op = "phy_read" =>
       /\ k \in {2, 4, 5} => Free
       /\ k = 3 => Reading("read")
       /\ k = 4 => WV = phy[At]
       /\ k = 5 => got = phy[At]
  /\ Op = "phy_write" =>
       /\ k \in {2, 3, 5} => Free
       /\ k = 3 => WV = V
       /\ k = 4 => Writing("write", V)
       /\ k = 5 => phy[At] = V
  /\ Op = "phy_read_c45" =>
       /\ HeldAddress(k)
       /\ k \in {7, 8} => Free
       /\ k = 6 => Reading("read45")
       /\ k = 7 => WV = phy[At]
       /\ k = 8 => got = phy[At]
  /\ Op = "phy_write_c45" =>
       /\ HeldAddress(k)
       /\ k \in {6, 8} => Free
       /\ k = 6 => WV = V
       /\ k = 7 => Writing("write45", V)
       /\ k = 8 => phy[At] = V
  /\ Op = "modify" =>
       /\ k \in {2, 4, 5, 6, 7, 9} => Free
       /\ k = 3 => Reading("read")
       /\ k = 4 => WV = phy[At]
       /\ k \in {5, 6, 7} => got = phy[At]
       /\ k = 7 => WV = got \cup Mask
       /\ k = 8 => Writing("write", got \cup Mask) /\ (WBusy => got = phy[At])
       /\ k = 9 => phy[At] = got \cup Mask
  /\ Op = "scratch_read" =>
       /\ k = 2 => pointer = At
       /\ k = 3 => got = scratch[At]
  /\ Op = "scratch_write" =>
       /\ k = 2 => scratch[At] = V

Stored == multi /\ ADo = "write" /\ frame = 4 /\ ~SBusy
Here   == IF Stored THEN step + 1 ELSE step

CallOnCourse ==
  /\ status = "busy" => Held(Here)
  /\ status = "ok" => Held(Length(Op) + 1)

SmiInv == TypeOK /\ UnitsOK /\ StoresFit /\ LeftIsKnown /\ FrameKnown /\ CallOnCourse

-----------------------------------------------------------------------------
(* Calls, words and accesses.                                              *)

Ops == {"phy_read", "phy_write", "phy_read_c45", "phy_write_c45", "scratch_read", "scratch_write",
        "modify"}

\* A call names a place its operation is about, and a value.
LEMMA CallIs ==
  ASSUME TypeOK
  PROVE  /\ call.op \in Ops
         /\ call.op \in {"phy_read", "phy_write", "modify"} => call.at \in Phys
         /\ call.op \in {"phy_read_c45", "phy_write_c45"} => call.at \in Serdes
         /\ call.op \in {"scratch_read", "scratch_write"} => call.at \in Indices
         /\ call.v \in Values
BY SmiAssumption DEF TypeOK, Calls, Ops, Values

\* What a program put after one of four accesses looks like.
LEMMA Joined ==
  ASSUME NEW S, NEW s \in Seq(S), NEW t \in Seq(S), Len(s) = 4
  PROVE  /\ Len(s \o t) = 4 + Len(t)
         /\ \A i \in 1..4 : (s \o t)[i] = s[i]
         /\ \A i \in 5..(4 + Len(t)) : (s \o t)[i] = t[i - 4]
<1> DEFINE u == s \o t
<1>1. /\ Len(u) = Len(s) + Len(t)
      /\ \A i \in 1 .. Len(s) + Len(t) : u[i] = IF i <= Len(s) THEN s[i] ELSE t[i - Len(s)]
  BY ConcatProperties
<1>2. Len(t) \in Nat
  BY LenProperties
<1> HIDE DEF u
<1>3. ASSUME NEW i \in 1..4 PROVE u[i] = s[i]
  BY <1>1, <1>2
<1>4. ASSUME NEW i \in 5..(4 + Len(t)) PROVE u[i] = t[i - 4]
  BY <1>1, <1>2
<1>5. Len(u) = 4 + Len(t)
  BY <1>1
<1> QED
  BY <1>3, <1>4, <1>5 DEF u

\* The programs that select with four accesses and go on with three, spelt out.
LEMMA FourAndThree ==
  ASSUME NEW a, NEW b, NEW c, NEW d, NEW e, NEW f, NEW g
  PROVE  LET u == <<a, b, c, d>> \o <<e, f, g>>
         IN  Len(u) = 7 /\ u[1] = a /\ u[2] = b /\ u[3] = c /\ u[4] = d /\ u[5] = e /\ u[6] = f /\ u[7] = g
<1> DEFINE S == {a, b, c, d, e, f, g}
           s == <<a, b, c, d>>
           t == <<e, f, g>>
           u == s \o t
<1>0. s \in Seq(S) /\ t \in Seq(S) /\ Len(s) = 4
  OBVIOUS
<1>1. /\ Len(t) = 3
      /\ s[1] = a /\ s[2] = b /\ s[3] = c /\ s[4] = d /\ t[1] = e /\ t[2] = f /\ t[3] = g
  OBVIOUS
<1> HIDE DEF S, s, t
<1> HIDE DEF u
<1>2. Len(u) = 4 + Len(t) /\ (\A i \in 1..4 : u[i] = s[i]) /\ \A i \in 5..(4 + Len(t)) : u[i] = t[i - 4]
  BY <1>0, Joined DEF u
<1>3. Len(u) = 7 /\ u[1] = a /\ u[2] = b /\ u[3] = c /\ u[4] = d /\ u[5] = e /\ u[6] = f /\ u[7] = g
  BY <1>0, <1>1, <1>2
<1> QED
  BY <1>3 DEF u, s, t

\* The same with four more (phy_modify).
LEMMA FourAndFour ==
  ASSUME NEW a, NEW b, NEW c, NEW d, NEW e, NEW f, NEW g, NEW h
  PROVE  LET u == <<a, b, c, d>> \o <<e, f, g, h>>
         IN  Len(u) = 8 /\ u[1] = a /\ u[2] = b /\ u[3] = c /\ u[4] = d /\ u[5] = e /\ u[6] = f /\ u[7] = g
             /\ u[8] = h
<1> DEFINE S == {a, b, c, d, e, f, g, h}
           s == <<a, b, c, d>>
           t == <<e, f, g, h>>
           u == s \o t
<1>0. s \in Seq(S) /\ t \in Seq(S) /\ Len(s) = 4
  OBVIOUS
<1>1. /\ Len(t) = 4
      /\ s[1] = a /\ s[2] = b /\ s[3] = c /\ s[4] = d /\ t[1] = e /\ t[2] = f /\ t[3] = g /\ t[4] = h
  OBVIOUS
<1> HIDE DEF S, s, t
<1>2. Len(u) = 4 + Len(t) /\ (\A i \in 1..4 : u[i] = s[i]) /\ \A i \in 5..(4 + Len(t)) : u[i] = t[i - 4]
  BY <1>0, Joined
<1> HIDE DEF u
<1>3. /\ Len(u) = 8 /\ u[1] = a /\ u[2] = b /\ u[3] = c /\ u[4] = d /\ u[5] = e /\ u[6] = f /\ u[7] = g
      /\ u[8] = h
  BY <1>0, <1>1, <1>2
<1> QED
  BY <1>3 DEF u, s, t

\* What accesses and words are made of.
LEMMA WordIs ==
  /\ \A k, a, v : Word(k, a, v).kind = k /\ Word(k, a, v).at = a /\ Word(k, a, v).v = v
  /\ \A k \in Kinds, a \in Places \cup Indices \cup {Nowhere}, v \in Values : Word(k, a, v) \in Words
  /\ \A v : Value(v).kind = "value" /\ Value(v).at = Nowhere /\ Value(v).v = v
  /\ \A v \in Values : Value(v) \in Words
  /\ {} \in Values
BY DEF Word, Words, Value, Values, Kinds

\* The accesses a program is made of, field by field.
LEMMA FieldsAre ==
  /\ Wait.do = "wait" /\ Wait.reg = "phycmd" /\ Wait.word = Value({})
  /\ \A r : Get(r).do = "read" /\ Get(r).reg = r /\ Get(r).word = Value({})
  /\ \A r, w : Put(r, w).do = "write" /\ Put(r, w).reg = r /\ Put(r, w).word = w
  /\ \A k, a : Command(k, a) = Put("phycmd", Word(k, a, {}))
BY DEF Wait, Get, Put, Command

\* They are accesses of the units.
LEMMA AccessesAre ==
  /\ Wait \in Accesses
  /\ \A r \in Regs : Get(r) \in Accesses
  /\ \A r \in Regs, w \in Words : Put(r, w) \in Accesses
  /\ \A r \in Regs, v \in Values : Put(r, Value(v)) \in Accesses
  /\ \A k \in Kinds, a \in Places : Command(k, a) \in Accesses
<1>1. Value({}) \in Words
  BY WordIs
<1>2. Wait \in Accesses
  BY <1>1 DEF Wait, Accesses, Regs
<1>3. ASSUME NEW r \in Regs PROVE Get(r) \in Accesses
  BY <1>1 DEF Get, Accesses
<1>4. ASSUME NEW r \in Regs, NEW w \in Words PROVE Put(r, w) \in Accesses
  BY DEF Put, Accesses
<1>5. ASSUME NEW r \in Regs, NEW v \in Values PROVE Put(r, Value(v)) \in Accesses
  BY <1>4, WordIs
<1>6. ASSUME NEW k \in Kinds, NEW a \in Places PROVE Command(k, a) \in Accesses
  BY <1>4, WordIs, FieldsAre DEF Regs
<1> QED
  BY <1>2, <1>3, <1>4, <1>5, <1>6

-----------------------------------------------------------------------------
(* The programs, one access after the other.                               *)

Does(d, r, k, a, v) == ADo = d /\ AReg = r /\ AKind = k /\ AAt = a /\ AV = v

\* What phy_read does, access by access. (access.py)
LEMMA PhyReadIs ==
  ASSUME TypeOK, got \cup Mask \in Values, Op = "phy_read"
  PROVE  /\ Len(Program(call)) = 4
         /\ step = 1 => Does("wait", "phycmd", "value", Nowhere, {})
         /\ step = 2 => Does("write", "phycmd", "read", At, {})
         /\ step = 3 => Does("wait", "phycmd", "value", Nowhere, {})
         /\ step = 4 => Does("read", "phydata", "value", Nowhere, {})
         /\ Program(call) \in Seq(Accesses)
         /\ Program(call)[1] = Wait
<1> DEFINE p == Program(call)
<1>1. p = <<Wait, Command("read", call.at), Wait, Get("phydata")>>
  BY DEF Op, Program, PhyRead
<1>2. /\ Len(p) = 4
      /\ p[1] = Wait
      /\ p[2] = Command("read", call.at)
      /\ p[3] = Wait
      /\ p[4] = Get("phydata")
  BY <1>1
<1>3. p \in Seq(Accesses)
  <2>1. Wait \in Accesses
    BY CallIs, AccessesAre, WordIs DEF Op, Kinds, Regs, Places
  <2>2. Command("read", call.at) \in Accesses
    BY CallIs, AccessesAre, WordIs DEF Op, Kinds, Regs, Places
  <2>3. Get("phydata") \in Accesses
    BY CallIs, AccessesAre, WordIs DEF Op, Kinds, Regs, Places
  <2> HIDE DEF p
  <2> QED
    BY <1>1, <2>1, <2>2, <2>3
<1>4. step = 1 => Does("wait", "phycmd", "value", Nowhere, {})
  BY <1>2, FieldsAre, WordIs DEF Does, p, At, V, ADo, AReg, AKind, AAt, AV, Access
<1>5. step = 2 => Does("write", "phycmd", "read", At, {})
  BY <1>2, FieldsAre, WordIs DEF Does, p, At, V, ADo, AReg, AKind, AAt, AV, Access
<1>6. step = 3 => Does("wait", "phycmd", "value", Nowhere, {})
  BY <1>2, FieldsAre, WordIs DEF Does, p, At, V, ADo, AReg, AKind, AAt, AV, Access
<1>7. step = 4 => Does("read", "phydata", "value", Nowhere, {})
  BY <1>2, FieldsAre, WordIs DEF Does, p, At, V, ADo, AReg, AKind, AAt, AV, Access
<1> QED
  BY <1>2, <1>3, <1>4, <1>5, <1>6, <1>7

\* What phy_write does.
LEMMA PhyWriteIs ==
  ASSUME TypeOK, got \cup Mask \in Values, Op = "phy_write"
  PROVE  /\ Len(Program(call)) = 4
         /\ step = 1 => Does("wait", "phycmd", "value", Nowhere, {})
         /\ step = 2 => Does("write", "phydata", "value", Nowhere, V)
         /\ step = 3 => Does("write", "phycmd", "write", At, {})
         /\ step = 4 => Does("wait", "phycmd", "value", Nowhere, {})
         /\ Program(call) \in Seq(Accesses)
         /\ Program(call)[1] = Wait
<1> DEFINE p == Program(call)
<1>1. p = <<Wait, Put("phydata", Value(call.v)), Command("write", call.at), Wait>>
  BY DEF Op, Program, PhyWrite
<1>2. /\ Len(p) = 4
      /\ p[1] = Wait
      /\ p[2] = Put("phydata", Value(call.v))
      /\ p[3] = Command("write", call.at)
      /\ p[4] = Wait
  BY <1>1
<1>3. p \in Seq(Accesses)
  <2>1. Wait \in Accesses
    BY CallIs, AccessesAre, WordIs DEF Op, Kinds, Regs, Places
  <2>2. Put("phydata", Value(call.v)) \in Accesses
    BY CallIs, AccessesAre, WordIs DEF Op, Kinds, Regs, Places
  <2>3. Command("write", call.at) \in Accesses
    BY CallIs, AccessesAre, WordIs DEF Op, Kinds, Regs, Places
  <2> HIDE DEF p
  <2> QED
    BY <1>1, <2>1, <2>2, <2>3
<1>4. step = 1 => Does("wait", "phycmd", "value", Nowhere, {})
  BY <1>2, FieldsAre, WordIs DEF Does, p, At, V, ADo, AReg, AKind, AAt, AV, Access
<1>5. step = 2 => Does("write", "phydata", "value", Nowhere, V)
  BY <1>2, FieldsAre, WordIs DEF Does, p, At, V, ADo, AReg, AKind, AAt, AV, Access
<1>6. step = 3 => Does("write", "phycmd", "write", At, {})
  BY <1>2, FieldsAre, WordIs DEF Does, p, At, V, ADo, AReg, AKind, AAt, AV, Access
<1>7. step = 4 => Does("wait", "phycmd", "value", Nowhere, {})
  BY <1>2, FieldsAre, WordIs DEF Does, p, At, V, ADo, AReg, AKind, AAt, AV, Access
<1> QED
  BY <1>2, <1>3, <1>4, <1>5, <1>6, <1>7

\* What scratch_read does.
LEMMA ScratchReadIs ==
  ASSUME TypeOK, got \cup Mask \in Values, Op = "scratch_read"
  PROVE  /\ Len(Program(call)) = 2
         /\ step = 1 => Does("write", "scratch", "index", At, {})
         /\ step = 2 => Does("read", "scratch", "value", Nowhere, {})
         /\ Program(call) \in Seq(Accesses)
         /\ Program(call)[1] = Put("scratch", Word("index", call.at, {}))
<1> DEFINE p == Program(call)
<1>1. p = <<Put("scratch", Word("index", call.at, {})), Get("scratch")>>
  BY DEF Op, Program, ScratchRead
<1>2. /\ Len(p) = 2
      /\ p[1] = Put("scratch", Word("index", call.at, {}))
      /\ p[2] = Get("scratch")
  BY <1>1
<1>3. p \in Seq(Accesses)
  <2>1. Put("scratch", Word("index", call.at, {})) \in Accesses
    BY CallIs, AccessesAre, WordIs DEF Op, Kinds, Regs, Places
  <2>2. Get("scratch") \in Accesses
    BY CallIs, AccessesAre, WordIs DEF Op, Kinds, Regs, Places
  <2> HIDE DEF p
  <2> QED
    BY <1>1, <2>1, <2>2
<1>4. step = 1 => Does("write", "scratch", "index", At, {})
  BY <1>2, FieldsAre, WordIs DEF Does, p, At, V, ADo, AReg, AKind, AAt, AV, Access
<1>5. step = 2 => Does("read", "scratch", "value", Nowhere, {})
  BY <1>2, FieldsAre, WordIs DEF Does, p, At, V, ADo, AReg, AKind, AAt, AV, Access
<1> QED
  BY <1>2, <1>3, <1>4, <1>5

\* What scratch_write does.
LEMMA ScratchWriteIs ==
  ASSUME TypeOK, got \cup Mask \in Values, Op = "scratch_write"
  PROVE  /\ Len(Program(call)) = 1
         /\ step = 1 => Does("write", "scratch", "update", At, V)
         /\ Program(call) \in Seq(Accesses)
         /\ Program(call)[1] = Put("scratch", Word("update", call.at, call.v))
<1> DEFINE p == Program(call)
<1>1. p = <<Put("scratch", Word("update", call.at, call.v))>>
  BY DEF Op, Program, ScratchWrite
<1>2. /\ Len(p) = 1
      /\ p[1] = Put("scratch", Word("update", call.at, call.v))
  BY <1>1
<1>3. p \in Seq(Accesses)
  <2>1. Put("scratch", Word("update", call.at, call.v)) \in Accesses
    BY CallIs, AccessesAre, WordIs DEF Op, Kinds, Regs, Places
  <2> HIDE DEF p
  <2> QED
    BY <1>1, <2>1
<1>4. step = 1 => Does("write", "scratch", "update", At, V)
  BY <1>2, FieldsAre, WordIs DEF Does, p, At, V, ADo, AReg, AKind, AAt, AV, Access
<1> QED
  BY <1>2, <1>3, <1>4

\* What phy_read_c45 does.
LEMMA PhyReadC45Is ==
  ASSUME TypeOK, got \cup Mask \in Values, Op = "phy_read_c45"
  PROVE  /\ Len(Program(call)) = 7
         /\ step = 1 => Does("wait", "phycmd", "value", Nowhere, {})
         /\ step = 2 => Does("write", "phydata", "value", At, {})
         /\ step = 3 => Does("write", "phycmd", "address", At, {})
         /\ step = 4 => Does("wait", "phycmd", "value", Nowhere, {})
         /\ step = 5 => Does("write", "phycmd", "read45", At, {})
         /\ step = 6 => Does("wait", "phycmd", "value", Nowhere, {})
         /\ step = 7 => Does("read", "phydata", "value", Nowhere, {})
         /\ Program(call) \in Seq(Accesses)
         /\ Program(call)[1] = Wait
<1> DEFINE p == Program(call)
<1>1. p = <<Wait, Put("phydata", Word("value", call.at, {})), Command("address", call.at), Wait>>
          \o <<Command("read45", call.at), Wait, Get("phydata")>>
  BY DEF Op, Program, PhyReadC45, AddressCycle
<1>2. /\ Len(p) = 7
      /\ p[1] = Wait
      /\ p[2] = Put("phydata", Word("value", call.at, {}))
      /\ p[3] = Command("address", call.at)
      /\ p[4] = Wait
      /\ p[5] = Command("read45", call.at)
      /\ p[6] = Wait
      /\ p[7] = Get("phydata")
  <2> HIDE DEF p
  <2> QED
    BY <1>1, FourAndThree
<1>3. p \in Seq(Accesses)
  <2>1. Wait \in Accesses
    BY CallIs, AccessesAre, WordIs DEF Op, Kinds, Regs, Places
  <2>2. Put("phydata", Word("value", call.at, {})) \in Accesses
    BY CallIs, AccessesAre, WordIs DEF Op, Kinds, Regs, Places
  <2>3. Command("address", call.at) \in Accesses
    BY CallIs, AccessesAre, WordIs DEF Op, Kinds, Regs, Places
  <2>4. Command("read45", call.at) \in Accesses
    BY CallIs, AccessesAre, WordIs DEF Op, Kinds, Regs, Places
  <2>5. Get("phydata") \in Accesses
    BY CallIs, AccessesAre, WordIs DEF Op, Kinds, Regs, Places
  <2> HIDE DEF p
  <2> QED
    BY <1>1, <2>1, <2>2, <2>3, <2>4, <2>5
<1>4. step = 1 => Does("wait", "phycmd", "value", Nowhere, {})
  BY <1>2, FieldsAre, WordIs DEF Does, p, At, V, ADo, AReg, AKind, AAt, AV, Access
<1>5. step = 2 => Does("write", "phydata", "value", At, {})
  BY <1>2, FieldsAre, WordIs DEF Does, p, At, V, ADo, AReg, AKind, AAt, AV, Access
<1>6. step = 3 => Does("write", "phycmd", "address", At, {})
  BY <1>2, FieldsAre, WordIs DEF Does, p, At, V, ADo, AReg, AKind, AAt, AV, Access
<1>7. step = 4 => Does("wait", "phycmd", "value", Nowhere, {})
  BY <1>2, FieldsAre, WordIs DEF Does, p, At, V, ADo, AReg, AKind, AAt, AV, Access
<1>8. step = 5 => Does("write", "phycmd", "read45", At, {})
  BY <1>2, FieldsAre, WordIs DEF Does, p, At, V, ADo, AReg, AKind, AAt, AV, Access
<1>9. step = 6 => Does("wait", "phycmd", "value", Nowhere, {})
  BY <1>2, FieldsAre, WordIs DEF Does, p, At, V, ADo, AReg, AKind, AAt, AV, Access
<1>10. step = 7 => Does("read", "phydata", "value", Nowhere, {})
  BY <1>2, FieldsAre, WordIs DEF Does, p, At, V, ADo, AReg, AKind, AAt, AV, Access
<1> QED
  BY <1>2, <1>3, <1>4, <1>5, <1>6, <1>7, <1>8, <1>9, <1>10

\* What phy_write_c45 does.
LEMMA PhyWriteC45Is ==
  ASSUME TypeOK, got \cup Mask \in Values, Op = "phy_write_c45"
  PROVE  /\ Len(Program(call)) = 7
         /\ step = 1 => Does("wait", "phycmd", "value", Nowhere, {})
         /\ step = 2 => Does("write", "phydata", "value", At, {})
         /\ step = 3 => Does("write", "phycmd", "address", At, {})
         /\ step = 4 => Does("wait", "phycmd", "value", Nowhere, {})
         /\ step = 5 => Does("write", "phydata", "value", Nowhere, V)
         /\ step = 6 => Does("write", "phycmd", "write45", At, {})
         /\ step = 7 => Does("wait", "phycmd", "value", Nowhere, {})
         /\ Program(call) \in Seq(Accesses)
         /\ Program(call)[1] = Wait
<1> DEFINE p == Program(call)
<1>1. p = <<Wait, Put("phydata", Word("value", call.at, {})), Command("address", call.at), Wait>>
          \o <<Put("phydata", Value(call.v)), Command("write45", call.at), Wait>>
  BY DEF Op, Program, PhyWriteC45, AddressCycle
<1>2. /\ Len(p) = 7
      /\ p[1] = Wait
      /\ p[2] = Put("phydata", Word("value", call.at, {}))
      /\ p[3] = Command("address", call.at)
      /\ p[4] = Wait
      /\ p[5] = Put("phydata", Value(call.v))
      /\ p[6] = Command("write45", call.at)
      /\ p[7] = Wait
  <2> HIDE DEF p
  <2> QED
    BY <1>1, FourAndThree
<1>3. p \in Seq(Accesses)
  <2>1. Wait \in Accesses
    BY CallIs, AccessesAre, WordIs DEF Op, Kinds, Regs, Places
  <2>2. Put("phydata", Word("value", call.at, {})) \in Accesses
    BY CallIs, AccessesAre, WordIs DEF Op, Kinds, Regs, Places
  <2>3. Command("address", call.at) \in Accesses
    BY CallIs, AccessesAre, WordIs DEF Op, Kinds, Regs, Places
  <2>4. Put("phydata", Value(call.v)) \in Accesses
    BY CallIs, AccessesAre, WordIs DEF Op, Kinds, Regs, Places
  <2>5. Command("write45", call.at) \in Accesses
    BY CallIs, AccessesAre, WordIs DEF Op, Kinds, Regs, Places
  <2> HIDE DEF p
  <2> QED
    BY <1>1, <2>1, <2>2, <2>3, <2>4, <2>5
<1>4. step = 1 => Does("wait", "phycmd", "value", Nowhere, {})
  BY <1>2, FieldsAre, WordIs DEF Does, p, At, V, ADo, AReg, AKind, AAt, AV, Access
<1>5. step = 2 => Does("write", "phydata", "value", At, {})
  BY <1>2, FieldsAre, WordIs DEF Does, p, At, V, ADo, AReg, AKind, AAt, AV, Access
<1>6. step = 3 => Does("write", "phycmd", "address", At, {})
  BY <1>2, FieldsAre, WordIs DEF Does, p, At, V, ADo, AReg, AKind, AAt, AV, Access
<1>7. step = 4 => Does("wait", "phycmd", "value", Nowhere, {})
  BY <1>2, FieldsAre, WordIs DEF Does, p, At, V, ADo, AReg, AKind, AAt, AV, Access
<1>8. step = 5 => Does("write", "phydata", "value", Nowhere, V)
  BY <1>2, FieldsAre, WordIs DEF Does, p, At, V, ADo, AReg, AKind, AAt, AV, Access
<1>9. step = 6 => Does("write", "phycmd", "write45", At, {})
  BY <1>2, FieldsAre, WordIs DEF Does, p, At, V, ADo, AReg, AKind, AAt, AV, Access
<1>10. step = 7 => Does("wait", "phycmd", "value", Nowhere, {})
  BY <1>2, FieldsAre, WordIs DEF Does, p, At, V, ADo, AReg, AKind, AAt, AV, Access
<1> QED
  BY <1>2, <1>3, <1>4, <1>5, <1>6, <1>7, <1>8, <1>9, <1>10

\* What phy_modify does: a read, and a write of what it brought.
LEMMA ModifyIs ==
  ASSUME TypeOK, got \cup Mask \in Values, Op = "modify"
  PROVE  /\ Len(Program(call)) = 8
         /\ step = 1 => Does("wait", "phycmd", "value", Nowhere, {})
         /\ step = 2 => Does("write", "phycmd", "read", At, {})
         /\ step = 3 => Does("wait", "phycmd", "value", Nowhere, {})
         /\ step = 4 => Does("read", "phydata", "value", Nowhere, {})
         /\ step = 5 => Does("wait", "phycmd", "value", Nowhere, {})
         /\ step = 6 => Does("write", "phydata", "value", Nowhere, got \cup Mask)
         /\ step = 7 => Does("write", "phycmd", "write", At, {})
         /\ step = 8 => Does("wait", "phycmd", "value", Nowhere, {})
         /\ Program(call) \in Seq(Accesses)
         /\ Program(call)[1] = Wait
<1> DEFINE p == Program(call)
<1>1. p = <<Wait, Command("read", call.at), Wait, Get("phydata")>>
          \o <<Wait, Put("phydata", Value(got \cup Mask)), Command("write", call.at), Wait>>
  BY DEF Op, Program, Modify, PhyRead, PhyWrite
<1>2. /\ Len(p) = 8
      /\ p[1] = Wait
      /\ p[2] = Command("read", call.at)
      /\ p[3] = Wait
      /\ p[4] = Get("phydata")
      /\ p[5] = Wait
      /\ p[6] = Put("phydata", Value(got \cup Mask))
      /\ p[7] = Command("write", call.at)
      /\ p[8] = Wait
  <2> HIDE DEF p
  <2> QED
    BY <1>1, FourAndFour
<1>3. p \in Seq(Accesses)
  <2>1. Wait \in Accesses
    BY CallIs, AccessesAre, WordIs DEF Op, Kinds, Regs, Places
  <2>2. Command("read", call.at) \in Accesses
    BY CallIs, AccessesAre, WordIs DEF Op, Kinds, Regs, Places
  <2>3. Get("phydata") \in Accesses
    BY CallIs, AccessesAre, WordIs DEF Op, Kinds, Regs, Places
  <2>4. Put("phydata", Value(got \cup Mask)) \in Accesses
    BY CallIs, AccessesAre, WordIs DEF Op, Kinds, Regs, Places
  <2>5. Command("write", call.at) \in Accesses
    BY CallIs, AccessesAre, WordIs DEF Op, Kinds, Regs, Places
  <2> HIDE DEF p
  <2> QED
    BY <1>1, <2>1, <2>2, <2>3, <2>4, <2>5
<1>4. step = 1 => Does("wait", "phycmd", "value", Nowhere, {})
  BY <1>2, FieldsAre, WordIs DEF Does, p, At, V, ADo, AReg, AKind, AAt, AV, Access
<1>5. step = 2 => Does("write", "phycmd", "read", At, {})
  BY <1>2, FieldsAre, WordIs DEF Does, p, At, V, ADo, AReg, AKind, AAt, AV, Access
<1>6. step = 3 => Does("wait", "phycmd", "value", Nowhere, {})
  BY <1>2, FieldsAre, WordIs DEF Does, p, At, V, ADo, AReg, AKind, AAt, AV, Access
<1>7. step = 4 => Does("read", "phydata", "value", Nowhere, {})
  BY <1>2, FieldsAre, WordIs DEF Does, p, At, V, ADo, AReg, AKind, AAt, AV, Access
<1>8. step = 5 => Does("wait", "phycmd", "value", Nowhere, {})
  BY <1>2, FieldsAre, WordIs DEF Does, p, At, V, ADo, AReg, AKind, AAt, AV, Access
<1>9. step = 6 => Does("write", "phydata", "value", Nowhere, got \cup Mask)
  BY <1>2, FieldsAre, WordIs DEF Does, p, At, V, ADo, AReg, AKind, AAt, AV, Access
<1>10. step = 7 => Does("write", "phycmd", "write", At, {})
  BY <1>2, FieldsAre, WordIs DEF Does, p, At, V, ADo, AReg, AKind, AAt, AV, Access
<1>11. step = 8 => Does("wait", "phycmd", "value", Nowhere, {})
  BY <1>2, FieldsAre, WordIs DEF Does, p, At, V, ADo, AReg, AKind, AAt, AV, Access
<1> QED
  BY <1>2, <1>3, <1>4, <1>5, <1>6, <1>7, <1>8, <1>9, <1>10, <1>11

\* Where the call stands: at one of its accesses, whatever the operation.
LEMMA StepIs ==
  ASSUME TypeOK, step <= Length(Op)
  PROVE  /\ Op \in {"phy_read", "phy_write"} => step \in {1, 2, 3, 4}
         /\ Op \in {"phy_read_c45", "phy_write_c45"} => step \in {1, 2, 3, 4, 5, 6, 7}
         /\ Op = "modify" => step \in {1, 2, 3, 4, 5, 6, 7, 8}
         /\ Op = "scratch_read" => step \in {1, 2}
         /\ Op = "scratch_write" => step = 1
         /\ Op \in Ops
         /\ got \cup Mask \in Values
<1>1. step \in 1..9 /\ got \in Values
  BY DEF TypeOK
<1>2. Op \in Ops
  BY CallIs DEF Op
<1>3. got \cup Mask \in Values
  BY <1>1, SmiAssumption DEF Values
<1>4. ASSUME Op \in {"phy_read", "phy_write"} PROVE step \in {1, 2, 3, 4}
  BY <1>1, <1>4 DEF Length
<1>5. ASSUME Op \in {"phy_read_c45", "phy_write_c45"} PROVE step \in {1, 2, 3, 4, 5, 6, 7}
  BY <1>1, <1>5 DEF Length
<1>6. ASSUME Op = "modify" PROVE step \in {1, 2, 3, 4, 5, 6, 7, 8}
  BY <1>1, <1>6 DEF Length
<1>7. ASSUME Op = "scratch_read" PROVE step \in {1, 2}
  BY <1>1, <1>7 DEF Length
<1>8. ASSUME Op = "scratch_write" PROVE step = 1
  BY <1>1, <1>8 DEF Length
<1> QED
  BY <1>2, <1>3, <1>4, <1>5, <1>6, <1>7, <1>8

\* Whatever the operation: its program's length, its accesses, and whether it waits.
LEMMA ProgramIs ==
  ASSUME TypeOK, step <= Length(Op)
  PROVE  /\ Len(Program(call)) = Length(Op)
         /\ Access \in Accesses
         /\ Program(call)[1] = Wait <=> Op \notin ScratchOps
<1>1. Program(call) \in Seq(Accesses) /\ Len(Program(call)) = Length(Op)
  BY StepIs, PhyReadIs, PhyWriteIs, PhyReadC45Is, PhyWriteC45Is, ModifyIs, ScratchReadIs,
     ScratchWriteIs DEF Ops, Length
<1>2. step \in 1..Len(Program(call))
  BY <1>1 DEF TypeOK
<1>3. Access \in Accesses
  BY <1>1, <1>2 DEF Access
<1>4. \A w : Put("scratch", w) # Wait
  BY FieldsAre
<1>5. Program(call)[1] = Wait <=> Op \notin ScratchOps
  BY <1>4, StepIs, PhyReadIs, PhyWriteIs, PhyReadC45Is, PhyWriteC45Is, ModifyIs, ScratchReadIs,
     ScratchWriteIs DEF Ops, ScratchOps
<1> QED
  BY <1>1, <1>3, <1>5

\* A call's place suits its operation.
LEMMA PlacesAre ==
  ASSUME TypeOK
  PROVE  /\ Op \in {"phy_read", "phy_write", "modify"} => At \in Phys
         /\ Op \in {"phy_read_c45", "phy_write_c45"} => At \in Serdes
         /\ Op \in ScratchOps => At \in Indices
         /\ V \in Values
BY CallIs DEF Op, At, V, ScratchOps

-----------------------------------------------------------------------------
(* What the accesses of a program do to what holds of window and PHY.      *)

\* A store changes one of the two registers of the window, or the scratch space.
LEMMA StoreIs ==
  ASSUME UnitsOK, NEW r \in Regs, NEW w \in Words, Store(r, w)
  PROVE  /\ r = "phycmd" => /\ WBusy' /\ WKind' = w.kind /\ WName' = w.at
                            /\ WAt' = WAt /\ WV' = WV
         /\ r = "phydata" => /\ WBusy' = WBusy /\ WKind' = WKind /\ WName' = WName
                             /\ WAt' = w.at /\ WV' = w.v
         /\ r = "scratch" => /\ window' = window /\ pointer' = w.at
                             /\ scratch' = IF w.kind = "update" THEN [scratch EXCEPT ![w.at] = w.v]
                                           ELSE scratch
         /\ r # "scratch" => pointer' = pointer /\ scratch' = scratch
         /\ latch' = latch /\ phy' = phy
<1>1. CASE r = "phycmd"
  <2>1. window' = [window EXCEPT !.busy = TRUE, !.cmd = w]
    BY <1>1 DEF Store
  <2>2. WBusy' /\ window'.cmd = w /\ window'.data = window.data
    BY <2>1 DEF UnitsOK, WBusy
  <2> QED
    BY <1>1, <2>2 DEF Store, WKind, WName, WAt, WV
<1>2. CASE r = "phydata"
  <2>1. window' = [window EXCEPT !.data = w]
    BY <1>2 DEF Store
  <2>2. WBusy' = WBusy /\ window'.cmd = window.cmd /\ window'.data = w
    BY <2>1 DEF UnitsOK, WBusy
  <2> QED
    BY <1>2, <2>2 DEF Store, WKind, WName, WAt, WV
<1>3. CASE r = "scratch"
  BY <1>3 DEF Store
<1> QED
  BY <1>1, <1>2, <1>3 DEF Regs

\* Fields of a unit that is untouched.
LEMMA WindowSame ==
  ASSUME window' = window
  PROVE  WBusy' = WBusy /\ WKind' = WKind /\ WName' = WName /\ WAt' = WAt /\ WV' = WV
BY DEF WBusy, WKind, WName, WAt, WV

\* Storing what the program puts there takes the call from one access to the next.
LEMMA StoreHolds ==
  ASSUME TypeOK, UnitsOK, step <= Length(Op), ADo = "write", Held(step), Store(AReg, Access.word),
         call' = call, got' = got, NEW k, k = step + 1
  PROVE  Held(k)'
<1>1. /\ AReg = "phycmd" => /\ WBusy' /\ WKind' = AKind /\ WName' = AAt
                            /\ WAt' = WAt /\ WV' = WV
      /\ AReg = "phydata" => /\ WBusy' = WBusy /\ WKind' = WKind /\ WName' = WName
                             /\ WAt' = AAt /\ WV' = AV
      /\ AReg = "scratch" => /\ WBusy' = WBusy /\ WKind' = WKind /\ WName' = WName
                             /\ WAt' = WAt /\ WV' = WV
                             /\ pointer' = AAt
                             /\ scratch' = IF AKind = "update" THEN [scratch EXCEPT ![AAt] = AV]
                                           ELSE scratch
      /\ AReg # "scratch" => pointer' = pointer /\ scratch' = scratch
      /\ latch' = latch /\ phy' = phy
  <2>1. AReg \in Regs /\ Access.word \in Words
    BY ProgramIs DEF Accesses, AReg
  <2> QED
    BY <2>1, StoreIs, WindowSame DEF AKind, AAt, AV
<1>2. Op' = Op /\ At' = At /\ V' = V /\ got' = got
  BY DEF Op, At, V
<1>3. got \cup Mask \in Values /\ Op \in Ops
  BY StepIs
<1>4. CASE Op = "phy_read"
  <2>1. step = 2 /\ k = 3
    BY <1>3, <1>4, StepIs, PhyReadIs DEF Does
  <2>2. AReg = "phycmd" /\ AKind = "read" /\ AAt = At
    BY <1>3, <1>4, <2>1, PhyReadIs DEF Does
  <2> QED
    BY <1>1, <1>2, <1>4, <2>1, <2>2 DEF Held, Reading, WTo, Clause45
<1>5. CASE Op = "phy_write"
  <2>1. \/ step = 2 /\ k = 3 /\ AReg = "phydata" /\ AV = V
        \/ step = 3 /\ k = 4 /\ AReg = "phycmd" /\ AKind = "write" /\ AAt = At
    BY <1>3, <1>5, StepIs, PhyWriteIs DEF Does
  <2> QED
    BY <1>1, <1>2, <1>5, <2>1 DEF Held, Writing, WTo, Clause45, Free
<1>6. CASE Op = "phy_read_c45"
  <2>1. \/ step = 2 /\ k = 3 /\ AReg = "phydata" /\ AAt = At
        \/ step = 3 /\ k = 4 /\ AReg = "phycmd" /\ AKind = "address" /\ AAt = At
        \/ step = 5 /\ k = 6 /\ AReg = "phycmd" /\ AKind = "read45" /\ AAt = At
    BY <1>3, <1>6, StepIs, PhyReadC45Is DEF Does
  <2> QED
    BY <1>1, <1>2, <1>6, <2>1 DEF Held, HeldAddress, Addressing, Reading, WTo, Clause45, Free
<1>7. CASE Op = "phy_write_c45"
  <2>1. \/ step = 2 /\ k = 3 /\ AReg = "phydata" /\ AAt = At
        \/ step = 3 /\ k = 4 /\ AReg = "phycmd" /\ AKind = "address" /\ AAt = At
        \/ step = 5 /\ k = 6 /\ AReg = "phydata" /\ AV = V
        \/ step = 6 /\ k = 7 /\ AReg = "phycmd" /\ AKind = "write45" /\ AAt = At
    BY <1>3, <1>7, StepIs, PhyWriteC45Is DEF Does
  <2> QED
    BY <1>1, <1>2, <1>7, <2>1 DEF Held, HeldAddress, Addressing, Writing, WTo, Clause45, Free
<1>8. CASE Op = "modify"
  <2>1. \/ step = 2 /\ k = 3 /\ AReg = "phycmd" /\ AKind = "read" /\ AAt = At
        \/ step = 6 /\ k = 7 /\ AReg = "phydata" /\ AV = got \cup Mask
        \/ step = 7 /\ k = 8 /\ AReg = "phycmd" /\ AKind = "write" /\ AAt = At
    BY <1>3, <1>8, StepIs, ModifyIs DEF Does
  <2> QED
    BY <1>1, <1>2, <1>8, <2>1 DEF Held, Reading, Writing, WTo, Clause45, Free
<1>9. CASE Op = "scratch_read"
  <2>1. step = 1 /\ k = 2 /\ AReg = "scratch" /\ AAt = At
    BY <1>3, <1>9, StepIs, ScratchReadIs DEF Does
  <2> QED
    BY <1>1, <1>2, <1>9, <2>1 DEF Held
<1>10. CASE Op = "scratch_write"
  <2>1. step = 1 /\ k = 2 /\ AReg = "scratch" /\ AKind = "update" /\ AAt = At /\ AV = V
    BY <1>3, <1>10, StepIs, ScratchWriteIs DEF Does
  <2>2. scratch' = [scratch EXCEPT ![At] = V] /\ At \in Indices
    BY <1>1, <1>10, <2>1, PlacesAre DEF ScratchOps
  <2>3. scratch'[At] = V
    BY <2>2 DEF TypeOK
  <2> QED
    BY <1>2, <1>10, <2>1, <2>3 DEF Held
<1> QED
  BY <1>3, <1>4, <1>5, <1>6, <1>7, <1>8, <1>9, <1>10 DEF Ops

\* When the program stores, the window is not at work, and what is put fits.
LEMMA StoreFinds ==
  ASSUME TypeOK, step <= Length(Op), ADo = "write", Held(step)
  PROVE  /\ AReg # "scratch" => ~WBusy
         /\ AReg = "phycmd" /\ AKind = "address" => WAt \in Serdes
         /\ AReg = "phycmd" /\ AKind \in {"read", "write"} => AAt \in Phys
         /\ AReg = "scratch" => AAt \in Indices /\ Op \in ScratchOps
         /\ Op \in ScratchOps => AReg = "scratch"
         /\ step = 1 => Op \in ScratchOps
<1>1. got \cup Mask \in Values /\ Op \in Ops
  BY StepIs
<1>2. CASE Op \in ScratchOps
  <2>1. AReg = "scratch" /\ AAt = At
    BY <1>1, <1>2, StepIs, ScratchReadIs, ScratchWriteIs DEF Does, ScratchOps
  <2> QED
    BY <1>2, <2>1, PlacesAre
<1>3. CASE Op = "phy_read"
  BY <1>1, <1>3, StepIs, PhyReadIs, PlacesAre DEF Does, Held, Free, ScratchOps
<1>4. CASE Op = "phy_write"
  BY <1>1, <1>4, StepIs, PhyWriteIs, PlacesAre DEF Does, Held, Free, ScratchOps
<1>5. CASE Op = "phy_read_c45"
  BY <1>1, <1>5, StepIs, PhyReadC45Is, PlacesAre DEF Does, Held, HeldAddress, Free, ScratchOps
<1>6. CASE Op = "phy_write_c45"
  BY <1>1, <1>6, StepIs, PhyWriteC45Is, PlacesAre DEF Does, Held, HeldAddress, Free, ScratchOps
<1>7. CASE Op = "modify"
  BY <1>1, <1>7, StepIs, ModifyIs, PlacesAre DEF Does, Held, Free, ScratchOps
<1> QED
  BY <1>1, <1>2, <1>3, <1>4, <1>5, <1>6, <1>7 DEF Ops, ScratchOps

\* Only the window is waited for.
LEMMA WaitIs ==
  ASSUME TypeOK, step <= Length(Op), ADo = "wait"
  PROVE  AReg = "phycmd"
<1>1. ASSUME ADo = "wait", AReg # "phycmd" PROVE FALSE
  BY <1>1, StepIs, PhyReadIs, PhyWriteIs, PhyReadC45Is, PhyWriteC45Is, ModifyIs, ScratchReadIs,
     ScratchWriteIs DEF Does, Ops
<1> QED
  BY <1>1

\* A wait that finds the window free takes the call to the next access.
LEMMA WaitHolds ==
  ASSUME TypeOK, step <= Length(Op), ADo = "wait", Held(step), ~WBusy, NEW k, k = step + 1
  PROVE  Held(k)
<1>1. got \cup Mask \in Values /\ Op \in Ops
  BY StepIs
<1>2. CASE Op \in ScratchOps
  BY <1>1, <1>2, StepIs, ScratchReadIs, ScratchWriteIs DEF Does, ScratchOps
<1>3. CASE Op = "phy_read"
  <2>1. (step = 1 /\ k = 2) \/ (step = 3 /\ k = 4)
    BY <1>1, <1>3, StepIs, PhyReadIs DEF Does
  <2> QED
    BY <1>3, <2>1 DEF Held, Reading, Free
<1>4. CASE Op = "phy_write"
  <2>1. (step = 1 /\ k = 2) \/ (step = 4 /\ k = 5)
    BY <1>1, <1>4, StepIs, PhyWriteIs DEF Does
  <2> QED
    BY <1>4, <2>1 DEF Held, Writing, Free
<1>5. CASE Op = "phy_read_c45"
  <2>1. (step = 1 /\ k = 2) \/ (step = 4 /\ k = 5) \/ (step = 6 /\ k = 7)
    BY <1>1, <1>5, StepIs, PhyReadC45Is DEF Does
  <2> QED
    BY <1>5, <2>1 DEF Held, HeldAddress, Addressing, Reading, Free
<1>6. CASE Op = "phy_write_c45"
  <2>1. (step = 1 /\ k = 2) \/ (step = 4 /\ k = 5) \/ (step = 7 /\ k = 8)
    BY <1>1, <1>6, StepIs, PhyWriteC45Is DEF Does
  <2> QED
    BY <1>6, <2>1 DEF Held, HeldAddress, Addressing, Writing, Free
<1>7. CASE Op = "modify"
  <2>1. (step = 1 /\ k = 2) \/ (step = 3 /\ k = 4) \/ (step = 5 /\ k = 6) \/ (step = 8 /\ k = 9)
    BY <1>1, <1>7, StepIs, ModifyIs DEF Does
  <2> QED
    BY <1>7, <2>1 DEF Held, Reading, Writing, Free
<1> QED
  BY <1>1, <1>2, <1>3, <1>4, <1>5, <1>6, <1>7 DEF Ops, ScratchOps

\* So does a read that brings what is in its register.
LEMMA ReadHolds ==
  ASSUME TypeOK, step <= Length(Op), ADo = "read", Held(step), UNCHANGED <<call, chip>>,
         AReg = "phydata" => got' = WV,
         AReg = "scratch" => got' = scratch[pointer],
         NEW k, k = step + 1
  PROVE  Held(k)'
<1>1. got \cup Mask \in Values /\ Op \in Ops
  BY StepIs
<1>2. /\ Op' = Op /\ At' = At /\ V' = V /\ phy' = phy /\ latch' = latch /\ scratch' = scratch
      /\ pointer' = pointer /\ WBusy' = WBusy /\ WKind' = WKind /\ WName' = WName
      /\ WAt' = WAt /\ WV' = WV
  BY WindowSame DEF Op, At, V, chip
<1>3. CASE Op = "phy_read"
  <2>1. step = 4 /\ k = 5 /\ AReg = "phydata"
    BY <1>1, <1>3, StepIs, PhyReadIs DEF Does
  <2> QED
    BY <1>2, <1>3, <2>1 DEF Held, Free
<1>4. Op # "phy_write" /\ Op # "phy_write_c45" /\ Op # "scratch_write"
  BY <1>1, StepIs, PhyWriteIs, PhyWriteC45Is, ScratchWriteIs DEF Does
<1>5. CASE Op = "phy_read_c45"
  <2>1. step = 7 /\ k = 8 /\ AReg = "phydata"
    BY <1>1, <1>5, StepIs, PhyReadC45Is DEF Does
  <2> QED
    BY <1>2, <1>5, <2>1 DEF Held, HeldAddress, Free
<1>6. CASE Op = "modify"
  <2>1. step = 4 /\ k = 5 /\ AReg = "phydata"
    BY <1>1, <1>6, StepIs, ModifyIs DEF Does
  <2> QED
    BY <1>2, <1>6, <2>1 DEF Held, Free
<1>7. CASE Op = "scratch_read"
  <2>1. step = 2 /\ k = 3 /\ AReg = "scratch"
    BY <1>1, <1>7, StepIs, ScratchReadIs DEF Does
  <2> QED
    BY <1>2, <1>7, <2>1 DEF Held
<1> QED
  BY <1>1, <1>3, <1>4, <1>5, <1>6, <1>7 DEF Ops

\* Data are read from a window that is not at work.
LEMMA ReadFinds ==
  ASSUME TypeOK, step <= Length(Op), ADo # "write", AReg = "phydata", Held(step)
  PROVE  ~WBusy
<1>1. got \cup Mask \in Values /\ Op \in Ops
  BY StepIs
<1>2. CASE Op = "phy_read"
  BY <1>1, <1>2, StepIs, PhyReadIs DEF Does, Held, Free
<1>3. CASE Op = "phy_read_c45"
  BY <1>1, <1>3, StepIs, PhyReadC45Is DEF Does, Held, Free
<1>4. CASE Op = "modify"
  BY <1>1, <1>4, StepIs, ModifyIs DEF Does, Held, Free
<1>5. Op \notin {"phy_write", "phy_write_c45", "scratch_read", "scratch_write"}
  BY <1>1, StepIs, PhyWriteIs, PhyWriteC45Is, ScratchReadIs, ScratchWriteIs DEF Does
<1> QED
  BY <1>1, <1>2, <1>3, <1>4, <1>5 DEF Ops

\* The window's own work leaves the call where it stands.
LEMMA WindowIs ==
  ASSUME TypeOK, UnitsOK, WindowRuns
  PROVE  /\ WBusy /\ ~WBusy'
         /\ phy' = IF WKind \in Storing THEN [phy EXCEPT ![WTo] = WV] ELSE phy
         /\ latch' = IF WKind = "address" THEN WAt ELSE latch
         /\ WV' = IF WKind \in {"read", "read45"} THEN phy[WTo] ELSE {}
         /\ left' = IF WKind \in Storing THEN {} ELSE left
         /\ UNCHANGED <<multi, smi, scratch, pointer, call, status, step, frame, tries, waits, got>>
<1>1. WBusy /\ window' = [busy |-> FALSE, cmd |-> Value({}),
         data |-> Value(IF WKind \in {"read", "read45"} THEN phy[WTo] ELSE {})]
  BY DEF WindowRuns, WBusy, WKind, WTo, WName, Clause45
<1>2. window'.busy = FALSE
         /\ window'.data = Value(IF WKind \in {"read", "read45"} THEN phy[WTo] ELSE {})
  BY <1>1
<1>3. ~WBusy' /\ WV' = IF WKind \in {"read", "read45"} THEN phy[WTo] ELSE {}
  BY <1>2, WordIs DEF WBusy, WV
<1> QED
  BY <1>1, <1>3 DEF WindowRuns, WKind, WTo, WName, WAt, WV, Clause45, Storing

\* At one access, or after the last of them.
LEMMA HeldStays ==
  ASSUME TypeOK, UnitsOK, WindowRuns, NEW k, Held(k)
  PROVE  Held(k)'
<1>1. /\ WBusy /\ ~WBusy'
      /\ latch' = IF WKind = "address" THEN WAt ELSE latch
      /\ WV' = IF WKind \in {"read", "read45"} THEN phy[WTo] ELSE {}
      /\ Op' = Op /\ At' = At /\ V' = V /\ got' = got /\ scratch' = scratch /\ pointer' = pointer
  BY WindowIs DEF Op, At, V
<1>2. WKind \notin Storing => phy' = phy
  BY WindowIs
<1>3. At \in Places /\ WTo = At /\ WKind \in Storing => phy'[At] = WV
  BY WindowIs DEF TypeOK
<1>4. Op \notin ScratchOps => At \in Places
  BY CallIs DEF Op, At, Ops, ScratchOps, Places
<1>5. CASE Op = "phy_read"
  BY <1>1, <1>2, <1>5 DEF Held, Free, Reading, Storing
<1>6. CASE Op = "phy_write"
  BY <1>1, <1>3, <1>4, <1>6 DEF Held, Free, Writing, Storing, ScratchOps
<1>7. CASE Op = "phy_read_c45"
  BY <1>1, <1>2, <1>7 DEF Held, HeldAddress, Addressing, Free, Reading, Storing
<1>8. CASE Op = "phy_write_c45"
  BY <1>1, <1>2, <1>3, <1>4, <1>8 DEF Held, HeldAddress, Addressing, Free, Writing, Storing, ScratchOps
<1>9. CASE Op = "modify"
  BY <1>1, <1>2, <1>3, <1>4, <1>9 DEF Held, Free, Reading, Writing, Storing, ScratchOps
<1>10. CASE Op \in ScratchOps
  BY <1>1, <1>10 DEF Held, ScratchOps
<1> QED
  BY <1>5, <1>6, <1>7, <1>8, <1>9, <1>10, CallIs DEF Op, Ops, ScratchOps

-----------------------------------------------------------------------------
(* Every step keeps the invariant.                                         *)

ChipOK == /\ phy \in [Places -> Values] /\ scratch \in [Indices -> Values]
          /\ pointer \in Indices /\ latch \in Serdes

\* Fields of a unit that is untouched.
LEMMA SmiSame ==
  ASSUME smi' = smi
  PROVE  SBusy' = SBusy /\ SDo' = SDo /\ SReg' = SReg /\ SKind' = SKind /\ SAt' = SAt /\ SV' = SV
BY DEF SBusy, SDo, SReg, SKind, SAt, SV

\* With the units untouched, what is said of them stays so.
LEMMA ChipSame ==
  ASSUME UNCHANGED <<multi, chip>>, ChipOK, UnitsOK, StoresFit
  PROVE  /\ ChipOK' /\ UnitsOK' /\ StoresFit'
         /\ WBusy' = WBusy /\ WKind' = WKind /\ WName' = WName /\ WTo' = WTo /\ WAt' = WAt /\ WV' = WV
         /\ SBusy' = SBusy /\ SDo' = SDo /\ SReg' = SReg /\ SKind' = SKind /\ STo' = STo
         /\ SV' = SV
<1>1. /\ UNCHANGED <<multi, smi, window, latch, phy, scratch, pointer>>
      /\ WBusy' = WBusy /\ WKind' = WKind /\ WName' = WName /\ WAt' = WAt /\ WV' = WV
      /\ SBusy' = SBusy /\ SDo' = SDo /\ SReg' = SReg /\ SKind' = SKind /\ SAt' = SAt /\ SV' = SV
  BY SmiSame, WindowSame DEF chip
<1>2. ChipOK'
  BY <1>1 DEF ChipOK
<1>3. UnitsOK'
  BY <1>1 DEF UnitsOK
<1>4. StoresFit'
  BY <1>1 DEF StoresFit
<1>5. WTo' = WTo /\ STo' = STo
  BY <1>1 DEF WTo, STo
<1> QED
  BY <1>1, <1>2, <1>3, <1>4, <1>5

\* Past the first frame of a call, the SMI unit works for nobody else.
LEMMA SmiIsOurs ==
  ASSUME SmiInv, status = "busy", SBusy, step # 1 \/ frame # 1
  PROVE  /\ multi /\ Here = step /\ frame \in {3, 4} /\ SDo = ADo /\ SReg = AReg
         /\ IF ADo = "write" THEN frame = 4 /\ smi.data = Access.word ELSE frame = 3
<1>1. /\ multi /\ frame \in 1..4 /\ SBusy \in BOOLEAN
      /\ SDo = "write" => smi.data = smi.cmd.word
  BY DEF SmiInv, TypeOK, UnitsOK, StoresFit, SBusy
<1>2. /\ frame \in {3, 4} /\ smi.cmd = Access
      /\ IF ADo = "write" THEN frame = 4 ELSE frame = 3
  BY <1>1 DEF SmiInv, FrameKnown
<1>3. SDo = ADo /\ SReg = AReg /\ smi.cmd.word = Access.word
  BY <1>2 DEF SDo, ADo, SReg, AReg
<1>4. Here = step
  BY DEF Here, Stored
<1> QED
  BY <1>1, <1>2, <1>3, <1>4

\* What a call has in hand once it is past its first wait is its own write.
LEMMA InHandIsAsked ==
  ASSUME SmiInv, status = "busy", ~Before
  PROVE  InHand(IF Op \in Writes THEN {Asks} ELSE {})
<1>1. TypeOK /\ step <= Length(Op) /\ Held(Here) /\ step # 1 /\ Op \notin ScratchOps
  BY DEF SmiInv, FrameKnown, CallOnCourse, Before
<1>2. Asks = <<At, IF Op = "modify" THEN got \cup Mask ELSE V>>
  BY DEF Asks, Op, At, V
<1>3. got \cup Mask \in Values /\ Op \in Ops
  BY <1>1, StepIs
<1>4. /\ Op \in {"phy_read", "phy_write"} => Here \in {2, 3, 4, 5}
      /\ Op \in {"phy_read_c45", "phy_write_c45"} => Here \in {2, 3, 4, 5, 6, 7, 8}
      /\ Op = "modify" => Here \in {2, 3, 4, 5, 6, 7, 8, 9}
  BY <1>1, StepIs DEF Here
<1>5. ASSUME WBusy, WKind \in Storing
      PROVE  Op \in Writes /\ <<WTo, WV>> = Asks
  <2>1. CASE Op = "phy_read"
    BY <1>1, <1>4, <1>5, <2>1 DEF Held, Free, Reading, Storing
  <2>2. CASE Op = "phy_write"
    <3>1. WTo = At /\ WV = V
      BY <1>1, <1>4, <1>5, <2>2 DEF Held, Free, Writing
    <3> QED
      BY <1>2, <2>2, <3>1 DEF Writes
  <2>3. CASE Op = "phy_read_c45"
    BY <1>1, <1>4, <1>5, <2>3 DEF Held, HeldAddress, Addressing, Free, Reading, Storing
  <2>4. CASE Op = "phy_write_c45"
    <3>1. WTo = At /\ WV = V
      BY <1>1, <1>4, <1>5, <2>4 DEF Held, HeldAddress, Addressing, Free, Writing, Storing
    <3> QED
      BY <1>2, <2>4, <3>1 DEF Writes
  <2>5. CASE Op = "modify"
    <3>1. WTo = At /\ WV = got \cup Mask
      BY <1>1, <1>4, <1>5, <2>5 DEF Held, Free, Reading, Writing, Storing
    <3> QED
      BY <1>2, <2>5, <3>1 DEF Writes
  <2> QED
    BY <1>1, <1>3, <2>1, <2>2, <2>3, <2>4, <2>5 DEF Ops, ScratchOps
<1>6. ASSUME SBusy, SDo = "write", SReg = "phycmd", SKind \in Storing
      PROVE  Op \in Writes /\ <<STo, WV>> = Asks
  <2>1. Held(step) /\ ADo = "write" /\ AReg = "phycmd" /\ smi.data = Access.word
    BY <1>1, <1>6, SmiIsOurs
  <2>2. SKind = AKind /\ SAt = AAt
    BY <2>1 DEF SKind, SAt, AKind, AAt
  <2>3. CASE Op = "phy_read"
    BY <1>1, <1>3, <1>6, <2>1, <2>2, <2>3, StepIs, PhyReadIs DEF Does, Storing
  <2>4. CASE Op = "phy_write"
    <3>1. step = 3 /\ AKind = "write" /\ AAt = At
      BY <1>1, <1>3, <2>1, <2>4, StepIs, PhyWriteIs DEF Does
    <3>2. STo = At /\ WV = V
      BY <2>1, <2>2, <2>4, <3>1 DEF Held, STo, Clause45
    <3> QED
      BY <1>2, <2>4, <3>2 DEF Writes
  <2>5. CASE Op = "phy_read_c45"
    BY <1>1, <1>3, <1>6, <2>1, <2>2, <2>5, StepIs, PhyReadC45Is DEF Does, Storing
  <2>6. CASE Op = "phy_write_c45"
    <3>1. step = 6 /\ AKind = "write45"
      BY <1>1, <1>3, <1>6, <2>1, <2>2, <2>6, StepIs, PhyWriteC45Is DEF Does, Storing
    <3>2. STo = At /\ WV = V
      BY <2>1, <2>2, <2>6, <3>1 DEF Held, HeldAddress, STo, Clause45
    <3> QED
      BY <1>2, <2>6, <3>2 DEF Writes
  <2>7. CASE Op = "modify"
    <3>1. step = 7 /\ AKind = "write" /\ AAt = At
      BY <1>1, <1>3, <1>6, <2>1, <2>2, <2>7, StepIs, ModifyIs DEF Does, Storing
    <3>2. STo = At /\ WV = got \cup Mask
      BY <2>1, <2>2, <2>7, <3>1 DEF Held, STo, Clause45
    <3> QED
      BY <1>2, <2>7, <3>2 DEF Writes
  <2> QED
    BY <1>1, <1>3, <2>3, <2>4, <2>5, <2>6, <2>7 DEF Ops, ScratchOps
<1> QED
  BY <1>5, <1>6 DEF InHand

\* The call's own constants, and what its program is made of, change with none
\* of its frames.
LEMMA CallSame ==
  ASSUME call' = call
  PROVE  Op' = Op /\ At' = At /\ V' = V
BY DEF Op, At, V

\* Where the call stands depends on the window and the PHY, not on the SMI unit.
LEMMA HeldAsWindow ==
  ASSUME UNCHANGED <<window, latch, phy, scratch, pointer, call, got>>, NEW k, Held(k)
  PROVE  Held(k)'
<1>1. /\ Op' = Op /\ At' = At /\ V' = V /\ got' = got /\ phy' = phy /\ latch' = latch
      /\ scratch' = scratch /\ pointer' = pointer
      /\ WBusy' = WBusy /\ WKind' = WKind /\ WTo' = WTo /\ WAt' = WAt /\ WV' = WV
  BY WindowSame, CallSame DEF WTo
<1>2. HeldAddress(k)' <=> HeldAddress(k)
  BY <1>1 DEF HeldAddress, Free, Addressing
<1> QED
  BY <1>1, <1>2 DEF Held, Free, Reading, Writing

\* With all of them untouched it stays.
LEMMA HeldSame ==
  ASSUME UNCHANGED <<chip, call, got>>, NEW k, Held(k)
  PROVE  Held(k)'
BY HeldAsWindow DEF chip

\* A call that fails leaves to the units what it may leave to them.
LEMMA Failing ==
  ASSUME SmiInv, status = "busy", Ends("failed", {}), UNCHANGED <<multi, call, chip>>
  PROVE  SmiInv'
<1>1. TypeOK /\ step <= Length(Op) /\ UnitsOK /\ StoresFit /\ ChipOK
  BY DEF SmiInv, FrameKnown, TypeOK, ChipOK
<1>2. /\ status' = "failed" /\ got' = {} /\ step' = 1 /\ frame' = 1 /\ tries' = 0 /\ waits' = 0
      /\ left' = IF Op \notin ScratchOps THEN Leaves ELSE left
  BY <1>1, ProgramIs DEF Ends
<1>3. Op' = Op /\ Op \in Ops
  BY <1>1, StepIs, CallSame
<1>4. Before => left' = left
  BY <1>2 DEF Before, Leaves
<1>5. ~Before => left' = IF Op \in Writes THEN {Asks} ELSE {}
  BY <1>2 DEF Before, Leaves, Op
<1>6. Op \in Writes => Asks \in Places \X Values
  BY <1>1, StepIs, PlacesAre DEF Asks, Writes, Op, At, V, Places
<1>7. TypeOK'
  <2>1. left' \subseteq Places \X Values
    BY <1>1, <1>4, <1>5, <1>6 DEF TypeOK
  <2> QED
    BY <1>1, <1>2, <2>1, WordIs, SmiAssumption DEF TypeOK, chip
<1>8. UnitsOK' /\ StoresFit'
  BY <1>1, ChipSame
<1>9. InHand(left)'
  <2>1. InHand(left')
    BY <1>4, <1>5, InHandIsAsked DEF SmiInv, LeftIsKnown
  <2> QED
    BY <1>1, <2>1, ChipSame DEF InHand
<1>10. 1 <= Length(Op)
  BY <1>1 DEF TypeOK, Length
<1>11. FrameKnown'
  BY <1>2, <1>3, <1>10 DEF FrameKnown
<1> QED
  BY <1>2, <1>7, <1>8, <1>9, <1>11 DEF SmiInv, LeftIsKnown, CallOnCourse

\* What a read hands to its caller.
LEMMA GotIs ==
  ASSUME TypeOK, step <= Length(Op), NEW answer, AccessDone(answer),
         ~(ADo = "wait" /\ answer.kind = "busy")
  PROVE  got' = IF ADo = "read" THEN answer.v ELSE got
<1>1. \/ Goes(step + 1, 1, 0, 0, IF ADo = "read" THEN answer.v ELSE got)
      \/ Ends("ok", IF ADo = "read" THEN answer.v ELSE got)
  BY DEF AccessDone, ADo
<1> QED
  BY <1>1 DEF Goes, Ends

\* An access that is done takes the call to the next one, to another try of the
\* same one, or to its end.
LEMMA Arriving ==
  ASSUME SmiInv, status = "busy", NEW answer, AccessDone(answer), UNCHANGED <<multi, call>>,
         ChipOK', UnitsOK', StoresFit', ~SBusy',
         ADo = "wait" /\ answer.kind = "busy" => UNCHANGED chip /\ Held(step),
         ADo = "read" => answer.v \in Values,
         Op \in ScratchOps => UNCHANGED <<window, latch>>,
         NEW k, k = step + 1,
         ~(ADo = "wait" /\ answer.kind = "busy") => Held(k)'
  PROVE  SmiInv'
<1>1. TypeOK /\ step <= Length(Op) /\ UnitsOK /\ StoresFit /\ ChipOK
  BY DEF SmiInv, FrameKnown, TypeOK, ChipOK
<1>2. Op' = Op /\ Op \in Ops
  BY <1>1, StepIs, CallSame
<1>3. Len(Program(call)) = Length(Op) /\ (Program(call)[1] = Wait <=> Op \notin ScratchOps)
  BY <1>1, ProgramIs
<1>4. CASE Ends("failed", {}) /\ ADo = "wait" /\ answer.kind = "busy"
  BY <1>4, Failing
<1>5. CASE Goes(step, 1, 0, waits + 1, got) /\ waits + 1 < Tries /\ ADo = "wait" /\ answer.kind = "busy"
  <2>1. UNCHANGED <<multi, chip, call, got, status, left, step>> /\ frame' = 1 /\ tries' = 0
        /\ waits' = waits + 1 /\ Held(step)
    BY <1>5 DEF Goes
  <2>2. TypeOK'
    BY <1>1, <1>5, <2>1, SmiAssumption DEF TypeOK, chip
  <2>3. LeftIsKnown'
    BY <1>1, <1>2, <2>1, ChipSame DEF SmiInv, LeftIsKnown, Before, InHand
  <2>4. FrameKnown'
    BY <1>1, <1>2, <2>1 DEF FrameKnown
  <2>5. Held(step)'
    <3>1. \A i : Held(i) => Held(i)'
      BY <1>1, <2>1, HeldSame
    <3>2. PICK i : i = step
      OBVIOUS
    <3>3. Held(i)'
      BY <2>1, <3>1, <3>2
    <3> QED
      BY <2>1, <3>2, <3>3
  <2>6. CallOnCourse'
    BY <2>1, <2>5 DEF CallOnCourse, Here, Stored
  <2> QED
    BY <2>2, <2>3, <2>4, <2>6 DEF SmiInv
<1>6. CASE ~(ADo = "wait" /\ answer.kind = "busy")
  <2> DEFINE value == IF ADo = "read" THEN answer.v ELSE got
  <2>1. IF step < Length(Op) THEN Goes(step + 1, 1, 0, 0, value) ELSE Ends("ok", value)
    BY <1>3, <1>6 DEF AccessDone, ADo
  <2>2. value \in Values
    BY <1>1 DEF TypeOK
  <2>3. CASE step < Length(Op)
    <3>1. /\ status' = "busy" /\ left' = left /\ step' = k /\ frame' = 1 /\ tries' = 0 /\ waits' = 0
          /\ got' = value
      BY <2>1, <2>3 DEF Goes
    <3>2. k \in 2..9 /\ k <= Length(Op)
      BY <1>1, <2>3 DEF TypeOK, Length
    <3>3. TypeOK'
      BY <1>1, <2>2, <3>1, <3>2, SmiAssumption DEF TypeOK, ChipOK, UnitsOK
    <3>4. LeftIsKnown'
      <4>1. SUFFICES ASSUME Op \in ScratchOps PROVE InHand(left)'
        BY <1>2, <3>1, <3>2 DEF LeftIsKnown, Before
      <4>2. InHand(left)
        BY <4>1 DEF SmiInv, LeftIsKnown, Before
      <4>3. WTo' = WTo /\ WKind' = WKind /\ WV' = WV /\ WBusy' = WBusy
        BY <4>1, WindowSame DEF WTo
      <4> QED
        BY <3>1, <4>2, <4>3 DEF InHand
    <3>5. FrameKnown'
      BY <1>2, <3>1, <3>2 DEF FrameKnown
    <3>6. CallOnCourse'
      BY <1>6, <3>1 DEF CallOnCourse, Here, Stored
    <3> QED
      BY <3>3, <3>4, <3>5, <3>6 DEF SmiInv
  <2>4. CASE ~(step < Length(Op))
    <3>1. /\ status' = "ok" /\ step' = 1 /\ frame' = 1 /\ tries' = 0 /\ waits' = 0
          /\ got' = value /\ left' = IF Op \in ScratchOps THEN left ELSE {}
      BY <1>3, <2>1, <2>4 DEF Ends
    <3>2. k = Length(Op) + 1 /\ 1 <= Length(Op)
      BY <1>1, <2>4 DEF TypeOK, Length
    <3>3. TypeOK'
      <4>1. left' \subseteq Places \X Values
        BY <1>1, <3>1 DEF TypeOK
      <4> QED
        BY <1>1, <2>2, <3>1, <4>1, SmiAssumption DEF TypeOK, ChipOK, UnitsOK
    <3>4. LeftIsKnown'
      <4>1. CASE Op \in ScratchOps
        <5>1. InHand(left)
          BY <4>1 DEF SmiInv, LeftIsKnown, Before
        <5>2. WTo' = WTo /\ WKind' = WKind /\ WV' = WV /\ WBusy' = WBusy
          BY <4>1, WindowSame DEF WTo
        <5> QED
          BY <3>1, <4>1, <5>1, <5>2 DEF InHand, LeftIsKnown
      <4>2. CASE Op \notin ScratchOps
        <5>1. ~WBusy'
          BY <1>2, <1>6, <3>2, <4>2 DEF Held, HeldAddress, Free, Length, Ops, ScratchOps
        <5> QED
          BY <5>1 DEF InHand, LeftIsKnown
      <4> QED
        BY <4>1, <4>2
    <3>5. FrameKnown'
      BY <1>2, <3>1, <3>2 DEF FrameKnown
    <3>6. CallOnCourse'
      BY <1>2, <1>6, <3>1, <3>2 DEF CallOnCourse
    <3> QED
      BY <3>3, <3>4, <3>5, <3>6 DEF SmiInv
  <2> QED
    BY <2>3, <2>4
<1> QED
  BY <1>4, <1>5, <1>6 DEF AccessDone, ADo

\* A frame that stays within its access, and changes none of the units but SMI.
LEMMA Staying ==
  ASSUME SmiInv, status = "busy", multi, NEW f \in 1..4, NEW t \in 0..Tries - 1,
         Goes(step, f, t, waits, got), UNCHANGED <<multi, call, window, latch, phy, scratch, pointer>>,
         UnitsOK', StoresFit', FrameKnown', CallOnCourse',
         Before => InHand(left)'
  PROVE  SmiInv'
<1>1. /\ UNCHANGED <<multi, call, window, latch, phy, scratch, pointer, got, status, left, step, waits>>
      /\ frame' = f /\ tries' = t
  BY DEF Goes
<1>2. Op' = Op /\ Before' = Before
  BY <1>1, CallSame DEF Before
<1>3. TypeOK'
  <2>1. smi'.busy \in BOOLEAN
    BY DEF UnitsOK
  <2> QED
    BY <1>1, <2>1 DEF SmiInv, TypeOK
<1> QED
  BY <1>2, <1>3 DEF SmiInv, LeftIsKnown

\* One action of the specification after the other, from here on. Waiting for the SMI unit.
LEMMA PollHolds ==
  ASSUME SmiInv, status = "busy", multi, Poll, UNCHANGED <<multi, call>>
  PROVE  SmiInv'
<1>1. TypeOK /\ step <= Length(Op) /\ UnitsOK /\ StoresFit /\ ChipOK /\ FrameKnown /\ Held(Here)
  BY DEF SmiInv, FrameKnown, TypeOK, ChipOK, CallOnCourse
<1>2. UNCHANGED chip /\ frame \in (IF ADo = "write" THEN {1, 4} ELSE {1, 3})
  BY DEF Poll, ADo
<1>3. UNCHANGED <<smi, window, latch, phy, scratch, pointer>> /\ ChipOK' /\ UnitsOK' /\ StoresFit'
  BY <1>1, <1>2, ChipSame DEF chip
<1>4. Op' = Op /\ SBusy' = SBusy /\ WBusy' = WBusy
  BY <1>1, <1>2, ChipSame, CallSame
<1>5. ASSUME InHand(left), left' = left PROVE InHand(left)'
  BY <1>1, <1>2, <1>5, ChipSame DEF InHand
<1>6. CASE ~SBusy /\ frame = 4
  <2>1. ADo = "write" /\ AccessDone(Value({})) /\ Here = step + 1
    BY <1>2, <1>6 DEF Poll, SBusy, Here, Stored
  <2>2. got' = got
    BY <1>1, <2>1, ProgramIs DEF AccessDone, Goes, Ends, ADo
  <2>3. PICK k : k = step + 1
    OBVIOUS
  <2>4. Held(k)'
    <3>1. Held(k)
      BY <1>1, <2>1, <2>3
    <3> QED
      BY <1>1, <1>2, <2>2, <3>1, HeldSame
  <2> QED
    BY <1>3, <1>4, <1>6, <2>1, <2>3, <2>4, Arriving
<1>7. CASE ~SBusy /\ frame # 4
  <2>1. Goes(step, frame + 1, 0, waits, got) /\ frame + 1 \in 1..4 /\ frame \in {1, 3}
    BY <1>1, <1>2, <1>7 DEF Poll, SBusy, TypeOK
  <2>2. /\ UNCHANGED <<status, step, got, left>> /\ frame' = frame + 1
    BY <2>1 DEF Goes
  <2>3. Access' = Access /\ ADo' = ADo /\ AReg' = AReg
    BY <2>2 DEF Access, Program, Modify, ADo, AReg
  <2>4. FrameKnown'
    <3>1. CASE frame = 1
      BY <1>1, <1>4, <1>7, <2>2, <3>1 DEF FrameKnown
    <3>2. CASE frame = 3
      <4>1. ADo # "write" /\ Truthful
        BY <1>1, <1>2, <1>7, <3>2 DEF FrameKnown
      <4>2. Truthful'
        BY <1>1, <1>2, <1>3, <2>3, <4>1, ChipSame DEF Truthful
      <4> QED
        BY <1>1, <1>4, <1>7, <2>2, <2>3, <3>2, <4>1, <4>2 DEF FrameKnown
    <3> QED
      BY <2>1, <3>1, <3>2
  <2>5. Here = step /\ Here' = step
    <3>1. frame = 3 => ADo # "write"
      BY <1>2
    <3> QED
      BY <2>1, <2>2, <2>3, <3>1 DEF Here, Stored
  <2>6. CallOnCourse'
    <3>1. PICK k : k = step
      OBVIOUS
    <3>2. Held(k)'
      BY <1>1, <1>2, <2>2, <2>5, <3>1, HeldSame
    <3> QED
      BY <2>2, <2>5, <3>1, <3>2 DEF CallOnCourse
  <2>7. Before => InHand(left)'
    BY <1>5, <2>2 DEF SmiInv, LeftIsKnown
  <2>8. 0 \in 0..Tries - 1
    BY SmiAssumption
  <2> QED
    BY <1>3, <2>1, <2>4, <2>6, <2>7, <2>8, Staying
<1>8. CASE SBusy
  <2>1. CASE Ends("failed", {})
    BY <1>2, <2>1, Failing
  <2>2. CASE tries + 1 < Tries /\ Goes(step, frame, tries + 1, waits, got)
    <3>1. UNCHANGED <<status, step, got, left, frame>> /\ tries + 1 \in 0..Tries - 1 /\ frame \in 1..4
      BY <1>1, <2>2, SmiAssumption DEF Goes, TypeOK
    <3>2. Access' = Access /\ ADo' = ADo
      BY <3>1 DEF Access, Program, Modify, ADo
    <3>3. FrameKnown'
      BY <1>1, <1>3, <1>4, <1>8, <3>1, <3>2 DEF FrameKnown
    <3>4. Here = step /\ Here' = step
      BY <1>4, <1>8, <3>1 DEF Here, Stored
    <3>5. CallOnCourse'
      <4>1. PICK k : k = step
        OBVIOUS
      <4>2. Held(k)'
        BY <1>1, <1>2, <3>1, <3>4, <4>1, HeldSame
      <4> QED
        BY <3>1, <3>4, <4>1, <4>2 DEF CallOnCourse
    <3>6. Before => InHand(left)'
      BY <1>5, <3>1 DEF SmiInv, LeftIsKnown
    <3> QED
      BY <1>3, <2>2, <3>1, <3>3, <3>5, <3>6, Staying
  <2> QED
    BY <1>8, <2>1, <2>2 DEF Poll, SBusy
<1> QED
  BY <1>6, <1>7, <1>8

\* The data of an access go to the SMI unit.
LEMMA PutDataHolds ==
  ASSUME SmiInv, status = "busy", multi, PutData, UNCHANGED <<multi, call>>
  PROVE  SmiInv'
<1>1. TypeOK /\ step <= Length(Op) /\ UnitsOK /\ StoresFit /\ FrameKnown /\ Held(Here)
  BY DEF SmiInv, FrameKnown, CallOnCourse
<1>2. ADo = "write" /\ frame = 2 /\ smi' = [smi EXCEPT !.data = Access.word]
      /\ Goes(step, 3, 0, waits, got) /\ UNCHANGED <<window, latch, phy, scratch, pointer>>
  BY DEF PutData, ADo
<1>3. ~SBusy
  BY <1>1, <1>2 DEF FrameKnown
<1>4. Access.word \in Words
  BY <1>1, ProgramIs DEF Accesses
<1>5. UnitsOK' /\ smi'.busy = smi.busy /\ smi'.data = Access.word
  BY <1>1, <1>2, <1>4 DEF UnitsOK
<1>6. ~SBusy'
  BY <1>3, <1>5 DEF SBusy
<1>7. UNCHANGED <<status, step, got, left, call, multi>> /\ frame' = 3
  BY <1>2 DEF Goes
<1>8. Access' = Access /\ ADo' = ADo /\ Op' = Op
  BY <1>7, CallSame DEF Access, Program, Modify, ADo
<1>9. WBusy' = WBusy /\ WKind' = WKind /\ WName' = WName /\ WAt' = WAt /\ WV' = WV /\ WTo' = WTo
  BY <1>2, WindowSame DEF WTo
<1>10. StoresFit'
  BY <1>1, <1>6, <1>9 DEF StoresFit
<1>11. FrameKnown'
  BY <1>1, <1>2, <1>5, <1>6, <1>7, <1>8 DEF FrameKnown
<1>12. CallOnCourse'
  <2>1. Here = step /\ Here' = step
    BY <1>2, <1>7 DEF Here, Stored
  <2>2. PICK k : k = step
    OBVIOUS
  <2>3. Held(k)'
    BY <1>1, <1>2, <1>7, <2>1, <2>2, HeldAsWindow
  <2> QED
    BY <1>7, <2>1, <2>2, <2>3 DEF CallOnCourse
<1>13. Before => InHand(left)'
  BY <1>6, <1>7, <1>9 DEF SmiInv, LeftIsKnown, InHand
<1>14. 0 \in 0..Tries - 1 /\ 3 \in 1..4
  BY SmiAssumption
<1> QED
  BY <1>2, <1>5, <1>10, <1>11, <1>12, <1>13, <1>14, Staying

\* So does its command, and the unit begins.
LEMMA PutCommandHolds ==
  ASSUME SmiInv, status = "busy", multi, PutCommand, UNCHANGED <<multi, call>>
  PROVE  SmiInv'
<1>1. TypeOK /\ step <= Length(Op) /\ UnitsOK /\ StoresFit /\ FrameKnown /\ Held(Here)
  BY DEF SmiInv, FrameKnown, CallOnCourse
<1>2. /\ frame = (IF ADo = "write" THEN 3 ELSE 2)
      /\ smi' = [smi EXCEPT !.busy = TRUE, !.cmd = Access]
      /\ Goes(step, frame + 1, 0, waits, got) /\ UNCHANGED <<window, latch, phy, scratch, pointer>>
  BY DEF PutCommand, ADo
<1>3. ~SBusy /\ (ADo = "write" => smi.data = Access.word)
  BY <1>1, <1>2 DEF FrameKnown
<1>4. Access \in Accesses
  BY <1>1, ProgramIs
<1>5. UnitsOK' /\ smi'.busy = TRUE /\ smi'.cmd = Access /\ smi'.data = smi.data
  BY <1>1, <1>2, <1>4 DEF UnitsOK
<1>6. SBusy' /\ SDo' = ADo /\ SReg' = AReg /\ SKind' = SKind /\ SAt' = SAt
  BY <1>5 DEF SBusy, SDo, SReg, SKind, SAt, ADo, AReg
<1>7. UNCHANGED <<status, step, got, left, call, multi>> /\ frame' = frame + 1
  BY <1>2 DEF Goes
<1>8. Access' = Access /\ ADo' = ADo /\ Op' = Op
  BY <1>7, CallSame DEF Access, Program, Modify, ADo
<1>9. WBusy' = WBusy /\ WKind' = WKind /\ WName' = WName /\ WAt' = WAt /\ WV' = WV /\ WTo' = WTo
  BY <1>2, WindowSame DEF WTo
<1>10. Here = step /\ Here' = step
  BY <1>2, <1>6, <1>7 DEF Here, Stored
<1>11. ADo = "write" => SKind = AKind /\ SAt = AAt
  BY <1>3 DEF SKind, SAt, AKind, AAt
<1>12. StoresFit'
  <2>1. ADo = "write" => smi'.data = smi'.cmd.word
    BY <1>3, <1>5
  <2> QED
    BY <1>1, <1>6, <1>7, <1>9, <1>10, <1>11, <2>1, StoreFinds DEF StoresFit
<1>13. FrameKnown'
  BY <1>1, <1>2, <1>5, <1>6, <1>7, <1>8 DEF FrameKnown
<1>14. CallOnCourse'
  <2>1. PICK k : k = step
    OBVIOUS
  <2>2. Held(k)'
    BY <1>1, <1>2, <1>7, <1>10, <2>1, HeldAsWindow
  <2> QED
    BY <1>7, <1>10, <2>1, <2>2 DEF CallOnCourse
<1>15. Before => InHand(left)'
  <2>1. ADo = "write" /\ AReg = "phycmd" => ~Before
    BY <1>1, <1>10, StoreFinds DEF Before
  <2> QED
    BY <1>6, <1>7, <1>9, <2>1 DEF SmiInv, LeftIsKnown, InHand
<1>16. 0 \in 0..Tries - 1 /\ frame + 1 \in 1..4
  BY <1>2, SmiAssumption
<1> QED
  BY <1>2, <1>5, <1>12, <1>13, <1>14, <1>15, <1>16, Staying

\* What the SMI unit brings is what the register holds.
LEMMA AnswerIs ==
  ASSUME TypeOK, UnitsOK, NEW r \in Regs
  PROVE  /\ Answer(r) \in Words
         /\ r = "phycmd" => (Answer(r).kind # "busy" => ~WBusy)
         /\ r = "phydata" => Answer(r).v = WV
         /\ r = "scratch" => Answer(r).v = scratch[pointer]
<1>1. CASE r = "phycmd"
  <2>1. Answer(r) = IF window.busy THEN Word("busy", Nowhere, {}) ELSE Value({})
    BY <1>1 DEF Answer
  <2> QED
    BY <1>1, <2>1, WordIs DEF Kinds, WBusy
<1>2. CASE r = "phydata"
  BY <1>2 DEF Answer, WV, UnitsOK
<1>3. CASE r = "scratch"
  <2>1. Answer(r) = Value(scratch[pointer]) /\ scratch[pointer] \in Values
    BY <1>3 DEF Answer, TypeOK
  <2> QED
    BY <1>3, <2>1, WordIs
<1> QED
  BY <1>1, <1>2, <1>3 DEF Regs

\* What it brought is fetched.
LEMMA FetchHolds ==
  ASSUME SmiInv, status = "busy", multi, Fetch, UNCHANGED <<multi, call>>
  PROVE  SmiInv'
<1>1. TypeOK /\ step <= Length(Op) /\ UnitsOK /\ StoresFit /\ ChipOK /\ FrameKnown /\ Held(Here)
  BY DEF SmiInv, FrameKnown, TypeOK, ChipOK, CallOnCourse
<1>2. ADo # "write" /\ frame = 4 /\ AccessDone(smi.data) /\ UNCHANGED chip
  BY DEF Fetch, ADo
<1>3. ~SBusy /\ Truthful
  BY <1>1, <1>2 DEF FrameKnown
<1>4. Here = step
  BY <1>2 DEF Here, Stored
<1>5. ChipOK' /\ UnitsOK' /\ StoresFit' /\ SBusy' = SBusy
  BY <1>1, <1>2, ChipSame
<1>6. smi.data.v \in Values /\ SKind = smi.data.kind /\ SV = smi.data.v
  BY <1>1 DEF UnitsOK, Words, SKind, SV
<1>7. ADo \in {"wait", "read"} /\ AReg \in Regs
  BY <1>1, <1>2, ProgramIs DEF Accesses, ADo, AReg
<1>8. PICK k : k = step + 1
  OBVIOUS
<1>9. ASSUME ~(ADo = "wait" /\ smi.data.kind = "busy") PROVE Held(k)'
  <2>1. got' = IF ADo = "read" THEN smi.data.v ELSE got
    BY <1>1, <1>2, <1>9, GotIs
  <2>2. CASE ADo = "wait"
    <3>1. AReg = "phycmd"
      BY <1>1, <2>2, WaitIs
    <3>2. ~WBusy
      BY <1>3, <1>6, <1>9, <2>2, <3>1 DEF Truthful
    <3>3. Held(k)
      BY <1>1, <1>4, <1>8, <2>2, <3>2, WaitHolds
    <3> QED
      BY <1>1, <1>2, <2>1, <2>2, <3>3, HeldSame
  <2>3. CASE ADo = "read"
    BY <1>1, <1>2, <1>3, <1>4, <1>6, <1>8, <2>1, <2>3, ReadHolds DEF Truthful
  <2> QED
    BY <1>7, <2>2, <2>3
<1>10. UNCHANGED <<window, latch>>
  BY <1>2 DEF chip
<1> QED
  BY <1>1, <1>2, <1>3, <1>4, <1>5, <1>6, <1>8, <1>9, <1>10, Arriving

\* A switch with one address is reached without the unit.
LEMMA DirectHolds ==
  ASSUME SmiInv, status = "busy", ~multi, Direct, UNCHANGED <<multi, call>>
  PROVE  SmiInv'
<1>1. TypeOK /\ step <= Length(Op) /\ UnitsOK /\ StoresFit /\ ChipOK /\ FrameKnown /\ Held(Here)
  BY DEF SmiInv, FrameKnown, TypeOK, ChipOK, CallOnCourse
<1>2. ~SBusy /\ Here = step
  BY <1>1 DEF StoresFit, Here, Stored
<1>3. /\ IF ADo = "write" THEN Store(AReg, Access.word) /\ UNCHANGED smi ELSE UNCHANGED chip
      /\ AccessDone(Answer(AReg)) /\ UNCHANGED smi
  BY DEF Direct, ADo, AReg, chip
<1>4. AReg \in Regs /\ Access.word \in Words /\ ADo \in {"wait", "read", "write"}
  BY <1>1, ProgramIs DEF Accesses, ADo, AReg
<1>5. ~SBusy'
  BY <1>2, <1>3, SmiSame
<1>6. PICK k : k = step + 1
  OBVIOUS
<1>7. CASE ADo = "write"
  <2>1. Store(AReg, Access.word)
    BY <1>3, <1>7
  <2>2. /\ AReg = "phycmd" => AKind = Access.word.kind
        /\ AReg = "phydata" \/ AReg = "phycmd" => UNCHANGED <<pointer, scratch>>
        /\ AReg = "scratch" => UNCHANGED window /\ pointer' = AAt
              /\ scratch' = IF AKind = "update" THEN [scratch EXCEPT ![AAt] = AV] ELSE scratch
        /\ UNCHANGED <<latch, phy>>
    BY <1>1, <1>4, <2>1, StoreIs DEF AKind, AAt, AV
  <2>3. AV \in Values
    BY <1>4 DEF AV, Words
  <2>4. ChipOK'
    BY <1>1, <1>2, <1>4, <1>7, <2>2, <2>3, StoreFinds DEF ChipOK, Regs
  <2>5. UnitsOK'
    BY <1>1, <1>3, <1>4, <2>1 DEF Store, UnitsOK
  <2>6. /\ WBusy' /\ WKind' = "address" => WAt' \in Serdes
        /\ WBusy' /\ WKind' \in {"read", "write"} => WName' \in Phys
    <3>1. CASE AReg = "phycmd"
      <4>1. WKind' = AKind /\ WName' = AAt /\ WAt' = WAt
        BY <1>1, <1>4, <2>1, <3>1, StoreIs DEF AKind, AAt
      <4> QED
        BY <1>1, <1>2, <1>7, <3>1, <4>1, StoreFinds
    <3>2. CASE AReg = "phydata"
      <4>1. WBusy' = WBusy
        BY <1>1, <1>4, <2>1, <3>2, StoreIs
      <4> QED
        BY <1>1, <1>2, <1>7, <3>2, <4>1, StoreFinds
    <3>3. CASE AReg = "scratch"
      BY <1>1, <2>2, <3>3, WindowSame DEF StoresFit
    <3> QED
      BY <1>4, <3>1, <3>2, <3>3 DEF Regs
  <2>7. StoresFit'
    BY <1>5, <2>6 DEF StoresFit
  <2>8. got' = got
    BY <1>1, <1>3, <1>7, GotIs
  <2>9. Held(k)'
    BY <1>1, <1>2, <1>6, <1>7, <2>1, <2>8, StoreHolds
  <2>10. Op \in ScratchOps => UNCHANGED <<window, latch>>
    BY <1>1, <1>2, <1>7, <2>2, StoreFinds
  <2> QED
    BY <1>3, <1>5, <1>6, <1>7, <2>4, <2>5, <2>7, <2>9, <2>10, Arriving
<1>8. CASE ADo # "write"
  <2>1. UNCHANGED chip /\ UNCHANGED <<window, latch>>
    BY <1>3, <1>8 DEF chip
  <2>2. ChipOK' /\ UnitsOK' /\ StoresFit'
    BY <1>1, <2>1, ChipSame
  <2>3. /\ Answer(AReg).v \in Values
        /\ AReg = "phycmd" => (Answer(AReg).kind # "busy" => ~WBusy)
        /\ AReg = "phydata" => Answer(AReg).v = WV
        /\ AReg = "scratch" => Answer(AReg).v = scratch[pointer]
    BY <1>1, <1>4, AnswerIs DEF Words
  <2>4. ASSUME ~(ADo = "wait" /\ Answer(AReg).kind = "busy") PROVE Held(k)'
    <3>1. got' = IF ADo = "read" THEN Answer(AReg).v ELSE got
      BY <1>1, <1>3, <2>4, GotIs
    <3>2. CASE ADo = "wait"
      <4>1. ~WBusy
        BY <1>1, <2>3, <2>4, <3>2, WaitIs
      <4>2. Held(k)
        BY <1>1, <1>2, <1>6, <3>2, <4>1, WaitHolds
      <4> QED
        BY <2>1, <3>1, <3>2, <4>2, HeldSame
    <3>3. CASE ADo = "read"
      BY <1>1, <1>2, <1>6, <2>1, <2>3, <3>1, <3>3, ReadHolds
    <3> QED
      BY <1>4, <1>8, <3>2, <3>3
  <2> QED
    BY <1>1, <1>2, <1>3, <1>5, <1>6, <2>1, <2>2, <2>3, <2>4, Arriving
<1> QED
  BY <1>7, <1>8

\* A call begins, whatever the last one left behind.
LEMMA BeginHolds ==
  ASSUME SmiInv, NEW c \in Calls, Begin(c)
  PROVE  SmiInv'
<1>1. TypeOK /\ UnitsOK /\ StoresFit /\ ChipOK /\ InHand(left)
  BY DEF SmiInv, TypeOK, ChipOK, LeftIsKnown, Before, Begin
<1>2. /\ call' = c /\ status' = "busy" /\ step' = 1 /\ frame' = 1 /\ tries' = 0 /\ waits' = 0
      /\ got' = {} /\ UNCHANGED <<multi, chip, left>>
  BY DEF Begin
<1>3. TypeOK'
  BY <1>1, <1>2, WordIs, SmiAssumption DEF TypeOK, chip
<1>4. UnitsOK' /\ StoresFit'
  BY <1>1, <1>2, ChipSame
<1>5. LeftIsKnown'
  BY <1>1, <1>2, ChipSame DEF LeftIsKnown, InHand
<1>6. FrameKnown'
  <2>1. 1 <= Length(Op')
    BY DEF Length
  <2> QED
    BY <1>2, <2>1 DEF FrameKnown, Length
<1>7. CallOnCourse'
  BY <1>2 DEF CallOnCourse, Here, Stored, Held, HeldAddress
<1> QED
  BY <1>3, <1>4, <1>5, <1>6, <1>7 DEF SmiInv

\* The SMI unit ends a read.
LEMMA SmiAnswers ==
  ASSUME SmiInv, SmiRuns, SDo # "write"
  PROVE  SmiInv'
<1>1. TypeOK /\ step <= Length(Op) /\ UnitsOK /\ StoresFit /\ FrameKnown /\ SBusy
  BY DEF SmiInv, FrameKnown, SmiRuns, SBusy
<1>2. /\ smi' = [smi EXCEPT !.busy = FALSE, !.cmd = Done, !.data = Answer(SReg)]
      /\ UNCHANGED <<window, latch, phy, scratch, pointer>>
      /\ UNCHANGED <<multi, call, status, step, frame, tries, waits, got, left>>
  BY DEF SmiRuns, SDo, SReg
<1>3. SReg \in Regs
  BY <1>1 DEF UnitsOK, Accesses, SReg
<1>4. Answer(SReg) \in Words /\ Done \in Accesses
  BY <1>1, <1>3, AnswerIs, AccessesAre DEF Done, Regs
<1>5. UnitsOK' /\ ~SBusy' /\ smi'.data = Answer(SReg)
  BY <1>1, <1>2, <1>4 DEF UnitsOK, SBusy
<1>6. SKind' = Answer(SReg).kind /\ SV' = Answer(SReg).v
  BY <1>5 DEF SKind, SV
<1>7. Access' = Access /\ ADo' = ADo /\ AReg' = AReg /\ Op' = Op
  BY <1>2, CallSame DEF Access, Program, Modify, ADo, AReg
<1>8. WBusy' = WBusy /\ WKind' = WKind /\ WName' = WName /\ WAt' = WAt /\ WV' = WV /\ WTo' = WTo
  BY <1>2, WindowSame DEF WTo
<1>9. status = "busy" /\ (step # 1 \/ frame # 1) => ADo # "write" /\ frame = 3 /\ SReg = AReg
  BY <1>1, SmiIsOurs
<1>10. TypeOK'
  BY <1>1, <1>2, <1>5 DEF TypeOK, SBusy, UnitsOK
<1>11. StoresFit' /\ LeftIsKnown'
  <2>1. Before' = Before
    BY <1>2, <1>7 DEF Before
  <2> QED
    BY <1>1, <1>2, <1>5, <1>8, <2>1 DEF SmiInv, StoresFit, LeftIsKnown, InHand
<1>12. FrameKnown'
  <2>1. SReg = AReg => Truthful'
    <3>1. /\ SReg = "phycmd" => (SKind' # "busy" => ~WBusy')
          /\ SReg = "phydata" => SV' = WV'
          /\ SReg = "scratch" => SV' = scratch'[pointer']
      BY <1>1, <1>2, <1>3, <1>6, <1>8, AnswerIs
    <3> QED
      BY <1>7, <3>1 DEF Truthful
  <2> QED
    BY <1>1, <1>2, <1>5, <1>7, <1>9, <2>1 DEF FrameKnown
<1>13. CallOnCourse'
  <2>1. status = "ok" => FALSE
    BY <1>1 DEF FrameKnown
  <2>2. status = "busy" => Here = step /\ Here' = step
    BY <1>1, <1>2, <1>7, <1>9 DEF Here, Stored
  <2>3. PICK k : k = step
    OBVIOUS
  <2>4. ASSUME status = "busy" PROVE Held(k)'
    <3>1. Held(k)
      BY <2>2, <2>3, <2>4 DEF SmiInv, CallOnCourse
    <3> QED
      BY <1>2, <3>1, HeldAsWindow
  <2> QED
    BY <1>2, <2>1, <2>2, <2>3, <2>4 DEF CallOnCourse
<1> QED
  BY <1>5, <1>10, <1>11, <1>12, <1>13 DEF SmiInv

\* It ends a write, which may set the window to work.
LEMMA SmiStores ==
  ASSUME SmiInv, SmiRuns, SDo = "write"
  PROVE  SmiInv'
<1>1. TypeOK /\ step <= Length(Op) /\ UnitsOK /\ StoresFit /\ FrameKnown /\ SBusy /\ ChipOK
  BY DEF SmiInv, FrameKnown, SmiRuns, SBusy, TypeOK, ChipOK
<1>2. /\ smi' = [busy |-> FALSE, cmd |-> Done, data |-> Value({})]
      /\ Store(SReg, smi.data)
      /\ UNCHANGED <<multi, call, status, step, frame, tries, waits, got, left>>
  BY DEF SmiRuns, SDo, SReg
<1>3. SReg \in Regs /\ smi.data \in Words /\ SV \in Values
  BY <1>1 DEF UnitsOK, Accesses, Words, SReg, SV
<1>4. Value({}) \in Words /\ Done \in Accesses
  BY WordIs, AccessesAre DEF Done, Regs
<1>5. UnitsOK' /\ ~SBusy'
  <2>1. window' \in [busy : BOOLEAN, cmd : Words, data : Words]
    BY <1>1, <1>2, <1>3 DEF UnitsOK, Store
  <2> QED
    BY <1>2, <1>4, <2>1 DEF UnitsOK, SBusy
<1>6. /\ SReg = "phycmd" => /\ WBusy' /\ WKind' = SKind /\ WName' = SAt /\ WAt' = WAt /\ WV' = WV
      /\ SReg = "phydata" => WBusy' = WBusy
      /\ SReg = "scratch" => window' = window /\ pointer' = SAt
            /\ scratch' = IF SKind = "update" THEN [scratch EXCEPT ![SAt] = SV] ELSE scratch
      /\ SReg # "scratch" => pointer' = pointer /\ scratch' = scratch
      /\ latch' = latch /\ phy' = phy
  BY <1>1, <1>2, <1>3, StoreIs DEF SKind, SAt, SV
<1>7. Access' = Access /\ ADo' = ADo /\ AReg' = AReg /\ Op' = Op
  BY <1>2, CallSame DEF Access, Program, Modify, ADo, AReg
<1>8. /\ SReg # "scratch" => ~WBusy
      /\ SReg = "phycmd" /\ SKind = "address" => WAt \in Serdes
      /\ SReg = "phycmd" /\ SKind \in {"read", "write"} => SAt \in Phys
      /\ SReg = "scratch" => SAt \in Indices
      /\ WBusy /\ WKind = "address" => WAt \in Serdes
      /\ WBusy /\ WKind \in {"read", "write"} => WName \in Phys
      /\ multi
  BY <1>1 DEF StoresFit, TypeOK
<1>9. TypeOK'
  <2>1. pointer' \in Indices /\ scratch' \in [Indices -> Values] /\ latch' \in Serdes
        /\ phy' \in [Places -> Values]
    BY <1>1, <1>3, <1>6, <1>8 DEF ChipOK
  <2> QED
    BY <1>1, <1>2, <1>5, <2>1 DEF TypeOK, UnitsOK
<1>10. StoresFit'
  <2>1. /\ WBusy' /\ WKind' = "address" => WAt' \in Serdes
        /\ WBusy' /\ WKind' \in {"read", "write"} => WName' \in Phys
    <3>1. SReg = "scratch" => /\ WBusy' = WBusy /\ WKind' = WKind
                              /\ WAt' = WAt /\ WName' = WName
      BY <1>6, WindowSame
    <3> QED
      BY <1>3, <1>6, <1>8, <3>1 DEF Regs
  <2> QED
    BY <1>5, <2>1 DEF StoresFit
<1>11. LeftIsKnown'
  <2>1. Before' = Before
    BY <1>2, <1>7 DEF Before
  <2>2. ASSUME InHand(left) PROVE InHand(left)'
    <3>1. CASE SReg = "phycmd"
      <4>1. WTo' = STo
        BY <1>6, <3>1 DEF WTo, STo
      <4> QED
        BY <1>1, <1>2, <1>5, <1>6, <2>2, <3>1, <4>1 DEF InHand
    <3>2. CASE SReg = "phydata"
      BY <1>5, <1>6, <1>8, <3>2 DEF InHand
    <3>3. CASE SReg = "scratch"
      <4>1. WBusy' = WBusy /\ WKind' = WKind /\ WV' = WV /\ WTo' = WTo
        BY <1>6, <3>3, WindowSame DEF WTo
      <4> QED
        BY <1>2, <1>5, <2>2, <4>1 DEF InHand
    <3> QED
      BY <1>3, <3>1, <3>2, <3>3 DEF Regs
  <2> QED
    BY <2>1, <2>2 DEF SmiInv, LeftIsKnown
<1>12. status = "busy" /\ (step # 1 \/ frame # 1) =>
          /\ ADo = "write" /\ SReg = AReg /\ smi.data = Access.word /\ frame = 4 /\ Here = step
  BY <1>1, SmiIsOurs
<1>13. FrameKnown'
  BY <1>1, <1>2, <1>5, <1>7, <1>12 DEF FrameKnown
<1>14. CallOnCourse'
  <2>1. status # "ok"
    BY <1>1 DEF FrameKnown
  <2>2. CASE status = "busy" /\ (step # 1 \/ frame # 1)
    <3>1. Held(step) /\ Store(AReg, Access.word) /\ Here' = step + 1
      BY <1>2, <1>5, <1>7, <1>8, <1>12, <2>2 DEF SmiInv, CallOnCourse, Here, Stored
    <3>2. PICK k : k = step + 1
      OBVIOUS
    <3>3. Held(k)'
      BY <1>1, <1>2, <1>12, <2>2, <3>1, <3>2, StoreHolds
    <3> QED
      BY <1>2, <2>1, <3>1, <3>2, <3>3 DEF CallOnCourse
  <2>3. CASE step = 1 /\ frame = 1
    BY <1>2, <2>1, <2>3 DEF CallOnCourse, Here, Stored, Held, HeldAddress
  <2> QED
    BY <1>2, <2>1, <2>2, <2>3 DEF CallOnCourse
<1> QED
  BY <1>5, <1>9, <1>10, <1>11, <1>13, <1>14 DEF SmiInv

\* The window ends its own work.
LEMMA WindowHolds ==
  ASSUME SmiInv, WindowRuns
  PROVE  SmiInv'
<1>1. TypeOK /\ step <= Length(Op) /\ UnitsOK /\ StoresFit /\ FrameKnown
  BY DEF SmiInv, FrameKnown
<1>2. /\ WBusy /\ ~WBusy'
      /\ phy' = IF WKind \in Storing THEN [phy EXCEPT ![WTo] = WV] ELSE phy
      /\ latch' = IF WKind = "address" THEN WAt ELSE latch
      /\ left' = IF WKind \in Storing THEN {} ELSE left
      /\ UNCHANGED <<multi, smi, scratch, pointer, call, status, step, frame, tries, waits, got>>
  BY <1>1, WindowIs
<1>3. Access' = Access /\ ADo' = ADo /\ AReg' = AReg /\ Op' = Op
  BY <1>2, CallSame DEF Access, Program, Modify, ADo, AReg
<1>4. SBusy' = SBusy /\ SDo' = SDo /\ SReg' = SReg /\ SKind' = SKind /\ SAt' = SAt /\ SV' = SV
  BY <1>2, SmiSame
<1>5. WV \in Values /\ (WKind \in Storing \cup {"read", "read45"} => WTo \in Places)
  BY <1>1, <1>2 DEF UnitsOK, Words, WV, WTo, TypeOK, Places, StoresFit, Clause45, Storing
<1>6. UnitsOK'
  <2>1. window' = [busy |-> FALSE, cmd |-> Value({}),
           data |-> Value(IF WKind \in {"read", "read45"} THEN phy[WTo] ELSE {})]
    BY DEF WindowRuns, WKind, WTo, WName, Clause45
  <2>2. WKind \in {"read", "read45"} => phy[WTo] \in Values
    BY <1>1, <1>5 DEF TypeOK
  <2> DEFINE v == IF WKind \in {"read", "read45"} THEN phy[WTo] ELSE {}
  <2>3. v \in Values
    BY <2>2, WordIs
  <2> HIDE DEF v
  <2>4. Value({}) \in Words /\ Value(v) \in Words
    BY <2>3, WordIs
  <2>5. window' = [busy |-> FALSE, cmd |-> Value({}), data |-> Value(v)]
    BY <2>1 DEF v
  <2>6. window' \in [busy : BOOLEAN, cmd : Words, data : Words]
    BY <2>4, <2>5
  <2> QED
    BY <1>1, <1>2, <2>6 DEF UnitsOK
<1>7. TypeOK'
  <2>1. phy' \in [Places -> Values]
    BY <1>1, <1>2, <1>5 DEF TypeOK
  <2>2. latch' \in Serdes /\ left' \subseteq Places \X Values
    BY <1>1, <1>2 DEF TypeOK, StoresFit
  <2>3. window'.busy \in BOOLEAN
    BY <1>6 DEF UnitsOK
  <2> QED
    BY <1>1, <1>2, <2>1, <2>2, <2>3 DEF TypeOK
<1>8. StoresFit'
  BY <1>1, <1>2, <1>4 DEF StoresFit
<1>9. LeftIsKnown'
  BY <1>1, <1>2, <1>4 DEF StoresFit, LeftIsKnown, InHand
<1>10. Here' = Here
  BY <1>2, <1>3, <1>4 DEF Here, Stored
<1>11. FrameKnown'
  <2>1. ASSUME status = "busy", frame \in {3, 4}, ADo # "write", Truthful PROVE Truthful'
    <3>1. Held(step)
      BY <2>1 DEF SmiInv, CallOnCourse, Here, Stored
    <3>2. AReg # "phydata"
      BY <1>1, <1>2, <2>1, <3>1, ReadFinds
    <3> QED
      BY <1>2, <1>3, <1>4, <2>1, <3>2 DEF Truthful
  <2> QED
    BY <1>1, <1>2, <1>3, <1>4, <2>1 DEF FrameKnown
<1>12. CallOnCourse'
  <2>1. \A i : Held(i) => Held(i)'
    BY <1>1, HeldStays
  <2>2. PICK k, e : k = Here /\ e = Length(Op) + 1
    OBVIOUS
  <2>3. /\ status = "busy" => Held(k)'
        /\ status = "ok" => Held(e)'
    BY <2>1, <2>2 DEF SmiInv, CallOnCourse
  <2> QED
    BY <1>2, <1>3, <1>10, <2>2, <2>3 DEF CallOnCourse
<1> QED
  BY <1>6, <1>7, <1>8, <1>9, <1>11, <1>12 DEF SmiInv

-----------------------------------------------------------------------------
(* The theorems about the windows.                                         *)

\* The invariant holds at power-up.
LEMMA SmiInitially == Init => SmiInv
<1> SUFFICES ASSUME Init PROVE SmiInv
  OBVIOUS
<1>1. /\ smi = [busy |-> FALSE, cmd |-> Done, data |-> Value({})]
      /\ window = [busy |-> FALSE, cmd |-> Value({}), data |-> Value({})]
      /\ call = [op |-> "scratch_read", at |-> pointer, v |-> {}]
      /\ status = "ok" /\ step = 1 /\ got = {} /\ left = {} /\ pointer \in Indices
      /\ scratch = [i \in Indices |-> {}] /\ multi \in BOOLEAN
  BY SmiAssumption DEF Init
<1>2. Value({}) \in Words /\ Done \in Accesses /\ {} \in Values
  BY WordIs, AccessesAre DEF Done, Regs
<1>3. UnitsOK
  BY <1>1, <1>2 DEF UnitsOK
<1>4. Op = "scratch_read" /\ At = pointer /\ ~SBusy /\ ~WBusy
  BY <1>1 DEF Op, At, SBusy, WBusy
<1>5. TypeOK
  <2>1. call \in [op : {"scratch_read"}, at : Indices, v : {{}}]
    BY <1>1
  <2>2. call \in Calls
    BY <2>1 DEF Calls
  <2> QED
    BY <1>1, <1>2, <2>2, SmiAssumption DEF Init, TypeOK
<1>6. StoresFit /\ LeftIsKnown
  BY <1>4 DEF StoresFit, LeftIsKnown, InHand
<1>7. FrameKnown
  BY <1>1, <1>4 DEF FrameKnown, Length
<1>8. CallOnCourse
  BY <1>1, <1>4 DEF CallOnCourse, Held, Length
<1> QED
  BY <1>3, <1>5, <1>6, <1>7, <1>8 DEF SmiInv

\* Every step keeps it.
LEMMA SmiKeeps == SmiInv /\ [Next]_vars => SmiInv'
<1> SUFFICES ASSUME SmiInv, [Next]_vars PROVE SmiInv'
  OBVIOUS
<1>1. ASSUME NEW c \in Calls, Begin(c) PROVE SmiInv'
  BY <1>1, BeginHolds
<1>2. CASE Frame
  <2>1. status = "busy" /\ UNCHANGED <<multi, call>>
    BY <1>2 DEF Frame
  <2>2. CASE multi /\ Poll
    BY <2>1, <2>2, PollHolds
  <2>3. CASE multi /\ PutData
    BY <2>1, <2>3, PutDataHolds
  <2>4. CASE multi /\ PutCommand
    BY <2>1, <2>4, PutCommandHolds
  <2>5. CASE multi /\ Fetch
    BY <2>1, <2>5, FetchHolds
  <2>6. CASE ~multi /\ Direct
    BY <2>1, <2>6, DirectHolds
  <2>7. CASE FrameFails
    BY <2>1, <2>7, Failing DEF FrameFails
  <2> QED
    BY <1>2, <2>2, <2>3, <2>4, <2>5, <2>6, <2>7 DEF Frame
<1>3. CASE SmiRuns
  BY <1>3, SmiAnswers, SmiStores
<1>4. CASE WindowRuns
  BY <1>4, WindowHolds
<1>5. CASE UNCHANGED vars
  <2>1. UNCHANGED <<multi, smi, window, latch, phy, scratch, pointer, call, status, step, frame,
                    tries, waits, got, left>>
    BY <1>5 DEF vars
  <2>2. /\ SBusy' = SBusy /\ SDo' = SDo /\ SReg' = SReg /\ SKind' = SKind /\ SAt' = SAt /\ SV' = SV
        /\ WBusy' = WBusy /\ WKind' = WKind /\ WName' = WName /\ WAt' = WAt /\ WV' = WV
        /\ WTo' = WTo /\ STo' = STo
        /\ Op' = Op /\ At' = At /\ V' = V
    BY <2>1, SmiSame, WindowSame, CallSame DEF WTo, STo
  <2>3. Access' = Access /\ ADo' = ADo /\ AReg' = AReg
    BY <2>1 DEF Access, Program, Modify, ADo, AReg
  <2>4. TypeOK' /\ UnitsOK' /\ StoresFit' /\ LeftIsKnown'
    BY <2>1, <2>2 DEF SmiInv, TypeOK, UnitsOK, StoresFit, LeftIsKnown, Before, InHand
  <2>5. FrameKnown'
    BY <2>1, <2>2, <2>3 DEF SmiInv, FrameKnown, Truthful
  <2>6. CallOnCourse'
    <3>1. Here' = Here
      BY <2>1, <2>2, <2>3 DEF Here, Stored
    <3>2. PICK k, e : k = Here /\ e = Length(Op) + 1
      OBVIOUS
    <3>3. \A i : Held(i) => Held(i)'
      BY <2>1, HeldAsWindow
    <3>4. /\ status = "busy" => Held(k)'
          /\ status = "ok" => Held(e)'
      BY <3>2, <3>3 DEF SmiInv, CallOnCourse
    <3> QED
      BY <2>1, <2>2, <3>1, <3>2, <3>4 DEF CallOnCourse
  <2> QED
    BY <2>4, <2>5, <2>6 DEF SmiInv
<1> QED
  BY <1>1, <1>2, <1>3, <1>4, <1>5 DEF Next

\* The invariant of the two windows holds for every set of places, masks and
\* retries. (access.py SMI indirect access; mv88e6xxx phy and scratch registers)
THEOREM SmiIsSound == Spec => []SmiInv
BY SmiInitially, SmiKeeps, PTL DEF Spec

\* The variables keep their types.
THEOREM SmiTyped == Spec => []TypeOK
<1>1. SmiInv => TypeOK
  BY DEF SmiInv
<1> QED
  BY <1>1, SmiIsSound, PTL

\* A call that succeeds returns what its own register held, or leaves there what
\* it was asked to, whatever an earlier call that failed left in the units.
\* (access.py phy_read, phy_write, their Clause 45 forms, phy_modify, scratch_read,
\* scratch_write)
THEOREM CallsAnswerForThemselves == Spec => []AnswersAreOurs
<1>1. SmiInv => AnswersAreOurs
  <2> SUFFICES ASSUME SmiInv, status = "ok" PROVE AnswersAreOurs
    BY DEF AnswersAreOurs
  <2>1. Held(Length(Op) + 1) /\ Op \in Ops
    BY CallIs DEF SmiInv, CallOnCourse, Op
  <2>2. CASE Op = "phy_read"
    <3>1. got = phy[At]
      BY <2>1, <2>2 DEF Held, Length
    <3> QED
      BY <2>2, <3>1 DEF AnswersAreOurs, Op, At
  <2>3. CASE Op = "phy_write"
    <3>1. phy[At] = V
      BY <2>1, <2>3 DEF Held, Length
    <3> QED
      BY <2>3, <3>1 DEF AnswersAreOurs, Op, At, V
  <2>4. CASE Op = "phy_read_c45"
    <3>1. got = phy[At]
      BY <2>1, <2>4 DEF Held, Length
    <3> QED
      BY <2>4, <3>1 DEF AnswersAreOurs, Op, At
  <2>5. CASE Op = "phy_write_c45"
    <3>1. phy[At] = V
      BY <2>1, <2>5 DEF Held, Length
    <3> QED
      BY <2>5, <3>1 DEF AnswersAreOurs, Op, At, V
  <2>6. CASE Op = "modify"
    BY <2>1, <2>6 DEF AnswersAreOurs, Held, Length, Op, At
  <2>7. CASE Op = "scratch_read"
    BY <2>1, <2>7 DEF AnswersAreOurs, Held, Length, Op, At
  <2>8. CASE Op = "scratch_write"
    BY <2>1, <2>8 DEF AnswersAreOurs, Held, Length, Op, At, V
  <2> QED
    BY <2>1, <2>2, <2>3, <2>6, <2>7, <2>8, <2>4, <2>5 DEF Ops
<1> QED
  BY <1>1, SmiIsSound, PTL

\* No command or data are put to a unit that is still at work. (access.py _wait,
\* MultiAccess)
THEOREM UnitsAreLeftAlone == Spec => NothingIsOverrun
<1> DEFINE Safe == /\ smi.busy /\ smi' # smi => ~smi'.busy
                   /\ window.busy /\ window' # window => ~window'.busy
<1>1. SmiInv /\ [Next]_vars => [Safe]_vars
  <2> SUFFICES ASSUME SmiInv, Next PROVE Safe
    OBVIOUS
  <2>1. TypeOK /\ step <= Length(Op) /\ UnitsOK /\ StoresFit /\ FrameKnown
    BY DEF SmiInv, FrameKnown
  <2>2. ASSUME UNCHANGED chip PROVE Safe
    BY <2>2 DEF chip
  <2>3. SBusy = smi.busy /\ WBusy = window.busy
    BY DEF SBusy, WBusy
  <2>4. ASSUME NEW c \in Calls, Begin(c) PROVE Safe
    BY <2>2, <2>4 DEF Begin
  <2>5. CASE Frame
    <3>1. status = "busy"
      BY <2>5 DEF Frame
    <3>2. CASE multi /\ (Poll \/ Fetch)
      BY <2>2, <3>2 DEF Poll, Fetch
    <3>3. CASE multi /\ (PutData \/ PutCommand)
      <4>1. ~SBusy /\ window' = window
        BY <2>1, <3>1, <3>3 DEF PutData, PutCommand, FrameKnown, ADo
      <4> QED
        BY <2>3, <4>1
    <3>4. CASE ~multi /\ Direct
      <4>1. CASE ADo = "write"
        <5>1. Held(step)
          BY <3>1, <3>4 DEF SmiInv, CallOnCourse, Here, Stored
        <5>2. Store(AReg, Access.word) /\ UNCHANGED smi
          BY <3>4, <4>1 DEF Direct, ADo, AReg
        <5>3. CASE AReg # "scratch"
          BY <2>1, <2>3, <4>1, <5>1, <5>2, <5>3, StoreFinds
        <5>4. CASE AReg = "scratch"
          BY <5>2, <5>4 DEF Store
        <5> QED
          BY <5>3, <5>4
      <4>2. CASE ADo # "write"
        BY <2>2, <3>4, <4>2 DEF Direct, ADo
      <4> QED
        BY <4>1, <4>2
    <3>5. CASE FrameFails
      BY <2>2, <3>5 DEF FrameFails
    <3> QED
      BY <2>5, <3>2, <3>3, <3>4, <3>5 DEF Frame
  <2>6. CASE SmiRuns
    <3>1. ~smi'.busy
      <4>1. CASE SDo = "write"
        <5>1. smi' = [busy |-> FALSE, cmd |-> Done, data |-> Value({})]
          BY <2>6, <4>1 DEF SmiRuns, SDo
        <5> QED
          BY <5>1
      <4>2. CASE SDo # "write"
        <5>1. smi' = [smi EXCEPT !.busy = FALSE, !.cmd = Done, !.data = Answer(SReg)]
          BY <2>6, <4>2 DEF SmiRuns, SDo, SReg
        <5> QED
          BY <2>1, <5>1 DEF UnitsOK
      <4> QED
        BY <4>1, <4>2
    <3>2. CASE SDo = "write" /\ SReg # "scratch"
      <4>1. ~WBusy
        BY <2>1, <2>3, <2>6, <3>2 DEF SmiRuns, StoresFit
      <4> QED
        BY <2>3, <3>1, <4>1
    <3>3. CASE SDo = "write" /\ SReg = "scratch"
      <4>1. window' = window
        BY <2>6, <3>3 DEF SmiRuns, Store, SDo, SReg
      <4> QED
        BY <3>1, <4>1
    <3>4. CASE SDo # "write"
      <4>1. window' = window
        BY <2>6, <3>4 DEF SmiRuns, SDo
      <4> QED
        BY <3>1, <4>1
    <3> QED
      BY <3>2, <3>3, <3>4
  <2>7. CASE WindowRuns
    <3>1. ~window'.busy /\ smi' = smi
      BY <2>7 DEF WindowRuns
    <3> QED
      BY <3>1
  <2> QED
    BY <2>4, <2>5, <2>6, <2>7 DEF Next
<1> QED
  BY <1>1, SmiIsSound, PTL DEF Spec, NothingIsOverrun

\* A register of a PHY changes only to what the call under way, or one that
\* failed before, asked for, and phy_modify leaves the other bits. (access.py)
THEOREM WritesAreTheCallers == Spec => WritesAreAsked
<1> DEFINE Asked == \A a \in Places : phy'[a] # phy[a] =>
         \/ <<a, phy'[a]>> \in left
         \/ /\ status = "busy" /\ call.op \in Writes /\ <<a, phy'[a]>> = Asks
            /\ call.op = "modify" => phy'[a] \ Mask = phy[a] \ Mask
<1>1. SmiInv /\ [Next]_vars => [Asked]_vars
  <2> SUFFICES ASSUME SmiInv, Next, NEW a \in Places, phy'[a] # phy[a]
               PROVE  \/ <<a, phy'[a]>> \in left
                      \/ /\ status = "busy" /\ Op \in Writes /\ <<a, phy'[a]>> = Asks
                         /\ Op = "modify" => phy'[a] \ Mask = phy[a] \ Mask
    BY DEF Op
  <2>1. TypeOK /\ step <= Length(Op) /\ UnitsOK
    BY DEF SmiInv, FrameKnown
  <2>2. WindowRuns
    <3>1. chip' = chip => phy' = phy
      BY DEF chip
    <3>2. \A c \in Calls : Begin(c) => phy' = phy
      BY <3>1 DEF Begin
    <3>3. Frame => phy' = phy
      BY <3>1 DEF Frame, Poll, PutData, PutCommand, Fetch, Direct, FrameFails, Store
    <3>4. SmiRuns => phy' = phy
      BY DEF SmiRuns, Store
    <3> QED
      BY <3>2, <3>3, <3>4 DEF Next
  <2>3. WBusy /\ phy' = IF WKind \in Storing THEN [phy EXCEPT ![WTo] = WV] ELSE phy
    BY <2>1, <2>2, WindowIs
  <2>4. WKind \in Storing /\ a = WTo /\ phy'[a] = WV
    BY <2>1, <2>3 DEF TypeOK
  <2>5. CASE Before
    BY <2>3, <2>4, <2>5 DEF SmiInv, LeftIsKnown, InHand
  <2>6. CASE ~Before
    <3>1. status = "busy"
      BY <2>6 DEF Before
    <3>2. Op \in Writes /\ <<WTo, WV>> = Asks
      BY <2>3, <2>4, <2>6, <3>1, InHandIsAsked DEF InHand
    <3>3. ASSUME Op = "modify" PROVE phy'[a] \ Mask = phy[a] \ Mask
      <4>1. Held(Here) /\ step \in {2, 3, 4, 5, 6, 7, 8}
        BY <2>1, <2>6, <3>1, <3>3, StepIs DEF SmiInv, CallOnCourse, Before
      <4>2. Here \in {2, 3, 4, 5, 6, 7, 8, 9}
        BY <4>1 DEF Here
      <4>3. Here = 8
        BY <2>3, <2>4, <3>3, <4>1, <4>2 DEF Held, Free, Reading, Storing
      <4>4. WTo = At /\ WV = got \cup Mask /\ got = phy[At]
        BY <2>3, <3>3, <4>1, <4>3 DEF Held, Writing
      <4> QED
        BY <2>4, <4>4
    <3> QED
      BY <2>4, <3>1, <3>2, <3>3
  <2> QED
    BY <2>5, <2>6
<1> QED
  BY <1>1, SmiIsSound, PTL DEF Spec, WritesAreAsked

-----------------------------------------------------------------------------
(* Addressing modes.                                                       *)

Mode == command.mode
N    == command.n
R    == command.r
MSet == M!Current.set
MTo  == M!Current.v

\* Between a command's accesses the selectors it has written so far hold, and
\* the extension space is open only for an extpage access under way, or where
\* one lost a write, or where it was asked for.
ModesInv ==
  /\ maker \in M!Kinds /\ spoilt \in BOOLEAN
  /\ Mode \in {"plain", "page", "mvpage", "extpage", "mmd", "window"}
  /\ page = M!Extension => spoilt \/ (Mode = "extpage" /\ next \in {2, 3, 4})
  /\ Mode # "page" => N # M!Extension
  /\ Mode = "plain" => next \in {0, 1}
  /\ Mode \in {"page", "mvpage"} => /\ next \in {0, 1, 2}
                                    /\ next = 2 => page = N
  /\ Mode = "window" => /\ next \in {0, 1, 2}
                        /\ next = 2 => ext = R
  /\ Mode = "extpage" => /\ next \in {0, 1, 2, 3, 4}
                         /\ next \in {2, 3} => page = M!Extension
                         /\ next = 3 => ext = N
  /\ Mode = "mmd" => next \in {0, 1, 2, 3, 4}
  /\ Mode = "mmd" /\ M!Unpaged => /\ next \in {2, 3, 4} => devad = N
                                  /\ next \in {2, 3} => ~dataport
                                  /\ next \in {3, 4} => address = R
                                  /\ next = 4 => dataport

\* What each mode sends, and which of its accesses is the one that it is for.
LEMMA WrapIs ==
  /\ Mode = "plain" => M!Wrap(command) = <<M!Data>>
  /\ Mode \in {"page", "mvpage"} => M!Wrap(command) = <<M!Set("page", N), M!Data>>
  /\ Mode = "extpage" => M!Wrap(command) = <<M!Set("page", M!Extension), M!Set("ext", N), M!Data>>
  /\ Mode = "window" => M!Wrap(command) = <<M!Set("ext", R), M!Data>>
  /\ Mode = "mmd" => M!Wrap(command) =
        <<M!Set("devad", N), M!Set("address", R), M!Set("dataport", N), M!Data>>
BY DEF Mode, N, R, M!Wrap, M!Paged, M!ExtPage, M!Mmd, M!Window

\* How long each mode's sequence is, and what its selecting writes set.
LEMMA CurrentIs ==
  ASSUME ModesInv, next # 0
  PROVE  /\ Mode = "plain" => Len(M!Wrap(command)) = 1
         /\ Mode \in {"page", "mvpage"} =>
              /\ Len(M!Wrap(command)) = 2
              /\ next = 1 => MSet = "page" /\ MTo = N
         /\ Mode = "window" =>
              /\ Len(M!Wrap(command)) = 2
              /\ next = 1 => MSet = "ext" /\ MTo = R
         /\ Mode = "extpage" =>
              /\ Len(M!Wrap(command)) = 3
              /\ next = 1 => MSet = "page" /\ MTo = M!Extension
              /\ next = 2 => MSet = "ext" /\ MTo = N
         /\ Mode = "mmd" =>
              /\ Len(M!Wrap(command)) = 4
              /\ next = 1 => MSet = "devad" /\ MTo = N
              /\ next = 2 => MSet = "address" /\ MTo = R
              /\ next = 3 => MSet = "dataport" /\ MTo = N
BY WrapIs DEF ModesInv, MSet, MTo, M!Current, M!Set

\* A selecting write, as far as it concerns the selectors.
Applies ==
  /\ page' = (IF MSet = "page" THEN MTo ELSE page)
  /\ ext' = (IF MSet = "ext" THEN MTo ELSE ext)
  /\ M!Unpaged =>
       /\ devad' = (IF MSet \in {"devad", "dataport"} THEN MTo ELSE devad)
       /\ address' = (IF MSet = "address" /\ ~dataport THEN MTo ELSE address)
       /\ MSet = "devad" => ~dataport'
       /\ MSet = "dataport" => dataport'
       /\ MSet \notin {"devad", "dataport"} => (dataport' <=> dataport)

\* That is what it does with them.
LEMMA SelectorsMove == M!Applied(M!Current) => Applies
<1> SUFFICES ASSUME M!Applied(M!Current) PROVE Applies
  OBVIOUS
<1>1. page' = (IF MSet = "page" THEN MTo ELSE page) /\ ext' = (IF MSet = "ext" THEN MTo ELSE ext)
  BY DEF M!Applied, MSet, MTo
<1>2. ASSUME M!Unpaged
      PROVE  /\ devad' = (IF MSet \in {"devad", "dataport"} THEN MTo ELSE devad)
             /\ address' = (IF MSet = "address" /\ ~dataport THEN MTo ELSE address)
  BY <1>2 DEF M!Applied, MSet, MTo
<1>3. dataport' = (IF M!Unpaged /\ MSet = "devad" THEN FALSE
                   ELSE IF M!Unpaged /\ MSet = "dataport" THEN TRUE ELSE dataport)
  BY DEF M!Applied, MSet
<1>4. ASSUME M!Unpaged, MSet = "devad" PROVE ~dataport'
  BY <1>3, <1>4
<1>5. ASSUME M!Unpaged, MSet = "dataport" PROVE dataport'
  <2>1. dataport' = TRUE
    BY <1>3, <1>5
  <2> QED
    BY <2>1
<1>6. ASSUME MSet \notin {"devad", "dataport"} PROVE dataport' <=> dataport
  <2>1. MSet # "devad" /\ MSet # "dataport"
    BY <1>6
  <2>2. dataport' = IF FALSE THEN FALSE ELSE IF FALSE THEN TRUE ELSE dataport
    BY <1>3, <2>1, Zenon
  <2> QED
    BY <2>2, Zenon
<1> QED
  BY <1>1, <1>2, <1>4, <1>5, <1>6 DEF Applies

\* A page is selected only by the modes that name one.
LEMMA SelectsAre ==
  ASSUME ModesInv, next # 0, next # Len(M!Wrap(command)), next <= Len(M!Wrap(command))
  PROVE  MSet = "page" => MTo = N \/ Mode = "extpage"
BY CurrentIs DEF ModesInv

\* The invariant holds when a session begins.
LEMMA ModesInitially == M!Init => ModesInv
<1> SUFFICES ASSUME M!Init PROVE ModesInv
  OBVIOUS
<1>1. Mode = "plain" /\ N \in Numbers /\ next = 0 /\ page = M!NoPage /\ maker \in M!Kinds
      /\ spoilt = FALSE
  BY DEF M!Init, Mode, N
<1>2. N # M!Extension /\ M!NoPage # M!Extension
  BY <1>1, ModesFit DEF M!ModesAssumption, M!NoPage, M!Extension
<1> QED
  BY <1>1, <1>2 DEF ModesInv

\* Every step keeps it.
LEMMA ModesKeep == ModesInv /\ [M!Next]_(M!vars) => ModesInv'
<1> SUFFICES ASSUME ModesInv, [M!Next]_(M!vars) PROVE ModesInv'
  OBVIOUS
<1>1. CASE M!Starts
  <2>1. /\ next = 0 /\ next' = 1 /\ command' \in M!Commands
        /\ UNCHANGED <<maker, page, ext, devad, address, dataport, spoilt>>
    BY <1>1 DEF M!Starts, M!part
  <2>2. /\ Mode' \in M!Schemes[maker]
        /\ Mode' # "page" => N' # M!Extension
    BY <2>1, ModesFit DEF M!Commands, Mode, N, M!ModesAssumption, M!Extension, M!NoPage
  <2>3. Mode' \in {"plain", "page", "mvpage", "extpage", "mmd", "window"}
    BY <2>2 DEF ModesInv, M!Kinds, M!Schemes
  <2> QED
    BY <2>1, <2>2, <2>3 DEF ModesInv, M!Unpaged
<1>2. ASSUME UNCHANGED <<maker, command>> PROVE Mode' = Mode /\ N' = N /\ R' = R
  BY <1>2 DEF Mode, N, R
<1>3. CASE M!Selects
  <2>0. M!Applied(M!Current)
    BY <1>3 DEF M!Selects
  <2>a. Applies
    BY <2>0, SelectorsMove
  <2>1. /\ next # 0 /\ next # Len(M!Wrap(command)) /\ Applies /\ next' = next + 1
        /\ spoilt' = ((spoilt /\ ~(MSet = "page" /\ MTo # M!Extension)) \/ N = M!Extension)
        /\ UNCHANGED <<maker, command>>
    BY <1>3, <2>a DEF M!Selects, M!Armed, M!Closes, MSet, MTo, N
  <2>2. /\ spoilt' \in BOOLEAN
        /\ N = M!Extension => spoilt'
        /\ spoilt /\ MSet # "page" => spoilt'
        /\ spoilt /\ MTo = M!Extension => spoilt'
    BY <2>1 DEF ModesInv, M!Unpaged
  <2>3. Mode # "plain"
    BY <2>1, CurrentIs DEF ModesInv, M!Unpaged
  <2>4. CASE Mode \in {"page", "mvpage"}
    <3>1. next = 1 /\ MSet = "page" /\ MTo = N
      BY <2>1, <2>4, CurrentIs DEF ModesInv, M!Unpaged
    <3>2. next' = 2 /\ page' = N /\ (N = M!Extension => spoilt')
      BY <2>1, <2>2, <3>1 DEF Applies
    <3> QED
      BY <1>2, <2>1, <2>2, <2>4, <3>2 DEF ModesInv, M!Unpaged
  <2>5. CASE Mode = "window"
    <3>1. next = 1 /\ MSet = "ext" /\ MTo = R
      BY <2>1, <2>5, CurrentIs DEF ModesInv, M!Unpaged
    <3>2. next' = 2 /\ ext' = R /\ page' = page /\ (spoilt => spoilt')
      BY <2>1, <2>2, <3>1 DEF Applies
    <3> QED
      BY <1>2, <2>1, <2>2, <2>5, <3>2 DEF ModesInv, M!Unpaged
  <2>6. CASE Mode = "extpage"
    <3>1. CASE next = 1
      <4>1. MSet = "page" /\ MTo = M!Extension
        BY <2>1, <2>6, <3>1, CurrentIs
      <4>2. next' = 2 /\ page' = M!Extension
        BY <2>1, <3>1, <4>1 DEF Applies
      <4> QED
        BY <1>2, <2>1, <2>2, <2>6, <4>2 DEF ModesInv, M!Unpaged
    <3>2. CASE next = 2
      <4>1. MSet = "ext" /\ MTo = N
        BY <2>1, <2>6, <3>2, CurrentIs
      <4>2. next' = 3 /\ page' = page /\ ext' = N
        BY <2>1, <3>2, <4>1 DEF Applies
      <4> QED
        BY <1>2, <2>1, <2>2, <2>6, <3>2, <4>2 DEF ModesInv, M!Unpaged
    <3>3. CASE next \in {3, 4}
      <4>1. next = 4
        BY <2>1, <2>6, <3>3, CurrentIs
      <4>2. Len(M!Wrap(command)) = 3
        BY <2>1, <2>6, CurrentIs
      <4>3. 4 \in 1..3
        BY <1>3, <4>1, <4>2 DEF M!Selects
      <4> QED
        BY <4>3
    <3> QED
      BY <2>1, <2>6, <3>1, <3>2, <3>3 DEF ModesInv, M!Unpaged
  <2>7. CASE Mode = "mmd"
    <3>1. page' = page /\ (spoilt => spoilt') /\ (M!Unpaged' <=> M!Unpaged)
      BY <2>1, <2>7, <2>2, CurrentIs DEF Applies, ModesInv, M!Unpaged
    <3>2. CASE next = 1
      <4>1. MSet = "devad" /\ MTo = N
        BY <2>1, <2>7, <3>2, CurrentIs
      <4>2. next' = 2 /\ (M!Unpaged => devad' = N /\ ~dataport')
        BY <2>1, <3>2, <4>1 DEF Applies
      <4> QED
        BY <1>2, <2>1, <2>2, <2>7, <3>1, <4>2 DEF ModesInv, M!Unpaged
    <3>3. CASE next = 2
      <4>1. MSet = "address" /\ MTo = R
        BY <2>1, <2>7, <3>3, CurrentIs
      <4>2. next' = 3 /\ (M!Unpaged => devad' = devad /\ (dataport' <=> dataport) /\ (~dataport => address' = R))
        BY <2>1, <3>3, <4>1 DEF Applies
      <4> QED
        BY <1>2, <2>1, <2>2, <2>7, <3>1, <3>3, <4>2 DEF ModesInv, M!Unpaged
    <3>4. CASE next = 3
      <4>1. MSet = "dataport" /\ MTo = N
        BY <2>1, <2>7, <3>4, CurrentIs
      <4>2. next' = 4 /\ (M!Unpaged => devad' = N /\ dataport' /\ address' = address)
        BY <2>1, <3>4, <4>1 DEF Applies
      <4> QED
        BY <1>2, <2>1, <2>2, <2>7, <3>1, <3>4, <4>2 DEF ModesInv, M!Unpaged
    <3> QED
      BY <2>1, <2>7, <3>2, <3>3, <3>4, CurrentIs DEF ModesInv, M!Unpaged
  <2> QED
    BY <2>3, <2>4, <2>5, <2>6, <2>7 DEF ModesInv, M!Unpaged
<1>4. CASE M!Accesses
  <2>1. /\ next # 0 /\ next = Len(M!Wrap(command))
        /\ next' = (IF Mode = "extpage" THEN next + 1 ELSE 0)
        /\ UNCHANGED <<maker, page, ext, devad, address, dataport, command, spoilt>>
    BY <1>4 DEF M!Accesses, M!Armed, M!Releases, M!part, Mode
  <2>2. Mode = "extpage" => next = 3
    BY <2>1, CurrentIs
  <2> QED
    BY <1>2, <2>1, <2>2 DEF ModesInv, M!Unpaged
<1>5. CASE M!SelectFails
  <2>1. /\ next # 0 /\ next # Len(M!Wrap(command)) /\ next' = 0
        /\ spoilt' = (spoilt \/ Mode = "extpage" \/ N = M!Extension)
        /\ UNCHANGED <<maker, command>>
    BY <1>5 DEF M!SelectFails, M!Armed, Mode, N
  <2>2. page' = page \/ (MSet = "page" /\ page' = MTo)
    BY <1>5 DEF M!SelectFails, M!Applied, MSet, MTo, M!part
  <2>3. MSet = "page" => MTo = N \/ Mode = "extpage"
    <3>1. next \in 1..Len(M!Wrap(command))
      BY <1>5 DEF M!SelectFails
    <3> QED
      BY <2>1, <3>1, SelectsAre
  <2>4. page' = M!Extension => page = M!Extension \/ N = M!Extension \/ Mode = "extpage"
    BY <2>2, <2>3
  <2>5. /\ spoilt' \in BOOLEAN
        /\ spoilt \/ Mode = "extpage" \/ N = M!Extension => spoilt'
    BY <2>1 DEF ModesInv, M!Unpaged
  <2>6. page' = M!Extension => spoilt'
    BY <2>4, <2>5 DEF ModesInv, M!Unpaged
  <2> QED
    BY <1>2, <2>1, <2>5, <2>6 DEF ModesInv, M!Unpaged
<1>6. CASE M!Release
  <2>1. /\ next' = 0 /\ UNCHANGED <<maker, command>>
        /\ (page' = M!NoPage /\ spoilt' = FALSE) \/ spoilt' = TRUE
    BY <1>6 DEF M!Release, M!Applied, M!Set, ModesInv
  <2>2. M!NoPage # M!Extension
    BY DEF M!NoPage, M!Extension
  <2>3. spoilt' \in BOOLEAN /\ (page' = M!Extension => spoilt')
    BY <2>1, <2>2
  <2> QED
    BY <1>2, <2>1, <2>3 DEF ModesInv, M!Unpaged
<1>7. CASE UNCHANGED M!vars
  BY <1>2, <1>7 DEF M!vars, ModesInv, M!Unpaged
<1> QED
  BY <1>1, <1>3, <1>4, <1>5, <1>6, <1>7 DEF M!Next

\* The invariant of the addressing modes, whatever the registers, pages and
\* devices. (access.py Paged, ExtPage, Mmd, Window)
THEOREM ModesAreSound == M!Spec => []ModesInv
BY ModesInitially, ModesKeep, PTL DEF M!Spec

\* The extension page is selected only while an extension access is under way,
\* or where a write of one was lost, or where the caller asked for that page.
\* (access.py ExtPage)
THEOREM ExtensionSpaceIsClosed == M!Spec => []ExtensionIsClosed
<1>1. ModesInv => ExtensionIsClosed
  BY DEF ModesInv, ExtensionIsClosed, M!ExtensionIsClosed
<1> QED
  BY <1>1, ModesAreSound, PTL

\* The access a command is for reaches the register it names, in the page or
\* space it names, whatever earlier commands and lost writes left selected; an MMD
\* access does where they left no page selected. (access.py Paged, ExtPage, Mmd,
\* Window)
THEOREM DataAccessIsExact == M!Spec => IndirectAccessIsExact
<1> DEFINE Exact == reached' # reached /\ command.mode # "plain" /\ (command.mode = "mmd" => M!Unpaged)
                       => reached' = M!Wanted(command)
<1>1. ModesInv /\ [M!Next]_(M!vars) => [Exact]_(M!vars)
  <2> SUFFICES ASSUME ModesInv, M!Next, reached' # reached, Mode # "plain",
                      Mode = "mmd" => M!Unpaged
               PROVE  reached' = M!Wanted(command)
    BY DEF Mode
  <2>1. M!Accesses
    BY DEF M!Next, M!Starts, M!Selects, M!SelectFails, M!Release
  <2>2. /\ next # 0 /\ next = Len(M!Wrap(command)) /\ reached' = M!Reaches(command)
    BY <2>1 DEF M!Accesses, M!Armed
  <2>3. CASE Mode \in {"page", "mvpage"}
    <3>1. page = N
      BY <2>2, <2>3, CurrentIs DEF ModesInv
    <3> QED
      BY <2>2, <2>3, <3>1 DEF M!Reaches, M!Wanted, M!Selected, Mode, N
  <2>4. CASE Mode = "window"
    <3>1. ext = R
      BY <2>2, <2>4, CurrentIs DEF ModesInv
    <3> QED
      BY <2>2, <2>4, <3>1 DEF M!Reaches, M!Wanted, Mode, R
  <2>5. CASE Mode = "extpage"
    <3>1. page = M!Extension /\ ext = N
      BY <2>2, <2>5, CurrentIs DEF ModesInv
    <3> QED
      BY <2>2, <2>5, <3>1 DEF M!Reaches, M!Wanted, M!Selected, Mode, N, M!NoPage, M!Extension
  <2>6. CASE Mode = "mmd"
    <3>1. dataport /\ devad = N /\ address = R
      BY <2>2, <2>6, CurrentIs DEF ModesInv
    <3> QED
      BY <2>2, <2>6, <3>1 DEF M!Reaches, M!Wanted, Mode, N, R
  <2> QED
    BY <2>3, <2>4, <2>5, <2>6 DEF ModesInv
<1> QED
  BY <1>1, ModesAreSound, PTL DEF M!Spec, IndirectAccessIsExact, M!IndirectAccessIsExact

-----------------------------------------------------------------------------
(* Commands to a port.                                                     *)

LinkSteps == {"status", "serdes", "unpage", "phy", "phyext", "put", "putserdes", "unpageput", "putphy",
              "control", "force"}
OtherSteps == {"state", "rgmii", "detect", "pins", "polling", "reset", "restart", "fibre",
               "unpageprobe"}

\* A step belongs to the command it is a step of.
StepsFit ==
  /\ family \in P!All /\ verb \in P!Verbs
  /\ pc \in LinkSteps \cup OtherSteps \cup {"idle", "checks", "unpagefailed"}
  /\ pc \in LinkSteps => verb \in P!LinkVerbs
  /\ pc \in OtherSteps => verb \notin P!LinkVerbs

InSerdes == source \in P!WantsSerdes
InPhy    == source \in P!WantsPhy
Down     == verb = "down"

\* BMCR power-down of the PHY that the search comes to, and that it has come to
\* that one.
Driven  == IF erred /\ outside THEN otherdown ELSE phydown
Settled == erred /\ outside <=> P!Astray

\* What has been found of a port's path, and what has been done to it.
PartsKnown ==
  /\ pc \in {"checks", "status"} => parts = {} /\ missing = {} /\ powered = {}
  /\ pc = "serdes" => InSerdes /\ parts = {} /\ missing = {} /\ powered = {}
  /\ pc = "unpage" => InSerdes /\ powered = {} /\ parts \subseteq {"serdes"}
                      /\ "serdes" \in parts \cup missing
  /\ pc \in {"phy", "phyext"} =>
       /\ InPhy /\ powered = {} /\ parts \subseteq {"serdes"}
       /\ "serdes" \in parts => InSerdes
       /\ InSerdes => "serdes" \in parts \cup missing
  /\ pc \in {"put", "putserdes", "unpageput", "putphy", "control", "force"} =>
       /\ InSerdes => "serdes" \in parts \cup missing
       /\ InPhy => "phy" \in parts \cup missing
       /\ parts \subseteq {"serdes", "phy"}
       /\ "serdes" \in parts => InSerdes
       /\ "phy" \in parts => InPhy /\ ~P!Broadcast(family, number) /\ Settled
       /\ powered \subseteq parts
       /\ "serdes" \in powered => serdesdown = Down
       /\ "phy" \in powered => Driven = Down
  /\ pc = "putserdes" => "serdes" \in parts
  /\ pc = "putphy" => "phy" \in parts
  /\ pc \in {"control", "force"} => parts \subseteq powered
  /\ pc = "force" => parts = {} \/ verb = "auto"

\* Page 1 is selected only where there is a SERDES to select it on, and only
\* until it is put back.
Paging == {"serdes", "unpage", "putserdes", "unpageput", "unpagefailed", "fibre", "unpageprobe"}

PagesKnown ==
  side # "copper" => family.paged /\ number \in family.serdes /\ (torn \/ pc \in Paging)

\* Where the PHY's search has been: the other function is searched only where
\* the port has no PHY on its own, or the read of that one has failed; and with
\* the PPU stopped no command of the link gets so far.
SearchKnown ==
  /\ outside => family.functions /\ P!Within
  /\ family.functions => ppu
  /\ pc = "polling" => family.needsPpu
  /\ pc \in LinkSteps /\ family.needsPpu => ppu
  /\ pc \in {"checks", "status", "serdes", "unpage", "phy"} => ~erred
  /\ pc = "phyext" => family.functions /\ (P!Within => erred)

\* What a command of the link that ended well has done.
LinkDone ==
  /\ verb \in {"up", "down"} /\ missing = {} =>
       /\ InSerdes => serdesdown = Down
       /\ InPhy => Driven = Down
       /\ ~InSerdes /\ ~InPhy => force = verb
  /\ verb = "auto" => force = "none"

PortsInv == StepsFit /\ PartsKnown /\ PagesKnown /\ (pc = "idle" /\ outcome = "ok" => LinkDone)

\* What a PHY's place is, and what needs the PPU.
LEMMA FamiliesAre ==
  ASSUME family \in P!All
  PROVE  /\ family.internal \cap family.external = {}
         /\ family.functions => ~family.needsPpu
         /\ ~family.functions /\ ~family.needsPpu => ~P!PpuStops(family)
BY DEF P!All, P!Mv6321, P!Mv6240, P!Mv6390, P!PpuStops

\* Names of commands, and what the families offer.
LEMMA VerbsAre ==
  /\ P!LinkVerbs = {"up", "down", "auto"}
  /\ P!Verbs = {"up", "down", "auto", "on", "off", "forwarding", "disabled", "both", "none",
                "bus on", "bus off", "bus solo", "reset", "probe"}
BY DEF P!LinkVerbs, P!Verbs

\* Every command a family offers is one of those.
LEMMA OfferedAre ==
  ASSUME family \in P!All
  PROVE  P!Offered \subseteq P!Verbs
<1>1. family.extbus \subseteq {"on", "off", "solo"}
  BY DEF P!All, P!Mv6321, P!Mv6240, P!Mv6390
<1>2. P!Busses["on"] = "bus on" /\ P!Busses["off"] = "bus off" /\ P!Busses["solo"] = "bus solo"
  BY DEF P!Busses
<1>3. {P!Busses[b] : b \in family.extbus} \subseteq P!Verbs
  BY <1>1, <1>2, VerbsAre
<1> QED
  BY <1>3 DEF P!Offered

\* Where a command goes once it is let through.
LEMMA FirstIs ==
  ASSUME verb \in P!Verbs
  PROVE  IF verb \in P!LinkVerbs THEN P!First(verb) = "status" ELSE P!First(verb) \in OtherSteps
BY VerbsAre DEF P!First, OtherSteps

\* The invariant holds out of a hardware reset.
LEMMA PortsInitially == P!Init => PortsInv
<1> SUFFICES ASSUME P!Init PROVE PortsInv
  OBVIOUS
<1>1. /\ \E s \in Studied : family = s[1] /\ number = s[2]
      /\ verb = "auto" /\ pc = "idle" /\ outcome = "ok" /\ force = "none" /\ side = "copper"
  BY DEF P!Init, P!Fresh
<1>2. family \in P!All
  BY <1>1, PortsFit DEF P!PortsAssumption
<1>3. StepsFit
  BY <1>1, <1>2, VerbsAre DEF StepsFit, LinkSteps, OtherSteps
<1> QED
  BY <1>1, <1>3 DEF PortsInv, PartsKnown, PagesKnown, LinkDone

\* A command of another kind, and one that fails or is refused, say nothing of
\* the link.
LEMMA Elsewhere ==
  ASSUME PortsInv, UNCHANGED <<family, verb>>,
         \/ pc' = "idle" /\ (outcome' # "ok" \/ verb \notin P!LinkVerbs)
         \/ pc' \in OtherSteps /\ verb \notin P!LinkVerbs
         \/ pc' = "unpagefailed",
         PagesKnown'
  PROVE  PortsInv'
<1>1. StepsFit'
  BY DEF PortsInv, StepsFit, LinkSteps, OtherSteps
<1>2. PartsKnown'
  BY DEF PartsKnown, OtherSteps
<1>3. pc' = "idle" /\ outcome' = "ok" => LinkDone'
  BY VerbsAre DEF LinkDone, OtherSteps
<1> QED
  BY <1>1, <1>2, <1>3 DEF PortsInv

\* A command of the link goes on.
LEMMA Onwards ==
  ASSUME PortsInv, UNCHANGED <<family, verb>>, verb \in P!LinkVerbs, pc' \in LinkSteps,
         PagesKnown', PartsKnown'
  PROVE  PortsInv'
<1>1. StepsFit'
  BY DEF PortsInv, StepsFit, LinkSteps, OtherSteps
<1> QED
  BY <1>1 DEF PortsInv, LinkSteps

\* The page stays as it is between two steps on it, and off it.
LEMMA PageStays ==
  ASSUME PortsInv, UNCHANGED <<family, number>>, side' = side \/ side' = "copper", torn => torn',
         torn' \/ side' = "copper" \/ pc \notin Paging \/ pc' \in Paging
  PROVE  PagesKnown'
BY DEF PortsInv, PagesKnown

\* Looking for the SERDES of a port, and for the PHY behind it.
LEMMA SearchKeeps ==
  ASSUME PortsInv, SearchKnown, P!Status \/ P!PageSelected \/ P!SerdesFound \/ P!PhyFound
  PROVE  PortsInv'
<1>1. CASE P!Status
  <2>1. /\ pc = "status" /\ UNCHANGED <<family, number, verb, parts, missing, powered, side, torn>>
        /\ pc' = IF InSerdes' THEN "serdes" ELSE IF InPhy' THEN "phy" ELSE "control"
    BY <1>1 DEF P!Status, P!Goes, P!strap, P!ends, InSerdes, InPhy
  <2>2. /\ verb \in P!LinkVerbs /\ parts = {} /\ missing = {} /\ powered = {}
        /\ pc' \in {"serdes", "phy", "control"}
    BY <2>1 DEF PortsInv, StepsFit, LinkSteps, PartsKnown
  <2>3. PagesKnown'
    BY <2>1, PageStays DEF Paging
  <2>4. PartsKnown'
    BY <2>1, <2>2 DEF PartsKnown
  <2> QED
    BY <2>1, <2>2, <2>3, <2>4, Onwards DEF LinkSteps
<1>2. CASE P!PageSelected
  <2>1. /\ pc \in {"serdes", "putserdes", "fibre"} /\ family.paged /\ number \in family.serdes
        /\ UNCHANGED <<family, number, verb, pc, outcome, source, parts, missing, powered, torn,
                       phydown, otherdown, serdesdown, force, func, erred, outside>>
    BY <1>2 DEF P!PageSelected, P!SerdesPage, P!strap, P!port, P!search
  <2>2. PagesKnown'
    BY <2>1 DEF PagesKnown, Paging
  <2>3. StepsFit' /\ PartsKnown'
    BY <2>1 DEF PortsInv, StepsFit, PartsKnown, InSerdes, InPhy, Down, Driven, Settled,
                P!Astray, P!Within
  <2> QED
    BY <2>1, <2>2, <2>3 DEF PortsInv
<1>3. CASE P!SerdesFound
  <2>1. /\ pc = "serdes" /\ UNCHANGED <<family, number, verb, source, powered, side, torn>>
        /\ \/ parts' = parts \cup {"serdes"} /\ missing' = missing
           \/ missing' = missing \cup {"serdes"} /\ parts' = parts
        /\ pc' = IF family.paged /\ number \in family.serdes THEN "unpage"
                 ELSE IF InPhy THEN "phy" ELSE "put"
    BY <1>3 DEF P!SerdesFound, P!SerdesRead, P!Goes, P!AfterSerdes, P!strap, P!ends, InPhy
  <2>2. /\ verb \in P!LinkVerbs /\ InSerdes /\ parts = {} /\ missing = {} /\ powered = {}
        /\ pc' \in {"unpage", "phy", "put"}
    BY <2>1 DEF PortsInv, StepsFit, LinkSteps, PartsKnown
  <2>3. InSerdes' = InSerdes /\ InPhy' = InPhy
    BY <2>1 DEF InSerdes, InPhy
  <2>4. PagesKnown'
    BY <2>1 DEF PortsInv, PagesKnown, Paging
  <2>5. PartsKnown'
    BY <2>1, <2>2, <2>3 DEF PartsKnown
  <2> QED
    BY <2>1, <2>2, <2>4, <2>5, Onwards DEF LinkSteps
<1>4. CASE P!PhyFound
  <2>1. /\ pc \in {"phy", "phyext"}
        /\ UNCHANGED <<family, number, verb, source, powered, side, torn, erred, outside>>
    BY <1>4 DEF P!PhyFound, P!strap, P!ends
  <2>2. /\ verb \in P!LinkVerbs /\ InPhy /\ powered = {} /\ parts \subseteq {"serdes"}
        /\ "serdes" \in parts => InSerdes
        /\ InSerdes => "serdes" \in parts \cup missing
    BY <2>1 DEF PortsInv, StepsFit, LinkSteps, PartsKnown
  <2>3. InSerdes' = InSerdes /\ InPhy' = InPhy /\ P!Broadcast(family, number)' = P!Broadcast(family, number)
    BY <2>1 DEF InSerdes, InPhy
  <2>4. PagesKnown'
    BY <2>1, PageStays DEF Paging
  <2>5. CASE pc' = "idle" /\ outcome' = "refused"
    BY <2>1, <2>4, <2>5, Elsewhere
  <2>6. CASE P!NoPhy /\ parts' = parts
    <3>1. CASE pc' = "phyext" /\ missing' = missing
      <4>1. PartsKnown'
        BY <2>1, <2>2, <2>3, <2>6, <3>1 DEF PartsKnown
      <4> QED
        BY <2>1, <2>2, <2>4, <3>1, <4>1, Onwards DEF LinkSteps
    <3>2. CASE pc' = "put" /\ missing' = missing \cup {"phy"}
      <4>1. PartsKnown'
        BY <2>1, <2>2, <2>3, <2>6, <3>2 DEF PartsKnown
      <4> QED
        BY <2>1, <2>2, <2>4, <3>2, <4>1, Onwards DEF LinkSteps
    <3> QED
      BY <2>6, <3>1, <3>2 DEF P!NoPhy, P!Goes
  <2>7. CASE /\ P!Answers /\ ~P!Broadcast(family, number)
             /\ pc' = "put" /\ parts' = parts \cup {"phy"} /\ missing' = missing
             /\ func' = IF pc = "phyext" THEN "external" ELSE "internal"
    <3>1. P!Within' <=> P!Within
      BY <2>1 DEF P!Within
    <3>2. Settled'
      <4>1. CASE pc = "phy"
        BY <2>1, <2>7, <4>1 DEF SearchKnown, Settled, P!Astray
      <4>2. CASE pc = "phyext"
        <5>1. P!Within => erred
          BY <4>2 DEF SearchKnown
        <5>2. P!Within => outside
          BY <2>7, <4>2, FamiliesAre DEF P!Answers, P!Without, P!Within, SearchKnown, PortsInv, StepsFit
        <5>3. outside => P!Within
          BY DEF SearchKnown
        <5> QED
          BY <2>1, <2>7, <3>1, <4>2, <5>1, <5>2, <5>3 DEF Settled, P!Astray
      <4> QED
        BY <2>1, <4>1, <4>2
    <3>3. PartsKnown'
      BY <2>1, <2>2, <2>3, <2>7, <3>2 DEF PartsKnown
    <3> QED
      BY <2>1, <2>2, <2>4, <2>7, <3>3, Onwards DEF LinkSteps
  <2> QED
    BY <1>4, <2>5, <2>6, <2>7 DEF P!PhyFound, P!Goes, P!Ends
<1> QED
  BY <1>1, <1>2, <1>3, <1>4

\* What has been found is powered, or deprived of it.
LEMMA PowerKeeps ==
  ASSUME PortsInv, P!Puts \/ P!SerdesWritten \/ P!PhyWritten
  PROVE  PortsInv'
<1>1. /\ pc \in {"put", "putserdes", "putphy"}
      /\ UNCHANGED <<family, number, verb, source, parts, missing, side, torn, func, erred, outside>>
  BY DEF P!Puts, P!SerdesWritten, P!PhyWritten, P!strap, P!ends, P!search
<1>2. /\ verb \in P!LinkVerbs
      /\ InSerdes => "serdes" \in parts \cup missing
      /\ InPhy => "phy" \in parts \cup missing
      /\ parts \subseteq {"serdes", "phy"}
      /\ "serdes" \in parts => InSerdes
      /\ "phy" \in parts => InPhy /\ ~P!Broadcast(family, number) /\ Settled
      /\ powered \subseteq parts
      /\ "serdes" \in powered => serdesdown = Down
      /\ "phy" \in powered => Driven = Down
      /\ pc = "putserdes" => "serdes" \in parts
      /\ pc = "putphy" => "phy" \in parts
  BY <1>1 DEF PortsInv, StepsFit, LinkSteps, PartsKnown
<1>3. /\ InSerdes' = InSerdes /\ InPhy' = InPhy /\ Down' = Down /\ Settled' = Settled
      /\ P!Broadcast(family, number)' = P!Broadcast(family, number)
  BY <1>1 DEF InSerdes, InPhy, Down, Settled, P!Astray, P!Within
<1>4. CASE P!Puts
  <2>1. /\ pc = "put" /\ UNCHANGED <<powered, serdesdown, phydown, otherdown>> /\ Driven' = Driven
        /\ pc' = IF "serdes" \in parts \ powered THEN "putserdes"
                 ELSE IF "phy" \in parts \ powered THEN "putphy" ELSE "control"
    BY <1>1, <1>4 DEF P!Puts, P!Goes, P!ends, Driven
  <2>2. pc' \in {"putserdes", "putphy", "control"}
    BY <2>1
  <2>3. PagesKnown'
    BY <1>1, <2>1, PageStays DEF Paging
  <2>4. /\ pc' = "putserdes" => "serdes" \in parts
        /\ pc' = "putphy" => "phy" \in parts
        /\ pc' = "control" => parts \subseteq powered
    BY <1>2, <2>1
  <2>5. PartsKnown'
    BY <1>1, <1>2, <1>3, <2>1, <2>2, <2>4 DEF PartsKnown
  <2> QED
    BY <1>1, <1>2, <2>2, <2>3, <2>5, Onwards DEF LinkSteps
<1>5. CASE P!SerdesWritten
  <2>1. /\ pc = "putserdes" /\ serdesdown' = Down /\ powered' = powered \cup {"serdes"}
        /\ Driven' = Driven
        /\ pc' = IF family.paged THEN "unpageput" ELSE "put"
    BY <1>1, <1>5 DEF P!SerdesWritten, P!Goes, Down, Driven
  <2>2. pc' \in {"unpageput", "put"}
    BY <2>1
  <2>3. PagesKnown'
    BY <1>1, <2>1 DEF PortsInv, PagesKnown, Paging
  <2>4. PartsKnown'
    BY <1>1, <1>2, <1>3, <2>1, <2>2 DEF PartsKnown
  <2> QED
    BY <1>1, <1>2, <2>2, <2>3, <2>4, Onwards DEF LinkSteps
<1>6. CASE P!PhyWritten
  <2>1. /\ pc = "putphy" /\ powered' = powered \cup {"phy"}
        /\ serdesdown' = serdesdown /\ pc' = "put"
    BY <1>6 DEF P!PhyWritten, P!Goes
  <2>4. Driven' = Down
    BY <1>1, <1>2, <1>6, <2>1 DEF P!PhyWritten, P!PutPhy, Down, Driven, Settled
  <2>2. PagesKnown'
    BY <1>1, <2>1, PageStays DEF Paging
  <2>3. PartsKnown'
    BY <1>1, <1>2, <1>3, <2>1, <2>4 DEF PartsKnown
  <2> QED
    BY <1>1, <1>2, <2>1, <2>2, <2>3, Onwards DEF LinkSteps
<1> QED
  BY <1>4, <1>5, <1>6

\* The MAC's link is forced, or is as it should be.
LEMMA ForceKeeps ==
  ASSUME PortsInv, P!Control \/ P!Force
  PROVE  PortsInv'
<1>1. /\ pc \in {"control", "force"}
      /\ UNCHANGED <<family, number, verb, source, parts, missing, powered, side, torn, serdesdown,
                     phydown, otherdown, func, erred, outside>>
  BY DEF P!Control, P!Force, P!strap, P!ends, P!search
<1>2. /\ verb \in P!LinkVerbs
      /\ InSerdes => "serdes" \in parts \cup missing
      /\ InPhy => "phy" \in parts \cup missing
      /\ parts \subseteq {"serdes", "phy"}
      /\ "serdes" \in parts => InSerdes
      /\ "phy" \in parts => InPhy
      /\ powered \subseteq parts /\ parts \subseteq powered
      /\ "serdes" \in powered => serdesdown = Down
      /\ "phy" \in powered => Driven = Down
      /\ pc = "force" => parts = {} \/ verb = "auto"
  BY <1>1 DEF PortsInv, StepsFit, LinkSteps, PartsKnown
<1>3. /\ InSerdes' = InSerdes /\ InPhy' = InPhy /\ Down' = Down /\ Settled' = Settled
      /\ Driven' = Driven /\ P!Broadcast(family, number)' = P!Broadcast(family, number)
  BY <1>1 DEF InSerdes, InPhy, Down, Driven, Settled, P!Astray, P!Within
<1>4. P!Forces <=> parts = {} \/ verb = "auto"
  BY DEF P!Forces
<1>5. P!Wanted = IF verb = "auto" THEN "none" ELSE verb
  BY DEF P!Wanted
<1>6. PagesKnown'
  BY <1>1, PageStays DEF Paging
<1>7. ASSUME pc' = "idle", P!Forces => force' = P!Wanted
      PROVE  PortsInv'
  <2>1. StepsFit' /\ PartsKnown'
    BY <1>1, <1>7 DEF PortsInv, StepsFit, LinkSteps, OtherSteps, PartsKnown
  <2>2. LinkDone'
    BY <1>1, <1>2, <1>3, <1>4, <1>5, <1>7 DEF LinkDone
  <2> QED
    BY <1>6, <2>1, <2>2 DEF PortsInv
<1>8. CASE pc = "control" /\ pc' = "force" /\ P!Forces
  <2>1. PartsKnown'
    <3>1. PartsKnown
      BY DEF PortsInv
    <3> QED
      BY <1>1, <1>3, <1>4, <1>8, <3>1 DEF PartsKnown
  <2> QED
    BY <1>1, <1>2, <1>6, <1>8, <2>1, Onwards DEF LinkSteps
<1>9. CASE P!Control
  BY <1>7, <1>8, <1>9 DEF P!Control, P!Goes, P!Ends, P!port
<1>10. CASE P!Force
  BY <1>7, <1>10 DEF P!Force, P!Ends
<1> QED
  BY <1>9, <1>10

\* The page of the SERDES is put back.
LEMMA PageBackKeeps ==
  ASSUME PortsInv, P!PageBack
  PROVE  PortsInv'
<1>1. /\ pc \in {"unpage", "unpageput", "unpagefailed", "unpageprobe"}
      /\ side' = "copper"
      /\ UNCHANGED <<family, number, verb, source, parts, missing, powered, torn, serdesdown, phydown,
                     otherdown, func, erred, outside>>
      /\ pc = "unpage" => pc' = IF InPhy THEN "phy" ELSE "put"
      /\ pc = "unpageput" => pc' = "put"
      /\ pc = "unpageprobe" => pc' = "idle" /\ outcome' = "ok"
      /\ pc = "unpagefailed" => pc' = "idle" /\ outcome' = "failed"
  BY DEF P!PageBack, P!Goes, P!Ends, P!AfterSerdes, P!strap, P!search, InPhy
<1>2. PagesKnown'
  BY <1>1, PageStays
<1>3. /\ InSerdes' = InSerdes /\ InPhy' = InPhy /\ Down' = Down /\ Settled' = Settled
      /\ Driven' = Driven /\ P!Broadcast(family, number)' = P!Broadcast(family, number)
  BY <1>1 DEF InSerdes, InPhy, Down, Driven, Settled, P!Astray, P!Within
<1>4. StepsFit /\ PartsKnown
  BY DEF PortsInv
<1>5. CASE pc = "unpage"
  <2>1. pc' \in {"phy", "put"} /\ verb \in P!LinkVerbs
    BY <1>1, <1>4, <1>5 DEF StepsFit, LinkSteps
  <2>2. PartsKnown'
    BY <1>1, <1>3, <1>4, <1>5, <2>1 DEF PartsKnown
  <2> QED
    BY <1>1, <1>2, <2>1, <2>2, Onwards DEF LinkSteps
<1>6. CASE pc = "unpageput"
  <2>1. pc' = "put" /\ verb \in P!LinkVerbs
    BY <1>1, <1>4, <1>6 DEF StepsFit, LinkSteps
  <2>2. PartsKnown'
    BY <1>1, <1>3, <1>4, <1>6, <2>1 DEF PartsKnown
  <2> QED
    BY <1>1, <1>2, <2>1, <2>2, Onwards DEF LinkSteps
<1>7. CASE pc = "unpageprobe"
  <2>1. verb \notin P!LinkVerbs
    BY <1>4, <1>7 DEF StepsFit, OtherSteps
  <2> QED
    BY <1>1, <1>2, <1>7, <2>1, Elsewhere
<1>8. CASE pc = "unpagefailed"
  BY <1>1, <1>2, <1>8, Elsewhere
<1> QED
  BY <1>1, <1>5, <1>6, <1>7, <1>8

\* Commands that have nothing to do with the link.
LEMMA OthersKeep ==
  ASSUME PortsInv,
         P!State \/ P!RgmiiRefused \/ P!Rgmii \/ P!Detect \/ P!Pins \/ P!Polling \/ P!Reset
         \/ P!Restart \/ P!Probe
  PROVE  PortsInv'
<1>1. /\ pc \in OtherSteps /\ UNCHANGED <<family, number, verb, torn>>
      /\ pc' = "idle" \/ pc' \in OtherSteps \/ pc' = "unpagefailed"
  BY DEF P!State, P!RgmiiRefused, P!Rgmii, P!Detect, P!Pins, P!Polling, P!Reset, P!Restart,
         P!Probe, P!Goes, P!Ends, P!strap, OtherSteps
<1>2. verb \notin P!LinkVerbs
  BY <1>1 DEF PortsInv, StepsFit
<1>3. CASE P!Probe
  <2>1. /\ pc = "fibre" /\ side' = side
        /\ IF family.paged /\ number \in family.serdes THEN pc' \in {"unpageprobe", "unpagefailed"}
           ELSE pc' = "idle"
    BY <1>3 DEF P!Probe, P!SerdesPage, P!Goes, P!Ends, P!ends
  <2>2. PagesKnown'
    BY <1>1, <2>1 DEF PortsInv, PagesKnown, Paging
  <2> QED
    BY <1>1, <1>2, <2>2, Elsewhere
<1>4. CASE ~P!Probe
  <2>1. pc \notin Paging /\ (side' = side \/ side' = "copper")
    BY <1>4 DEF P!State, P!RgmiiRefused, P!Rgmii, P!Detect, P!Pins, P!Polling, P!Reset, P!Restart,
                P!ends, Paging
  <2>2. PagesKnown'
    BY <1>1, <2>1, PageStays
  <2> QED
    BY <1>1, <1>2, <2>2, Elsewhere
<1> QED
  BY <1>3, <1>4

\* A command begins, and is let through or not.
LEMMA BeginsKeep ==
  ASSUME PortsInv, P!Begin \/ P!Checks
  PROVE  PortsInv'
<1>1. UNCHANGED <<family, number, side, torn>> /\ pc \in {"idle", "checks"}
  BY DEF P!Begin, P!Checks, P!strap, P!ends
<1>2. family \in P!All /\ StepsFit /\ PartsKnown
  BY DEF PortsInv, StepsFit
<1>3. PagesKnown'
  BY <1>1, PageStays DEF Paging
<1>4. CASE P!Begin
  <2>1. /\ verb' \in P!Verbs /\ pc' = "checks"
        /\ parts' = {} /\ missing' = {} /\ powered' = {}
    BY <1>2, <1>4, OfferedAre DEF P!Begin, P!Goes
  <2>2. StepsFit' /\ PartsKnown'
    BY <1>1, <1>2, <2>1 DEF StepsFit, PartsKnown, LinkSteps, OtherSteps
  <2> QED
    BY <1>3, <2>1, <2>2 DEF PortsInv
<1>5. CASE P!Checks
  <2>1. /\ pc = "checks" /\ UNCHANGED <<verb, parts, missing, powered>>
        /\ (pc' = "idle" /\ outcome' = "refused") \/ pc' = P!First(verb)
    BY <1>5 DEF P!Checks, P!Goes, P!Ends
  <2>2. verb \in P!Verbs /\ parts = {} /\ missing = {} /\ powered = {}
    BY <1>2, <2>1 DEF StepsFit, PartsKnown
  <2>3. CASE pc' = "idle" /\ outcome' = "refused"
    BY <1>1, <1>3, <2>1, <2>3, Elsewhere
  <2>4. CASE pc' = P!First(verb) /\ verb \in P!LinkVerbs
    <3>1. pc' = "status"
      BY <2>2, <2>4, FirstIs
    <3>2. PartsKnown'
      BY <2>1, <2>2, <3>1 DEF PartsKnown
    <3> QED
      BY <1>1, <1>3, <2>1, <2>4, <3>1, <3>2, Onwards DEF LinkSteps
  <2>5. CASE pc' = P!First(verb) /\ verb \notin P!LinkVerbs
    <3>1. pc' \in OtherSteps
      BY <2>2, <2>5, FirstIs
    <3> QED
      BY <1>1, <1>3, <2>1, <2>5, <3>1, Elsewhere
  <2> QED
    BY <2>1, <2>3, <2>4, <2>5
<1> QED
  BY <1>4, <1>5

\* An access fails.
LEMMA FailuresKeep ==
  ASSUME PortsInv,
         P!PhyLookupFails \/ P!SerdesLookupFails \/ P!PageFails \/ P!PutFails \/ P!AccessFails
  PROVE  PortsInv'
<1>1. /\ UNCHANGED <<family, number, verb, source, powered>> /\ (torn => torn')
      /\ StepsFit /\ PartsKnown /\ PagesKnown
  <2>1. P!PhyLookupFails \/ P!SerdesLookupFails
           => UNCHANGED <<family, number, verb, source, powered, torn>>
    BY DEF P!PhyLookupFails, P!SerdesLookupFails, P!strap
  <2>2. P!PageFails => UNCHANGED <<family, number, verb, source, powered>> /\ torn' = TRUE
    BY DEF P!PageFails, P!strap
  <2>3. P!PutFails \/ P!AccessFails => UNCHANGED <<family, number, verb, source, powered, torn>>
    BY DEF P!PutFails, P!AccessFails, P!strap
  <2> QED
    BY <2>1, <2>2, <2>3 DEF PortsInv
<1>2. /\ InSerdes' = InSerdes /\ InPhy' = InPhy
      /\ P!Broadcast(family, number)' = P!Broadcast(family, number)
  BY <1>1 DEF InSerdes, InPhy
<1>3. CASE P!AccessFails
  <2>1. pc' = "idle" /\ outcome' = "failed" /\ side' = side /\ pc \notin Paging
    BY <1>3 DEF P!AccessFails, P!Ends, P!ends, Paging
  <2>2. PagesKnown'
    BY <1>1, <2>1, PageStays
  <2> QED
    BY <1>1, <2>1, <2>2, Elsewhere
<1>4. CASE P!PutFails
  <2>1. /\ side' = side
        /\ \/ pc = "putserdes" /\ IF family.paged THEN pc' = "unpagefailed"
                                  ELSE pc' = "idle" /\ outcome' = "failed"
           \/ pc = "putphy" /\ pc' = "idle" /\ outcome' = "failed"
    BY <1>4 DEF P!PutFails, P!Goes, P!Ends
  <2>2. PagesKnown'
    BY <1>1, <2>1 DEF PagesKnown, Paging
  <2> QED
    BY <1>1, <2>1, <2>2, Elsewhere
<1>5. CASE P!PhyLookupFails
  <2>1. /\ UNCHANGED <<parts, side, torn>> /\ pc \in {"phy", "phyext"}
        /\ \/ missing' = missing \cup {"phy"} /\ pc' = "put"
           \/ missing' = missing /\ pc' = "phyext"
           \/ pc' = "idle" /\ outcome' = "failed"
    BY <1>5 DEF P!PhyLookupFails, P!NoPhy, P!Goes, P!Ends, P!ends
  <2>2. PagesKnown'
    BY <1>1, <2>1, PageStays DEF Paging
  <2>3. CASE pc' = "idle" /\ outcome' = "failed"
    BY <1>1, <2>2, <2>3, Elsewhere
  <2>4. CASE \/ missing' = missing \cup {"phy"} /\ pc' = "put"
             \/ missing' = missing /\ pc' = "phyext"
    <3>1. verb \in P!LinkVerbs
      BY <1>1, <2>1 DEF StepsFit, LinkSteps
    <3>2. PartsKnown'
      BY <1>1, <1>2, <2>1, <2>4 DEF PartsKnown
    <3> QED
      BY <1>1, <2>2, <2>4, <3>1, <3>2, Onwards DEF LinkSteps
  <2> QED
    BY <2>1, <2>3, <2>4
<1>6. CASE P!SerdesLookupFails
  <2> DEFINE paged == family.paged /\ number \in family.serdes
  <2>1. /\ pc = "serdes" /\ UNCHANGED <<parts, side, torn>>
        /\ \/ /\ missing' = missing \cup {"serdes"}
              /\ pc' = IF paged THEN "unpage" ELSE IF InPhy THEN "phy" ELSE "put"
           \/ IF paged THEN pc' = "unpagefailed" ELSE pc' = "idle" /\ outcome' = "failed"
    BY <1>6 DEF P!SerdesLookupFails, P!SerdesRead, P!SerdesPage, P!AfterSerdes, P!Goes, P!Ends,
                P!ends, InPhy
  <2>2. PagesKnown'
    BY <1>1, <2>1 DEF PagesKnown, Paging
  <2>3. CASE pc' \in {"unpagefailed", "idle"} /\ (pc' = "idle" => outcome' = "failed")
    BY <1>1, <2>2, <2>3, Elsewhere
  <2>4. CASE missing' = missing \cup {"serdes"} /\ pc' \in {"unpage", "phy", "put"}
    <3>1. verb \in P!LinkVerbs
      BY <1>1, <2>1 DEF StepsFit, LinkSteps
    <3>2. pc' = "phy" => InPhy
      BY <2>1
    <3>3. pc' = "put" => ~InPhy
      BY <2>1
    <3>4. PartsKnown'
      BY <1>1, <1>2, <2>1, <2>4, <3>2, <3>3 DEF PartsKnown
    <3> QED
      BY <1>1, <2>2, <2>4, <3>1, <3>4, Onwards DEF LinkSteps
  <2> QED
    BY <2>1, <2>3, <2>4
<1>7. CASE P!PageFails
  <2>1. /\ torn' = TRUE /\ parts' = parts \ missing'
        /\ \/ /\ pc \in {"serdes", "unpage"} /\ missing' = missing \cup {"serdes"}
              /\ pc' = IF InPhy THEN "phy" ELSE "put"
           \/ pc' = "idle" /\ outcome' = "failed"
           \/ pc' = "unpagefailed"
    BY <1>7 DEF P!PageFails, P!AfterSerdes, P!Goes, P!Ends, InPhy
  <2>2. PagesKnown'
    <3>1. side' # "copper" => side # "copper" \/ (family.paged /\ number \in family.serdes)
      BY <1>7 DEF P!PageFails, P!SerdesPage
    <3> QED
      BY <1>1, <2>1, <3>1 DEF PagesKnown
  <2>3. CASE (pc' = "idle" /\ outcome' = "failed") \/ pc' = "unpagefailed"
    BY <1>1, <2>2, <2>3, Elsewhere
  <2>4. CASE /\ pc \in {"serdes", "unpage"} /\ missing' = missing \cup {"serdes"}
             /\ pc' = IF InPhy THEN "phy" ELSE "put"
    <3>1. verb \in P!LinkVerbs
      BY <1>1, <2>4 DEF StepsFit, LinkSteps
    <3>2. InSerdes /\ powered = {} /\ parts \subseteq {"serdes"}
      BY <1>1, <2>4 DEF PartsKnown
    <3>3. parts' = {} /\ "serdes" \in missing'
      BY <2>1, <2>4, <3>2
    <3>4. PartsKnown'
      BY <1>1, <1>2, <2>4, <3>2, <3>3 DEF PartsKnown
    <3>5. pc' \in {"phy", "put"}
      BY <2>4
    <3> QED
      BY <1>1, <2>2, <3>1, <3>4, <3>5, Onwards DEF LinkSteps
  <2> QED
    BY <2>1, <2>3, <2>4
<1> QED
  BY <1>3, <1>4, <1>5, <1>6, <1>7

\* Every step keeps it.
LEMMA PortsKeep == PortsInv /\ SearchKnown /\ [P!Next]_(P!vars) => PortsInv'
<1> SUFFICES ASSUME PortsInv, SearchKnown, [P!Next]_(P!vars) PROVE PortsInv'
  OBVIOUS
<1>1. CASE UNCHANGED P!vars
  BY <1>1 DEF P!vars, PortsInv, StepsFit, PartsKnown, PagesKnown, LinkDone, InSerdes, InPhy, Down,
              Driven, Settled, P!Astray, P!Within
<1> QED
  BY <1>1, SearchKeeps, PowerKeeps, ForceKeeps, PageBackKeeps, OthersKeep, BeginsKeep, FailuresKeep
     DEF P!Next

\* Steps that read or write nothing the search depends on.
LEMMA SearchStands ==
  ASSUME PortsInv, SearchKnown, UNCHANGED <<family, number, outside, ppu, erred>>,
         pc' # "polling" /\ pc' # "phyext",
         pc' \in LinkSteps => pc \in LinkSteps,
         \/ pc' \notin {"checks", "status", "serdes", "unpage", "phy"}
         \/ pc \in {"checks", "status", "serdes", "unpage", "phy"}
  PROVE  SearchKnown'
<1>1. P!Within' <=> P!Within
  BY DEF P!Within
<1> QED
  BY <1>1 DEF SearchKnown

\* Every step keeps what is known of the search.
LEMMA SearchIsKnown == PortsInv /\ SearchKnown /\ [P!Next]_(P!vars) => SearchKnown'
<1> SUFFICES ASSUME PortsInv, SearchKnown, [P!Next]_(P!vars) PROVE SearchKnown'
  OBVIOUS
<1>0. UNCHANGED <<family, number, outside>> /\ (P!Within' <=> P!Within) /\ family \in P!All
  <2>1. UNCHANGED P!vars => UNCHANGED <<family, number, outside>>
    BY DEF P!vars
  <2>2. P!Next => UNCHANGED <<family, number, outside>>
    BY DEF P!Next, P!Begin, P!Checks, P!Status, P!PageSelected, P!SerdesFound, P!PageBack,
           P!PhyFound, P!Puts, P!SerdesWritten, P!PhyWritten, P!Control, P!Force, P!State,
           P!RgmiiRefused, P!Rgmii, P!Detect, P!Pins, P!Polling, P!Reset, P!Restart, P!Probe,
           P!PhyLookupFails, P!SerdesLookupFails, P!PageFails, P!PutFails, P!AccessFails, P!strap
  <2> QED
    BY <2>1, <2>2 DEF P!Within, PortsInv, StepsFit
<1>1. CASE UNCHANGED P!vars
  BY <1>0, <1>1 DEF P!vars, SearchKnown
<1>2. CASE P!Begin
  BY <1>0, <1>2 DEF P!Begin, P!Goes, P!glob, SearchKnown, LinkSteps
<1>3. CASE P!Checks
  <2>1. /\ pc = "checks" /\ UNCHANGED <<ppu, erred, verb>>
        /\ \/ pc' = "idle"
           \/ pc' = P!First(verb) /\ ~(P!PpuChecked /\ ~ppu)
    BY <1>3 DEF P!Checks, P!Goes, P!Ends, P!glob, P!search
  <2>2. CASE pc' = "idle"
    BY <1>0, <2>1, <2>2 DEF SearchKnown, LinkSteps
  <2>3. CASE pc' = P!First(verb) /\ ~(P!PpuChecked /\ ~ppu)
    <3>1. /\ pc' \in {"status", "detect", "state", "rgmii", "pins", "reset", "fibre"}
          /\ pc' = "status" => verb \in P!LinkVerbs
      BY <2>3, VerbsAre DEF P!First, PortsInv, StepsFit
    <3>2. verb \in P!LinkVerbs /\ family.needsPpu => ppu
      BY <2>3 DEF P!PpuChecked
    <3> QED
      BY <1>0, <2>1, <3>1, <3>2 DEF SearchKnown, LinkSteps
  <2> QED
    BY <2>1, <2>2, <2>3
<1>4. CASE P!Status
  BY <1>0, <1>4, SearchStands DEF P!Status, P!Goes, P!glob, P!search, LinkSteps
<1>5. CASE P!PageSelected \/ P!Puts \/ P!SerdesWritten \/ P!PhyWritten \/ P!Control \/ P!Force
  <2>1. /\ UNCHANGED <<ppu, erred>>
        /\ pc' = pc \/ (pc \in LinkSteps /\ pc' \in {"putserdes", "putphy", "control", "unpageput",
                                                     "put", "force", "idle"})
    BY <1>5 DEF P!PageSelected, P!Puts, P!SerdesWritten, P!PhyWritten, P!Control, P!Force, P!Goes,
                P!Ends, P!glob, P!search, LinkSteps
  <2> QED
    BY <1>0, <2>1 DEF SearchKnown, LinkSteps
<1>6. CASE P!SerdesFound \/ P!SerdesLookupFails \/ P!PageBack \/ P!PageFails
  <2>1. /\ UNCHANGED <<ppu, erred>>
        /\ \/ pc \in {"serdes", "unpage", "putserdes", "unpageput"} /\ pc' \in {"put", "unpagefailed", "idle"}
           \/ pc \in {"serdes", "unpage"} /\ pc' \in {"unpage", "phy"}
           \/ pc' \in {"idle", "unpagefailed"}
    BY <1>6 DEF P!SerdesFound, P!SerdesLookupFails, P!PageBack, P!PageFails, P!SerdesRead, P!SerdesPage,
                P!AfterSerdes, P!Goes, P!Ends, P!glob, P!search
  <2> QED
    BY <1>0, <2>1, SearchStands DEF LinkSteps
<1>7. CASE P!PhyFound \/ P!PhyLookupFails
  <2>1. /\ pc \in {"phy", "phyext"} /\ ppu' = ppu
        /\ \/ pc' \in {"put", "idle"}
           \/ pc = "phy" /\ pc' = "phyext" /\ family.functions
    BY <1>7 DEF P!PhyFound, P!PhyLookupFails, P!NoPhy, P!Goes, P!Ends, P!glob
  <2>2. pc' = "phyext" => (P!Within => erred')
    <3>1. CASE P!PhyLookupFails
      BY <2>1, <3>1 DEF P!PhyLookupFails
    <3>2. CASE P!PhyFound /\ pc' = "phyext"
      <4>1. ~P!Answers /\ pc = "phy" /\ family.functions
        BY <2>1, <3>2 DEF P!PhyFound, P!Goes, P!Ends
      <4> QED
        BY <4>1 DEF P!Answers, P!Windows, SearchKnown
    <3> QED
      BY <1>7, <3>1, <3>2
  <2> QED
    BY <1>0, <2>1, <2>2 DEF SearchKnown, LinkSteps
<1>8. CASE P!State \/ P!RgmiiRefused \/ P!Rgmii \/ P!Detect \/ P!Probe \/ P!PutFails
  <2>1. UNCHANGED <<ppu, erred>> /\ pc' \in {"idle", "unpageprobe", "unpagefailed"}
    BY <1>8 DEF P!State, P!RgmiiRefused, P!Rgmii, P!Detect, P!Probe, P!PutFails, P!Goes, P!Ends, P!glob,
                P!search
  <2> QED
    BY <1>0, <2>1, SearchStands DEF LinkSteps
<1>9. CASE P!Pins \/ P!Polling \/ P!Reset \/ P!Restart \/ P!AccessFails
  <2>1. /\ pc' \in {"idle", "polling", "restart"}
        /\ pc' = "polling" => family.needsPpu
        /\ erred' = erred
    BY <1>9 DEF P!Pins, P!Polling, P!Reset, P!Restart, P!AccessFails, P!Goes, P!Ends, P!search
  <2>2. ppu' = ppu \/ ppu' = TRUE \/ pc = "polling"
    BY <1>9 DEF P!Pins, P!Polling, P!Reset, P!Restart, P!AccessFails, P!glob
  <2>3. family.functions => ppu'
    BY <1>0, <2>2, FamiliesAre DEF SearchKnown
  <2> QED
    BY <1>0, <2>1, <2>3 DEF SearchKnown, LinkSteps
<1> QED
  BY <1>1, <1>2, <1>3, <1>4, <1>5, <1>6, <1>7, <1>8, <1>9 DEF P!Next

\* The search has not begun out of a hardware reset.
LEMMA SearchInitially == P!Init => SearchKnown
BY DEF P!Init, P!Fresh, SearchKnown, LinkSteps

\* The invariant of a port's commands, whatever port of the three families, its
\* straps, its mode and its failures: each step knows which parts were found,
\* whose PHY it was, and what was done to them. (mvport.py Ports; the helpers)
THEOREM PortsAreSound == P!Spec => [](PortsInv /\ SearchKnown)
BY PortsInitially, PortsKeep, SearchInitially, SearchIsKnown, PTL DEF P!Spec

\* A link command that ends well has done what it says to everything in the
\* port's path, or to the MAC where there is nothing in it; on an 88E6390 the PHY
\* is that of the external bus, if the read of the port's own has failed and one
\* answers there. (mvport.py Ports.link; mv6390.py _phy_at)
THEOREM LinkCommandsDoWhatTheySay == P!Spec => []LinkDoesWhatItSays
<1>1. PortsInv => LinkDoesWhatItSays
  <2> SUFFICES ASSUME PortsInv, pc = "idle", outcome = "ok" PROVE LinkDoesWhatItSays
    BY DEF LinkDoesWhatItSays, P!LinkDoesWhatItSays
  <2>1. LinkDone
    BY DEF PortsInv
  <2>2. /\ "serdes" \in P!Path <=> InSerdes
        /\ "phy" \in P!Path <=> InPhy
        /\ P!Path = {} => ~InSerdes /\ ~InPhy
    BY DEF P!Path, InSerdes, InPhy
  <2> QED
    BY <2>1, <2>2 DEF LinkDoesWhatItSays, P!LinkDoesWhatItSays, LinkDone, Down, Driven
<1> QED
  BY <1>1, PortsAreSound, PTL

\* Between commands the SERDES page is back, unless a write of the page register
\* itself was among the failures. (mv6240.py _serdes_page, _probe_fiber)
THEOREM PagesAreRestored == P!Spec => []SerdesPageIsBack
<1>1. PortsInv => SerdesPageIsBack
  BY DEF PortsInv, PagesKnown, Paging, SerdesPageIsBack, P!SerdesPageIsBack
<1> QED
  BY <1>1, PortsAreSound, PTL

\* A command never forces the MAC of a port whose PHY or SERDES it has just
\* written, nor any with the PPU stopped; it writes to no PHY outside the port's
\* path or at the broadcast address, and to another port's only on an 88E6390
\* where the read of its own has failed. (mvport.py Ports.link, refuse_broadcast;
\* mv6321.py _ports; mv6390.py _phy_at)
THEOREM CommandsKeepToTheirLayer == P!Spec => OneLayer
<1> DEFINE One == /\ pc = "force" /\ force' # force /\ verb # "auto" => powered = {} /\ P!Windows
                  /\ <<phydown, otherdown>>' # <<phydown, otherdown>> /\ pc = "putphy"
                        => "phy" \in P!Path /\ ~P!Broadcast(family, number)
                  /\ otherdown' # otherdown => erred /\ family.functions /\ pc = "putphy"
                  /\ pc = "putserdes" /\ serdesdown' # serdesdown => "serdes" \in P!Path
<1>1. PortsInv /\ SearchKnown /\ [P!Next]_(P!vars) => One
  <2> SUFFICES ASSUME PortsInv, SearchKnown, [P!Next]_(P!vars) PROVE One
    OBVIOUS
  <2>1. /\ PartsKnown /\ family \in P!All
        /\ InPhy => "phy" \in P!Path
        /\ InSerdes => "serdes" \in P!Path
    BY DEF PortsInv, StepsFit, P!Path, InPhy, InSerdes
  <2>2. pc = "force" /\ verb # "auto" => powered = {}
    BY <2>1 DEF PartsKnown
  <2>3. pc = "force" => P!Windows
    BY <2>1, FamiliesAre DEF SearchKnown, LinkSteps, P!Windows
  <2>4. pc = "putphy" => "phy" \in P!Path /\ ~P!Broadcast(family, number) /\ Settled
    BY <2>1 DEF PartsKnown
  <2>5. pc = "putserdes" => "serdes" \in P!Path
    BY <2>1 DEF PartsKnown
  <2>6. otherdown' # otherdown => (P!PhyWritten \/ P!PutFails) /\ pc = "putphy" /\ P!Astray
    BY DEF P!Next, P!vars, P!Begin, P!Checks, P!Status, P!PageSelected, P!SerdesFound, P!PageBack,
           P!PhyFound, P!Puts, P!SerdesWritten, P!PhyWritten, P!PutPhy, P!Control, P!Force, P!State,
           P!RgmiiRefused, P!Rgmii, P!Detect, P!Pins, P!Polling, P!Reset, P!Restart, P!Probe,
           P!PhyLookupFails, P!SerdesLookupFails, P!PageFails, P!PutFails, P!AccessFails, P!ends
  <2>7. otherdown' # otherdown => erred /\ family.functions /\ pc = "putphy"
    BY <2>4, <2>6 DEF Settled, SearchKnown
  <2> QED
    BY <2>2, <2>3, <2>4, <2>5, <2>7
<1>2. PortsInv /\ SearchKnown /\ [P!Next]_(P!vars) => [One]_(P!vars)
  BY <1>1
<1> QED
  BY <1>2, PortsAreSound, PTL DEF P!Spec, OneLayer, P!OneLayer

===============================================================================
