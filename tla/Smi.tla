--------------------------------- MODULE Smi ---------------------------------
(***************************************************************************)
(* Registers behind a Marvell switch (cli/marvell.py, scripts/lib/         *)
(* mv6390.py).                                                             *)
(*                                                                         *)
(* Two units stand between the probe and a PHY behind a switch, one inside *)
(* the other, each a command register with a busy bit beside a data        *)
(* register: the SMI pair at the switch's own address, which reaches the   *)
(* switch's registers, and the window in Global2, which is two of those    *)
(* registers and reaches the PHYs.  Both run on their own time.  Any frame *)
(* can fail before it is sent, and any wait can give up; the next call is  *)
(* made over whatever the last one left behind.                            *)
(*                                                                         *)
(* A register is the set of its bits that are one.  A switch at address 0  *)
(* has no SMI pair: its registers answer directly.                         *)
(***************************************************************************)
EXTENDS Integers, Sequences

CONSTANTS
    Phys,     \* registers reached by a Clause-22 command of the window
    Serdes,   \* registers reached by an address cycle and a data cycle
    Indices,  \* of the scratch space
    Bits,     \* of a register
    Given,    \* the values the caller writes
    Mask,     \* what `modify set` sets
    Tries     \* _POLL_TRIES

ASSUME SmiAssumption ==
    /\ Mask \subseteq Bits /\ Given \subseteq SUBSET Bits /\ Tries \in Nat \ {0}
    /\ Phys \cap Serdes = {} /\ Indices # {}

Places == Phys \cup Serdes
Values == SUBSET Bits
Nowhere == "nowhere"

\* What a 16-bit register can carry: a value, a busy flag, a command for the
\* window, a Clause-45 register number, or a scratch index.
Word(kind, at, v) == [kind |-> kind, at |-> at, v |-> v]
Value(v)          == Word("value", Nowhere, v)

VARIABLES
    multi,     \* the switch sits at a non-zero address
    smi,       \* SMI_CMD and SMI_DATA
    window,    \* G2_PHY_CMD and G2_PHY_DATA
    latch,     \* the register the last address cycle named
    phy,       \* what is behind the window
    scratch, pointer,
    call,      \* what the caller asked for
    status,    \* "busy", or how the last call ended
    step,      \* the access of the call's program that is under way
    frame,     \* the frame of that access
    tries,     \* polls of SMI_CMD without success
    waits,     \* reads of G2_PHY_CMD without success
    got,       \* the value last read for the caller
    left       \* history: the write a failed call may have left to the units

chip == <<smi, window, latch, phy, scratch, pointer>>
vars == <<multi, smi, window, latch, phy, scratch, pointer, call,
          status, step, frame, tries, waits, got, left>>

-----------------------------------------------------------------------------
\* Programs: a call is a sequence of accesses to the switch's registers.
Wait          == [do |-> "wait",  reg |-> "phycmd", word |-> Value({})]
Get(reg)      == [do |-> "read",  reg |-> reg,      word |-> Value({})]
Put(reg, w)   == [do |-> "write", reg |-> reg,      word |-> w]
Done          == Get("phydata")    \* a command nobody will look at again
Command(k, a) == Put("phycmd", Word(k, a, {}))

\* mutant of PhyRead: no wait between the command and its data
PhyReadHasty(a) == <<Wait, Command("read", a), Get("phydata")>>

\* mutant of PhyWrite: no wait before it
PhyWriteHasty(a, v) == <<Put("phydata", Value(v)), Command("write", a), Wait>>

\* mutant of PhyWrite: the command before its data
PhyWriteSwapped(a, v) == <<Wait, Command("write", a), Put("phydata", Value(v)), Wait>>

PhyRead(a)     == <<Wait, Command("read", a), Wait, Get("phydata")>>
PhyWrite(a, v) == <<Wait, Put("phydata", Value(v)), Command("write", a), Wait>>

AddressCycle(a) ==
    <<Wait, Put("phydata", Word("value", a, {})), Command("address", a), Wait>>
PhyReadC45(a)     == AddressCycle(a) \o <<Command("read45", a), Wait, Get("phydata")>>
PhyWriteC45(a, v) == AddressCycle(a) \o
                     <<Put("phydata", Value(v)), Command("write45", a), Wait>>

ScratchRead(i)     == <<Put("scratch", Word("index", i, {})), Get("scratch")>>
ScratchWrite(i, v) == <<Put("scratch", Word("update", i, v))>>

\* apply_modify() with "set": the value to write is made of the one read.
Modify(a, before) == PhyRead(a) \o PhyWrite(a, before \cup Mask)

Program(c) ==
    CASE c.op = "phy_read"      -> PhyRead(c.at)
      [] c.op = "phy_write"     -> PhyWrite(c.at, c.v)
      [] c.op = "phy_read_c45"  -> PhyReadC45(c.at)
      [] c.op = "phy_write_c45" -> PhyWriteC45(c.at, c.v)
      [] c.op = "scratch_read"  -> ScratchRead(c.at)
      [] c.op = "scratch_write" -> ScratchWrite(c.at, c.v)
      [] c.op = "modify"        -> Modify(c.at, got)

Calls == [op : {"phy_read", "modify"}, at : Phys, v : {{}}]
    \cup [op : {"phy_write"}, at : Phys, v : Given]
    \cup [op : {"phy_read_c45"}, at : Serdes, v : {{}}]
    \cup [op : {"phy_write_c45"}, at : Serdes, v : Given]
    \cup [op : {"scratch_read"}, at : Indices, v : {{}}]
    \cup [op : {"scratch_write"}, at : Indices, v : Given]

Writes == {"phy_write", "phy_write_c45", "modify"}   \* of the window

TypeOK ==
    /\ multi \in BOOLEAN
    /\ smi.busy \in BOOLEAN /\ window.busy \in BOOLEAN
    /\ phy \in [Places -> Values] /\ scratch \in [Indices -> Values]
    /\ pointer \in Indices /\ latch \in Serdes
    /\ call \in Calls /\ got \in Values
    /\ status \in {"busy", "ok", "failed"}
    /\ step \in 1..9 /\ frame \in 1..4
    /\ tries \in 0..Tries - 1 /\ waits \in 0..Tries - 1
    /\ left \subseteq Places \X Values

Init ==
    /\ multi \in BOOLEAN
    /\ smi = [busy |-> FALSE, cmd |-> Done, data |-> Value({})]
    /\ window = [busy |-> FALSE, cmd |-> Value({}), data |-> Value({})]
    /\ latch \in Serdes
    /\ phy = [a \in Places |-> {}]
    /\ scratch = [i \in Indices |-> {}] /\ pointer = CHOOSE i \in Indices : TRUE
    /\ call = [op |-> "scratch_read", at |-> pointer, v |-> {}]
    /\ status = "ok" /\ step = 1 /\ frame = 1 /\ tries = 0 /\ waits = 0
    /\ got = {} /\ left = {}

-----------------------------------------------------------------------------
\* The switch.

Answer(reg) ==
    CASE reg = "phycmd"  -> IF window.busy THEN Word("busy", Nowhere, {}) ELSE Value({})
      [] reg = "phydata" -> window.data
      [] reg = "scratch" -> Value(scratch[pointer])

Store(reg, w) ==
    /\ window' = CASE reg = "phycmd"  -> [window EXCEPT !.busy = TRUE, !.cmd = w]
                   [] reg = "phydata" -> [window EXCEPT !.data = w]
                   [] OTHER           -> window
    /\ pointer' = IF reg = "scratch" THEN w.at ELSE pointer
    /\ scratch' = IF reg = "scratch" /\ w.kind = "update"
                  THEN [scratch EXCEPT ![w.at] = w.v] ELSE scratch
    /\ UNCHANGED <<latch, phy>>

\* The SMI unit carries out the command it was given.
SmiRuns ==
    /\ smi.busy
    /\ IF smi.cmd.do = "write"
       THEN Store(smi.cmd.reg, smi.data) /\ smi' = [busy |-> FALSE, cmd |-> Done, data |-> Value({})]
       ELSE /\ smi' = [smi EXCEPT !.busy = FALSE, !.cmd = Done, !.data = Answer(smi.cmd.reg)]
            /\ UNCHANGED <<window, latch, phy, scratch, pointer>>
    /\ UNCHANGED <<multi, call, status, step, frame, tries, waits, got, left>>

\* The window's unit carries out the command it was given.
WindowRuns ==
    /\ window.busy
    /\ LET c == window.cmd
           target == IF c.kind \in {"read45", "write45"} THEN latch ELSE c.at
       IN  /\ phy' = IF c.kind \in {"write", "write45"}
                     THEN [phy EXCEPT ![target] = window.data.v] ELSE phy
           /\ latch' = IF c.kind = "address" THEN window.data.at ELSE latch
           /\ left' = IF c.kind \in {"write", "write45"} THEN {} ELSE left
           /\ window' = [busy |-> FALSE, cmd |-> Value({}),
                 data |-> Value(IF c.kind \in {"read", "read45"} THEN phy[target] ELSE {})]
    /\ UNCHANGED <<multi, smi, scratch, pointer, call, status, step,
                   frame, tries, waits, got>>

-----------------------------------------------------------------------------
\* The caller, one frame at a time.

Access == Program(call)[step]
Asks   == <<call.at, IF call.op = "modify" THEN got \cup Mask ELSE call.v>>

\* What a failed call leaves: its own write if it came past its first wait,
\* which is also when an older one has landed.
Leaves == IF step = 1 THEN left
          ELSE IF call.op \in Writes THEN {Asks} ELSE {}

Begin(c) ==
    /\ status # "busy"
    /\ call' = c /\ status' = "busy"
    /\ step' = 1 /\ frame' = 1 /\ tries' = 0 /\ waits' = 0 /\ got' = {}
    /\ UNCHANGED <<multi, chip, left>>

\* The call is over; the caller has nothing under way.
Ends(how, value) ==
    /\ status' = how
    /\ got' = IF how = "ok" THEN value ELSE {}
    /\ left' = IF how = "ok" THEN (IF Program(call)[1] = Wait THEN {} ELSE left)
               ELSE IF Program(call)[1] = Wait THEN Leaves ELSE left
    /\ step' = 1 /\ frame' = 1 /\ tries' = 0 /\ waits' = 0

Goes(s, f, t, w, value) ==
    /\ got' = value
    /\ step' = s /\ frame' = f /\ tries' = t /\ waits' = w
    /\ UNCHANGED <<status, left>>

\* One access is done; `answer` is what a read brought.
AccessDone(answer) ==
    IF Access.do = "wait" /\ answer.kind = "busy"
    THEN IF waits + 1 < Tries THEN Goes(step, 1, 0, waits + 1, got) ELSE Ends("failed", {})
    ELSE LET value == IF Access.do = "read" THEN answer.v ELSE got
         IN  IF step < Len(Program(call)) THEN Goes(step + 1, 1, 0, 0, value)
             ELSE Ends("ok", value)

\* _wait() over SMI_CMD.
Poll ==
    /\ frame \in (IF Access.do = "write" THEN {1, 4} ELSE {1, 3})
    /\ IF ~smi.busy
       THEN IF frame = 4 THEN AccessDone(Value({}))
            ELSE Goes(step, frame + 1, 0, waits, got)
       ELSE IF tries + 1 < Tries THEN Goes(step, frame, tries + 1, waits, got)
            ELSE Ends("failed", {})
    /\ UNCHANGED chip

PutData ==
    /\ Access.do = "write" /\ frame = 2
    /\ smi' = [smi EXCEPT !.data = Access.word]
    /\ Goes(step, 3, 0, waits, got)
    /\ UNCHANGED <<window, latch, phy, scratch, pointer>>

PutCommand ==
    /\ frame = IF Access.do = "write" THEN 3 ELSE 2
    /\ smi' = [smi EXCEPT !.busy = TRUE, !.cmd = Access]
    /\ Goes(step, frame + 1, 0, waits, got)
    /\ UNCHANGED <<window, latch, phy, scratch, pointer>>

Fetch ==
    /\ Access.do # "write" /\ frame = 4
    /\ AccessDone(smi.data)
    /\ UNCHANGED chip

\* A switch at address 0: one frame is the whole access.
Direct ==
    /\ IF Access.do = "write"
       THEN Store(Access.reg, Access.word) /\ UNCHANGED smi
       ELSE UNCHANGED chip
    /\ AccessDone(Answer(Access.reg))

\* A frame the probe could not send: OSError out of the transport.
FrameFails == Ends("failed", {}) /\ UNCHANGED chip

Frame ==
    /\ status = "busy"
    /\ \/ multi /\ (Poll \/ PutData \/ PutCommand \/ Fetch)
       \/ ~multi /\ Direct
       \/ FrameFails
    /\ UNCHANGED <<multi, call>>

Next ==
    \/ \E c \in Calls : Begin(c)
    \/ Frame
    \/ SmiRuns
    \/ WindowRuns

Spec == Init /\ [][Next]_vars

-----------------------------------------------------------------------------
\* A call that returns did what it was asked: what it read is what is there,
\* what it wrote has arrived, whatever earlier calls broke off in the middle.
\* (phy_read, phy_write, apply_modify; the re-purposed fields of Clause 45.)
AnswersAreOurs ==
    status = "ok" =>
        CASE call.op \in {"phy_read", "phy_read_c45"}   -> got = phy[call.at]
          [] call.op \in {"phy_write", "phy_write_c45"} -> phy[call.at] = call.v
          [] call.op = "modify"        -> phy[call.at] = got \cup Mask
          [] call.op = "scratch_read"  -> got = scratch[call.at]
          [] call.op = "scratch_write" -> scratch[call.at] = call.v

\* Neither unit has its command or its data replaced while it works: only the
\* unit itself ends a busy phase.  (The wait in front of every access, _wait.)
NothingIsOverrun ==
    [][/\ smi.busy /\ smi' # smi => ~smi'.busy
       /\ window.busy /\ window' # window => ~window'.busy]_vars

\* A register behind the window changes to nothing but what the call in
\* progress writes there, or what the one failed call before it had already
\* handed over; and no change is made twice over, or to bits a modify leaves
\* alone.
WritesAreAsked ==
    [][\A a \in Places : phy'[a] # phy[a] =>
         \/ <<a, phy'[a]>> \in left
         \/ /\ status = "busy" /\ call.op \in Writes /\ <<a, phy'[a]>> = Asks
            /\ call.op = "modify" => phy'[a] \ Mask = phy[a] \ Mask]_vars
=============================================================================
