# mdioprobe: verification development

TLA+ models of the mdioprobe firmware (`src/`), TLC configurations that check them on small instances, and
theorems about them that TLAPS checks for every value of the constants. `PROJECT.json` lists the components,
runs, mutants, findings, hazards and theorems, and maps each definition to the lines it models.

Contents: [the system](#1-the-system), [modules](#2-modules-and-how-they-correspond-to-the-code),
[runs and bounds](#3-runs-bounds-and-fairness), [proofs](#4-proofs), [findings](#5-findings),
[what is not modelled](#6-what-is-not-modelled), [plan](#7-plan).

## 1. The system

mdioprobe is an MDIO probe on an STM32G474 under Zephyr. It captures a Clause-22 bus without touching it, and
it can drive one. A MicroPython CLI runs on top, which also knows how to reach, name and operate switches and PHYs;
its command database is generated on a host, and files are put on it from one.

### Who runs when

Everything below rests on these facts about scheduling, which are read off the code.

| actor | runs | priority |
| --- | --- | --- |
| interpreter (`main`) | MicroPython; the only caller of `mdioprobe_api.h` | thread, 0 |
| detector (`bus_thread`) | a poll every 200 ms | thread, 5: only when the interpreter blocks |
| system work queue | `blink_work`, `buffer_release_work` | cooperative, -1: preempts both threads |
| supply tick (TIM6) | 20 kHz zero-latency interrupt | masked only by `vreg_isr_lock()` |
| capture DMA | fills a ring, never waits | hardware |

The interpreter blocks only in sleeps (waiting for the supply or for a frame) and on the console. Kernel
interrupts, and with them the work queue and both threads, are locked out during a frame and a timing run.
The Python code is one thread of control, in the interpreter. What makes it hard is not interleaving but failure:
every access to the wire and to the volume can raise, Ctrl-C and a closed port break in, the probe can be unplugged,
and the devices at the other end (a switch's busy units, a PHY's paging, the REPL that is typed into) keep the state
an earlier command left in them.

### Components

| component | state | operations | hard behaviour | what makes it correct |
| --- | --- | --- | --- | --- |
| Target detector (`bus.c`, level reading in `adc_dac.c`) | status, forced rail, two streaks, inhibit depth | poll, `force_level`, `inhibit`, `get_status` | a poll spans 64 blocking conversions while the caller forces rails and transacts; the indication is set after the unlock | presence settles on the truth and is a two-poll debounce; a stale rail or indication is replaced |
| Supply (`vreg.c`) | regulator state, setpoint, gate, integrator, trip counter, gains | tick, `set_target`, `shutdown`, gains, margin | interrupt against multi-field updates; clamped fixed-point arithmetic; a latch that must neither trip early nor miss | gate follows state; ramps end; a trip is earned, and comes; the caller sees OFF, ramp, rail, latch |
| MDIO master (`mdio_master.c`) | buffer flag and pin, lock, delayed work, calibration | read, write, set and measure clock, release | the release may fire in the middle of anything | no frame without its buffer; the bus is given back (that timing stays off the wire is said of it and does not hold, see 5) |
| Connector (`serial.c`) | personality, two shared pads | `set_mode` | fails half way | one personality (that it has its pads does not hold, see 5) |
| Capture (`mdio_api.c`, section 3 of `api.c`) | ring, cursor, framing offset, session | start, stop, next, resync | a writer that never stops, known modulo the ring; guessed framing | what is delivered is whole, forwards, once; calls return |
| Status LED (`led.c`) | layers, current pattern, blink work | raise and drop layers | three contexts, no lock; tails that run out by themselves | a transaction is seen; held layers get their pattern, until two calls cross (see 5) |
| Probe layer (`api.c`) | threshold, capture flag, and the state of all of the above | transactions, timing probes, supply, rail, capture and connector calls | checks followed by waits, then use | a frame at one rail, from a supply that is there, over no latched fault, on a wire that is the master's |
| Switch register access (`marvell.py`, `access.py`, `cmd_mdio.py`, the Clause-45 calls of `scripts/lib/mv6390.py`) | a switch's SMI unit and PHY window; a PHY's page, extension and MMD selectors | read, write, modify, in six addressing modes | several frames per access, each of which may fail, over what the last failure left | a call that returns did what it was asked; no unit is overrun; an indirect access comes out where it was meant to, an MMD one if no page was left selected |
| Switch ports (`mvport.py`, `scripts/lib/mv6*.py`) | straps, PHY detection, forced link, power-down bits, SERDES page | up, down, auto, detect, state, rgmii, extbus, reset, probe | up to two parts per port; lookups that fail as "absent" or as an error, or go on to another bus; a bus that answers ones | a command that ends well did what it says, on one layer, to the PHY its lookup found; the page is put back |
| Identification (`cmd_probe.py`, `gen_chipdb.py`) | the driver table, a part being read | lookup, identify, probe, probe mmd | records overlap; the rail blinks between two halves of an identifier | the most specific name; a helper is told the truth |
| Command shell (`shell.py`, `output.py`, `cmd_sys.py`, `extend.py`, `monitor.py`, `parser.py`) | registry, loaded helpers, nested lines, redirection, host | run a line, exec, use, redirect, watch | nesting unwound by failures; a volume that fills up; a host that comes and goes | registry and output unwind; a failure stops every exec; a host gets a prompt |
| Files (`cmd_edit.py`, `cmd_files.py`, `_boot.py`) | the volume, the editor's lines | edit, copy, move, rm, format, mount | any step fails, or is the last before the probe is unplugged; a full volume drops writes without an error | a whole text survives, but for four named causes; a mounted volume has a filesystem |
| Host tools (`tools/upload.py`) | transfer, REPL, file | type a file into the REPL, check it | a wire that loses characters; prompts that are late | a transfer ends, and one reported good is |
| MDC measurement, framing timers, reset, USB and volume ownership, binding, formatting commands, build scripts | see `PROJECT.json` | | | left out or planned, see 6 and 7 |

Interactions: the probe layer calls all the others. The master brackets its frames with the detector's
inhibit and the LED's layer; the connector releases the master before it hands the pads over; the detector and
the probe layer both drive the LED. The supply talks to nobody: it is polled. The commands reach a register through a
mode (`access.py`), which is a sequence of accesses on a bus, which is the probe layer's frames or a switch's window
(`marvell.py`); a port operation (`mvport.py`) asks its family's helper for the parts of a port and writes to them
through the same window. Helpers enter the registry when they are loaded. The shell hands `Output` to every command.

## 2. Modules and how they correspond to the code

One step of a model is the longest stretch of code nothing else can get into. An API call under a lock, or in
the interpreter without blocking, is one action; where a thread, the work queue or an interrupt can intervene
and it matters, the call is split and a `pc` says where it is. History variables are marked in the
declarations; no action reads them in its guard.

| module | what it is | extends / instantiates |
| --- | --- | --- |
| `Debounce` | abstract: presence changes only when two polls agree, and then it does | |
| `Bus` | the detector | `INSTANCE Debounce` |
| `Supply` | abstract: OFF, SOFTSTART, ON / PASSTHRU, FAULT and the target, as the rest of the firmware sees them | |
| `Vreg` | the regulator | `INSTANCE Supply` |
| `Master` | the MDIO master with the connector it shares pads with | |
| `Capture` | the DMA ring, the reader and the session | |
| `Led` | the status LED | |
| `Probe` | the probe layer: what an API call does with detector, supply, connector and capture together | `INSTANCE Supply` |
| `Smi` | registers behind a switch: the SMI pair, the Global2 window in both clauses, the scratch space | |
| `Modes` | the addressing modes and their cleanup | |
| `Identify` | from driver elements to a name | |
| `Families` | what differs between the three switch families | |
| `Ports` | port operations | `Families` |
| `MCAccess` | units, modes and port operations, each on its own | `Smi`, `INSTANCE Modes`, `INSTANCE Ports` |
| `Console` | the shell: loop, exec, redirection, helpers | |
| `Volume` | files: editor, copy, move, rm, format, boot | |
| `Upload` | the transfer of a file through the REPL | |
| `Scan` | functions on text: comments, initialisers, command lines | |
| `MCShell` | the four above and `Identify`, each on its own | `Volume`, `INSTANCE Console`, `Upload`, `Scan`, `Identify` |
| `Bus_proofs`, `Vreg_proofs`, `Master_proofs`, `Capture_proofs`, `Led_proofs`, `Probe_proofs` | theorems | each extends its module |
| `Access_proofs` | theorems on `Smi`, `Modes`, `Ports` | `MCAccess` |
| `Shell_proofs` | theorems on `Console`, `Volume`, `Upload`, `Identify`, `Scan` | `MCShell` |

**Bus.** `PollBegin` is the inhibit check, `Readings` what a burst of conversions can return for a line level
with some samples spoilt by traffic, `BurstDone`/`BurstFails` the end of the 64 conversions, `Update` the part
under the mutex, `LedArgument` the argument computed after the unlock, `LedSet` the call. `ForceLevel` is the
whole call, the update of the status and the indication included. `WireMoves` is the target. The burst is
abstracted to its result: the level the cluster sits at and whether the cluster is large enough.

**Vreg.** `Tick` is the interrupt in three cases taken from its early returns: `TickTrips`, `TickParked`,
`TickRegulates` with the ramp (`TickRamps`, `TickArrives`). Calls run with the tick masked and are one step.
The PI loop is modelled with its Q16 shift, its floor, both clamps and the 32-bit wrap of `gain_to_q16()`;
the output stage is nondeterministic within what a pass element that only sources can do. That the calls have the
interrupt lock is taken from the code: `StaysInStep` and `KeepsSupplyPromise` would not notice if one forgot it.

**Master.** A transaction goes through `lock`, `buffer`, `settle`, `arm`, `ready`, `frame`, `stamp`; the work
item's handler (`ReleaseFires`, `ReleaseResumes`) takes the mutex, may block on it, rechecks how old the last
use is, and drops the buffer or puts itself off. `TimePasses` moves all deadlines together. `SetMode` runs
`cancel`, `drop`, `park`, `switch`, each of which may fail as the code may. Time is counted in ms from now
(`age`, `due`), so that the uptime itself does not appear. The model has no bits: a frame is one interval.

**Capture.** Bytes are named by their position in the stream, so the content of the ring follows from how much
was written (`At`). The program sees the total only modulo the ring (`Head`). `Look` is one pass of the read
loop, case by case (overrun, full scan, skip, quick look, give up, wait); between a look and the read of its
four bytes up to `Slack` bytes land. Whether four bytes that are not a frame pass the Clause-22 test is
nondeterministic (`Passings`); a frame always passes.

**Led.** A call changes a layer, then goes through the points of `refresh()` and `restart()` at which the work
queue can get in. `Handler` is the work item, which nobody preempts. Deadlines are counted from now and
compared as the code compares them, as an `int32_t` difference (`Signed`). The interpreter may wake inside any call of
the detector and then runs its own to the end first. A call of its that changes a layer after the detector's has resolved
its pattern has *crossed* it: `crossed` (a history) says so until a pattern has been started anew, by the handler between
calls or by the interpreter alone. The delayed release of `Master` runs on the same queue and may block it on
`master_lock`; whoever holds that lock is in no call of the LED, so the LED's work is not late for them.

**Probe.** Instead of the regulator it takes the abstract `Supply`, which `Vreg` is shown to implement, and
instead of `Bus` a detector that publishes any rail or none at every poll. A transaction goes through `supply` (the
fault check), `retarget`, then `look` and `sleep` in turn, and `frame`. The detector's thread is of lower priority than
the interpreter, so it polls between calls and in the sleeps only, and not while inhibited; the supply's interrupt comes
at any point, so that a trip can fall between a look and what follows from it. The rail that the threshold is set from is
the one the supply is sent to, since nothing can change it between the two looks. `ramp` counts the sleeps a ramp has
outlasted: it stands for time, which the supply's own model counts in ticks. `master_xfer()` and
`mdioprobe_c22_probe()` have the same interlocks and are one family of actions, as are reads and writes.

**Smi.** A step is one frame, or one access where there is no SMI pair (`multi` false). A call is a program of reads and
writes of the switch's registers (`Program`), each of which waits for the SMI unit (`Poll`, at most `Tries` times), puts
data and command (`PutData`, `PutCommand`), and fetches. The two units run by themselves (`SmiRuns`, `WindowRuns`).
A frame fails before it is sent (`FrameFails`): the call is over, and the units stay as they are. A register is the
set of its bits. `left` is what a failed call had already handed over.

**Modes.** Page, extension and MMD selectors of a part, moved by the writes of `wrap()`'s modes; an access fails, and
behind a switch a failed write may have arrived (`behind`). What is checked is where an access comes out (`reached`).
0x0D and 0x0E are what they are only while no page is selected (`Unpaged`); under one they are other registers.

**Identify.** A driver element is the pattern, mask and name the generator found; `Recorded` are those it can use, and
`table` is one of `Tables`, their records sorted by identifier, mask and name. `LookupPhy` scans it. Numbers are sets of
bits. The readers (`identify`, `probe`, `probe mmd`) go
through registers 2 and 3 while the rail blinks and the part may be exchanged.

**Ports.** One port, a command at a time, one access after the other; a list of ports is that command once for each.
`cmode`, `nocpu` are the straps; `detect`, `force`, `delay`, `phydown`, `serdesdown`, `page`, `ppu`, `normal` the registers'
bits. `Families` holds the C_Mode matrices and the checks each helper makes before a port operation. The lookup of a PHY
goes as `_phy_at()` of each family does: the 6390's looks on the internal bus (`pc` "phy"), and if the read fails or nothing
answers, at the same address of the external one ("phyext"); `outside` says that a PHY answers there that is not the
port's, `otherdown` is its power-down bit, `func` where the lookup ended.

**Console.** `calls` is the stack of `run_line()` under `exec`; `to` of a call is its redirection. `ExecLine`, `Sweep`,
`Use`, `LoadWorks`, `LoadFails` are commands that keep state, `Plain` every other. `checks` is the counter of
`out_of_room()`. `HostOpens`, `HostCloses` are the port; `ReadEnds` the end of input, which is Ctrl-D or the port.

**Volume.** A file holds a whole text, a cut one, or is missing. `job` is the command in progress, step by step: a save
copies to the backup, opens (which empties the file) and writes; a move copies and removes. Every step may fail, and
`Reboots` may come at any point. Any write may be dropped, or the rest of it, without an error (`Landed`): the volume may
always be full. `excuses` (a history) collects what goes wrong that the code does not look into: `"half"`, a save begins on a
file that is not whole; `"unseen"`, `os.stat()` fails on a file that is there, and the copy aside is skipped; `"dropped"`,
what is copied is lost; `"wiped"`, a boot cannot mount the volume and formats it.

**Upload.** `Lines` are what the host types: the file `Data`, cut into `Chunks` pieces of `Size`, each written by a line
of its own (`Upto` is where a piece ends), between a line that opens it and lines that close and check it; characters are lost on the wire, so that a line arrives mutilated, whole
or without its end (`GoesDeaf`). The host waits for a prompt, and may take a late one for it (`Stale`).

**Scan.** `StripComments`, `SplitArgs`, `SplitElements`, `Tokenize`, `SplitRedirect` are the Python functions, loop for
loop. What they keep of a text is the set of positions they keep. The references say the same thing in another way: a
lexer that looks at one character and remembers what it is in (`Enters`, `InComment`), and the numbers of brackets and
of quotes before a place (`Count`).

## 3. Runs, bounds and fairness

| run | shows | bounds, and why they are enough |
| --- | --- | --- |
| `bus` | `SettledPresence`, `PresenceIsDebounced` (refinement), `StaleRailIsReplaced`, `LedFollowsDetector` | four line levels: none, two rails (which overlap neither in tolerance nor name), and a level between rails; bursts of 4 with up to 2 spoilt samples, so that a burst may or may not find its cluster |
| `vreg` | `StaysInStep`, `TripNeedsAFullRun`, `ShortIsLatched`, `KeepsSupplyPromise` (refinement) | 5 ADC codes, 3 gate codes with a fractional bit, a trip after 2 ticks, 3 targets: below the minimum, regulated, pass-through; gains on both sides of the wrap at `Word` |
| `master` | `FrameIsBuffered`, `BufferIsAccounted`, `SeriesKeepsTheBuffer`, `OnePersonality`, `CallsReturn` | a linger of 4 ticks and a settle time of 1, so that a release can come due at every point of the next call; 2 trim rounds |
| `capture` | `FramesAreOfAPiece`, `NothingIsReplayed`, `ScanLocksOnAFrame`, `NextReturns` | a ring of 4 slots, the least with which the overrun margin leaves a slot to read; 20 bytes, more than a lap; one torn frame at any byte; an open and a counted session; `Slack` 8 |
| `led` | `TailIsVisible`, `ShowsTheTruth`, `StreamBlinks` | a hold of 2 ticks against half periods of 1 and 2, so that tails run out before, at and after a run of the work; 2 activities at a time, nested or side by side; tails followed a tick past their end; the interpreter inside any call of the detector |
| `probe` | `ThresholdMatchesSupply`, `SupplyIsAwaited`, `FaultIsKept`, `WireIsOwned` | a rail that is regulated and one that is passed through; requests below the range, between the rails and in pass-through; a ramp of up to 2 sleeps in a wait of 4 looks (6 in 40 in the code) |
| `access` | `AnswersAreOurs`, `NothingIsOverrun`, `WritesAreAsked`; `IndirectAccessIsExact`, `ExtensionIsClosed`; `LinkDoesWhatItSays`, `SerdesPageIsBack`, `OneLayer` | 2 polls before a wait gives up; registers of 2 bits, two of them behind Clause 45, one behind Clause 22, one scratch index; 2 register numbers, pages and devices; nine ports that differ in what can be in their path, an internal one of each family among them, with and without another PHY at the address on the external bus; one C_Mode of each kind (7, 9, 10, 15); any access may fail, again and again |
| `shell` | `RegistryIsTrue`, `OutputIsInOrder`, `FailureStopsAll`; `FilesSurvive`; `TransferIsHonest`; `TextIsTakenApart`; `PartsAreNamed`; `WaitsEnd` | exec nested to 3, files of 2 lines, loops of 2 sweeps, the space asked for every 2 sweeps with a floor of 2; one redirection target; two helpers, one of two commands; 2 texts, one other file; any write dropped, any mount failed; a file of 5 bytes in chunks of 2 over 3 earlier contents (one equal in length and sum), 1 late prompt; texts of up to 5 characters over three alphabets, long enough for a comment that opens and closes, a quote with an escape, and two commas around a bracket (with 6 the run agrees); driver tables of up to 2 of 9 elements, which match by each mask, overlap, have bits outside the mask or did not resolve; identifiers of 4 bits |
| `capture_torn`, `led_race`, `port_astray`, `edit_backup` | one property each, violated: see 5 | |

`access` and `shell` put parts that do not interact side by side: `layer` (the window, the scratch space, the modes, the
ports) and `part` say which one moves, and the others stay where they start. The theorems are about each part's own
specification. Type invariants and the parts of `StaysInStep`, `BufferIsAccounted` and `SupplyIsAwaited` are
stated in their modules and proved (section 4); the runs check the conjunctions.

Bounds that are not the code's own: `MaxBytes`, `MaxTorn`, `Lookalikes`, `Counts`, `Timeouts`, `Overrides`
(Capture), `Requests` (Probe), `Tries` (Smi; the code has 16), `Depth`, `MaxLines`, `Room` (Console), `Stale` (Upload), `Longest` (Scan), `Overshoot` and the request sets (Vreg), `Levels` and `MaxSpoilt` (Bus), `MaxDepth` and `Idle` (Led).
`Slack` is an assumption about speed: the read of four bytes follows the look within two frames of bus time,
which the code's own margin of two slots takes for granted. `RampPolls` in Probe is one, too: a ramp of the code's step width is over after 26 ms at most
(`RampAdvances` bounds it in ticks), six sleeps. Once `MaxBytes` have arrived the bus is quiet.

No run switches deadlock checking off: in each system something can always happen (time, a tick, a poll, a next command),
or a step that changes nothing says that the matter is over (`MCOver`).

Fairness, and what justifies it:

- Bus: `WF(Poll)`. The thread loops for ever, and no caller keeps the CPU for good. Callers, traffic and
  the target owe nothing.
- Vreg: `WF(Tick)`. A hardware timer. `ShortIsLatched` assumes nobody calls any more, that the short lasts, the
  integrator has a gain and the watchdog a threshold (a margin above the target disables it).
- Master: `WF(Continue)`, a call in progress goes on; `WF(Handler)`, the work queue runs; `WF(TimePasses)`.
- Capture: `WF(Reader)`. The bus and the caller owe nothing; the sleeps of the read loop end.
- Probe: none; its properties are about safety.
- Led: a call in progress goes on, due work runs, time passes. Nobody has to call. `ShowsTheTruth` and `StreamBlinks` except
  runs in which crossing calls left no work pending for good (`LeftBehind`), and `TailIsVisible` the older pattern that a
  crossed call of the detector still puts on the pins; TLC refutes each without its exception.
- Smi, Modes, Identify, Ports, Volume, Scan: none; their properties are about safety.
- Console: `WF(Shell)`, the interpreter goes on while a line runs, waits for a host or recovers. The operator owes nothing,
  the host may come and go, and a watching loop is bounded by its sweeps.
- Upload: `WF(Sends \/ Concludes \/ TimesOut)`. The host's reads have time limits (`read_until`). The device owes nothing.

Each property of a passing run has a mutant: an operator before the one it stands for, marked with a comment
`mutant of X`, that changes it as a plausible bug would. With the mutant in place TLC refutes the property.

## 4. Proofs

All theorems hold for every value of the constants the module's `...Assumption` allows. In modules with several parts
a theorem is about the specification of one part (`Spec` of `Smi` or `Volume`, `M!Spec`, `P!Spec`, `C!Spec`, `U!Spec`, `N!Spec`, `T!Spec`). Each follows one
scheme: an invariant `IInv` holds initially, every action preserves it (a lemma per group of actions, one case per
action), and it implies the property; TLC checked each part of `IInv` before.

- `Bus_proofs`: `TypeCorrect`; `PresenceSettles`; `DetectorDebounces`, the refinement of `Debounce`. Two settled
  polls say nothing by themselves: the invariant adds what one undisturbed poll has already shown in the streaks
  (`StreaksFollowTheLine`), and that an undisturbed burst returned what the line holds (`CleanMeansClean`). The
  refinement needs a relation between streaks and the last two verdicts (`StreaksAreTheHistory`).
- `Vreg_proofs`: `TypeCorrect`, `GateIsWhereTheStateSays`, `SetpointBounded`, `RampBounded`, `TripIsEarned`;
  `StepIsKept`, all of these together; `RegulatorIsASupply`, the refinement of `Supply`. The invariant adds that target, code and state agree
  (`TargetAgrees`) and that the trip counter never exceeds the run of low ticks it counts (`RunCounts`). That the
  integrator keeps its width is proved through the clamps, for all gains and margins.
- `Master_proofs`: `TypeCorrect`, `FramesAreBuffered`, `FlagIsTruthful`, `ReleasesArePaired`, `BusIsGivenBack`, `BufferAccounted`,
  `PersonalityIsUnique`, `SeriesIsUnbroken`. The invariant says, for every point of a call, who holds the lock,
  whether the buffer is known to be up or down, whose the pads are, whether a release is pending, and that the
  age the handler measures is never more than the real quiet (`AgeIsHonest`).
- `Capture_proofs`: `TypeCorrect`, `SessionsAreConsistent`, `PiecesAreWhole`, `DeliveryIsForwards`, `ScansLock`, for every
  size of the ring. The reader knows positions modulo the ring only; the invariant (`ReaderPlaced`) says that
  *some* lap puts its cursor at a place of the stream consistent with what it measured, and that a decision to
  read leaves a margin the bytes in flight cannot use up. A lap that goes unnoticed changes the witness, not
  the invariant. The lemmas on division by a symbolic number
  come first.
- `Led_proofs`: `TypeCorrect`, `PatternsAreAttended`, `TailsAreVisible`, with the interpreter waking inside any call of the
  detector, **assuming** that no activity ended more than half the uptime's range ago (section 5 has what happens then). What
  is proved has the exception that the properties name: a call of the detector that was crossed. The invariant says that
  what a call in progress has resolved still stands if it is static, since time takes only blinking layers away
  (`StaticStands`), for every call that can be trusted: the interpreter's, which nothing but the handler gets into, and the
  detector's as long as none has crossed it (`Trusted`, `InTurn`).
- `Probe_proofs`: `TypeCorrect`, `OneRailPerFrame`, `FramesAfterTheRamp`, `LatchSurvivesTransactions`, `NoTimeout`,
  `SupplyAwaited`, `WireHasOneOwner`, for every supply range, every set of rails within it, and every wait that is two looks longer
  than a ramp. The invariant says that from the first look on threshold, rail and target are of a piece
  (`RailIsSet`, `SupplyIsSent`), and that the wait never runs ahead of the ramp it waits for (`WaitFollowsRamp`).
- `Access_proofs`, on `Smi`: `SmiIsSound`, `SmiTyped`, `CallsAnswerForThemselves`, `UnitsAreLeftAlone`,
  `WritesAreTheCallers`, for any number of PHYs, polls and bits. No unit knows whose command it is at, and a call may begin
  over what any number of failed ones left. The invariant annotates each operation as one annotates a program: `Held`
  says what is true of window, latch and PHY before each access of the call, `FrameKnown` how far the access under way
  has come within the SMI pair, and `Truthful` that what the pair read of the window is still so. The rest is about what
  a failed call left in the units: a store that is still to come fits what it was given and does not find the window at
  work (`StoresFit`), and while a call has not reached the units itself, it is one that an earlier call had handed over
  (`LeftIsKnown`), so that a late store is a write somebody asked for.
- `Access_proofs`, on `Modes`: `ModesAreSound`, `ExtensionSpaceIsClosed`, `DataAccessIsExact`, for every set of numbers
  of pages and registers (page 0 and page 7, the extension space, are values of their own). The invariant lists,
  mode by mode, which selectors the accesses so far have put where; an extpage access on its way, a lost write and a caller who
  asks for page 7 by number are the only ways to an open extension space. For MMD accesses, whose program does not write
  0x1F, it says where they are under no page; the property has that premiss.
- `Access_proofs`, on `Ports`: `PortsAreSound`, `LinkCommandsDoWhatTheySay`, `PagesAreRestored`,
  `CommandsKeepToTheirLayer`, for every port of the three families and every C_Mode. The invariant ties each step to the commands
  it is a step of (`StepsFit`), what was found and powered to the port's path (`PartsKnown`: every part of the path is found
  or recorded as missing before anything is written; everything found is powered before the MAC is touched), and page 1 to
  the steps that put it back (`PagesKnown`). `SearchKnown` adds where the search for a PHY has been: the external bus
  is searched apart only on an 88E6390, and there for a port with an internal PHY only after a failed read of that one.
- `Shell_proofs`, on `Console`: `ShellIsSound`, `RegistryStaysTrue`, `OutputStaysInOrder`, `FailureStopsEveryExec`, for every
  depth of nesting, set of helpers and room, **assuming** that a helper registers no name the firmware has, as the helpers
  of the repository do not. `OutputIsInOrder` looks at the innermost redirection, but a line that ends restores what was there when it
  began: the invariant says for *every* line of the stack that what it will put back is where the lines
  around it send output (`Chain`, and the lemmas `Pushes` and `Pops`). `Registry` says that the modules loaded divide the
  names between them, `Filling` that a loop is never more sweeps past the floor than its counter shows.
- `Shell_proofs`, on `Volume`: `SavesAreSafe`, `MovesAreSafe`, `FilesAreSafe`, `MountsAreFormatted`, `LinesStayChanged`, for
  every set of texts and of files, whatever writes the volume drops, **assuming** only that no text is mistaken for a missing
  or cut one (`Sound`). Each says which of the four `Excuses` it takes to lose a text (a move: a dropped copy or a format at
  boot), and `LinesStayChanged` that lines the volume dropped become clean, but over a whole backup. That a text survives is not inductive: the
  invariant says where it is at every step of a save and a move (`OldIsSomewhere`, `MovedIsSomewhere`), and what a
  command in progress has already found out about the files it works on (`JobKnown`, `EditorKnown`).
- `Shell_proofs`, on `Upload`: `TransferIsSound`, `ReportsAreTrue`, for every file, size of chunk, earlier content and number of late prompts.
  The check compares length and sum only, and yet a good report means the same bytes: the
  invariant (`ContentKnown`) says that what is on the volume is never longer than what the lines executed so far have typed,
  and *is* what they have typed where it is as long. A piece that goes missing can so never be made up for. The
  pieces are joined by the lemmas on `Upto`, which need division by a symbolic size. `VouchedFor` adds that a good
  answer can only be the last line's.
- `Shell_proofs`, on `Identify`: `NamingIsSound`, `PartsGetTheirNames`, for every set and order of driver elements, width of
  an identifier, and set of parts. The invariant says that a half that has been read is of the part that is still there (`HalfRead`), and
  that a name is the lookup's (`Looked`). What a lookup returns is shown by induction
  over the table: after k records the best so far is a fitting one that no earlier fitting one has more bits than
  (`LookupIs`), and every usable element has a record in it (`TableIs`).
- `Shell_proofs`, on `Scan`: `TextsComeApart`, for texts of any length over any characters. Each loop is
  taken as the run it is, and the invariant says what it has found after k characters. *Comments*: the loop is only ever at
  a place where the reference lexer is in no block comment and no literal, and at the end of a line one (`AtPiece`), and what it takes in one go (`BlockIs`,
  `LineCommentIs`, `LiteralIs`, `CharacterIs`) is of one kind throughout; so the two agree everywhere (`StripIs`).
  *Initialisers*: the pieces ended so far are *all* places between commas at depth 0 (`ArgsAre`), from which it follows that
  they cover the text, are apart and lose nothing. *Command lines*: in a line with one kind of quotes one is inside them after
  an odd number (`WithinIs`); words and the word being read are parted by a space outside quotes (`Parted`).

Two steps carry these inductions, since the library's induction theorems take an operator and cannot be used: every set of
natural numbers that is not empty has a least element (`LeastNumber`, from the well-foundedness of finite subsets), so that a
set with 0 and every successor is all (`Induction`); and a function that is given by its first value and a step exists and
stays among the states the step is between (`RunExists`, `RunIs`).

The assumptions on constants that these theorems rest on (`SmiAssumption`, `ModesAssumption`, `PortsAssumption`,
`ConsoleAssumption`, `UploadAssumption`, `IdentifyAssumption`) are stated in the modules or for their instances in the `MC` modules, and TLC
evaluates them. They say that registers behind the two clauses differ, that there is a scratch index, that values used as
markers (no page, the extension space, nobody, the firmware, the screen) are not members of the sets they mark, that ports
belong to the three families, that no part has an identifier of all ones or all zeros, and that counts are natural numbers.

In two definitions more than one arm of a CASE could apply, which leaves open which one is taken (TLC takes the first):
where the loop goes when `exit` ends a nested line (`Ends`, Console), and a line without an arrow (`SplitRedirect`, Scan).
The proofs found the first. Both follow the order of the code's tests now.

Only model-checked is liveness (`StaleRailIsReplaced`, `LedFollowsDetector`, `ShortIsLatched`, `CallsReturn`, `NextReturns`, `ShowsTheTruth`,
`StreamBlinks`, `WaitsEnd`), which needs ENABLED and so is beyond the prover.

Every other property of a passing run is a theorem. Nothing is proved about recursive operators: recursion is written as a
recursive function.

## 5. Findings

Each is a disagreement between the code and what a comment or header says of it, shown by a run.

| run | the code | is said to |
| --- | --- | --- |
| `capture_torn` | never calls `mdioprobe_mdio_check_frame_alignment()`; a torn frame shifts the rest of a session | "HRTIM TIMA CMP2 ISR hook" |
| `led_race` | resolves and applies a pattern without a lock; a fault can end up under steady green for good | "safe to call from the capture loop, a detector thread or an API function" |
| `port_astray` | after one failed read of an internal PHY of an 88E6390, `_phy_at()` hands back the PHY that answers at the same address of the external bus, and `up` or `down` writes to it | return "The PHY that belongs to port `n`" |
| `edit_backup` | copies whatever the file holds over its backup, also what an earlier failed save left of it | "a write that fails part-way leaves the old version on the volume" |

Met while modelling, without a run of their own. The first six are stated as a property in their module, which TLC refutes:

- `OnMeansInRegulation` (Vreg): `set_target()` starts the ramp at the lesser of output and target
  (`mdioprobe_vreg.c:475`), so a lower target is reached on the next tick and the state becomes ON with the output still
  above it; `mdioprobe_vreg.h:48` says "in regulation".
- `TimingStaysOnBoard` (Master): `measure_clock()` and `set_clock()` toggle MDC without dropping the buffer a transaction
  left up for its linger (`mdioprobe_mdio_master.c:218`, 529); `mdioprobe_mdio_master.h:60` says "the MDC buffer stays
  disabled for the measurement".
- `PersonalityHasItsPads` (Master): `time_bit_loop_q4()` puts MDIO in Analog whatever the personality
  (`mdioprobe_mdio_master.c:379`), and a failed `set_mode()` leaves its pads parked; `mdioprobe_serial.c:21` says it
  "applies sleep to the personalities that are off and default to the one that is on".
- `EndedIsOver` (Led): `act_*_until` is never moved once a tail has run out, so after 2^31 ms the signed difference
  (`mdioprobe_led.c:76`) is positive again and an activity long over reads active for as long; line 75 says it "survives
  the 32-bit ms wrap".
- `ExtPageIsPutBack` (Modes): `_arm()` runs before the block that puts the page back (`access.py:72`, 82-94), so a failure
  of one of its two writes, or of the release itself, leaves 0x1F on the extension space; the class's comment (61-63) has
  no such exception. `ExtensionIsClosed` is what holds.
- `ForceIsNeverAdded` (Ports): `link()` forces the MAC's link of a port whose lookup of a PHY or SERDES failed
  (`mvport.py:257`, 301-313); its docstring (269-272) says a force is only ever cleared on a port that has one.

The others:


- `bus_ready()` is said to be "True when the rail is known" (`mdioprobe_bus.h:40`); one odd sample on a target that is
  present publishes rail -1 while presence, which is debounced, stays true (`mdioprobe_bus.c:117-131`). A call
  then gets -ENODEV all the same: `Probe` has both checks (`Refusal`).
- The rail may also change, or the target go, during the wait for the supply: the frame still goes out, at the rail
  looked up before it (`mdioprobe_api.c:425`).
- The LED's fault layer follows the supply only when `vreg_get()` is called (`mdioprobe_api.c:187`), though
  `mdioprobe_led.h:26` counts "vreg short-circuit" among the faults it latches.
- The supply may trip between the fault check of a transaction and its `set_target()` (`mdioprobe_api.c:376-380`), which
  re-arms it. `FaultIsKept` is about faults that were there when the call began.
- `mdioprobe_diag_get()` reports the threshold it computes from the rail of the moment (`mdioprobe_api.c:579-581`), not the
  one in use.
- `mdioprobe_capture_start()` on a running capture moves the threshold under it before it answers -EALREADY
  (`mdioprobe_api.c:241-250`).
- `set_target()` seeds the excursion window with the output before the ramp (`mdioprobe_vreg.c:476`), so the window
  contains the ramp. Only a report.
- `force_level(0)` leaves the forced rail in the status until the next poll (`mdioprobe_bus.c:236-240`), though
  `mdioprobe_api.h:75` says "0 returns to auto-detection". `StaleRailIsReplaced` shows it is put right.
- `capture_next()` never returns -ENODATA (`mdioprobe_api.h:163`): a counted session that is complete stops
  itself, and the next call returns -EPERM (`mdioprobe_api.c:301-346`).
- In `led.c` the work item may start a static pattern between `restart()`'s first assignment and its cancel
  (111-115), if a tail runs out in that very millisecond; the work scheduled at the end then toggles the static
  pattern dark once (152-153) and is not scheduled again. Exploring `Led` for it takes 31 steps.
- `mdioprobe_vreg.h` and `mdioprobe_mdio_master.h:43` quote defaults the code no longer has.
- A full volume drops writes silently (`output.py:73-77` works around it); `copy_file()` ignores what `write()` returns
  (`cmd_files.py:174-182`), and `move` then removes the source, `edit` then empties the file it has no whole backup of.
- `_save()` takes any OSError of `os.stat()` for a new file (`cmd_edit.py:64-67`) and then writes over the old one without a
  backup.
- `Mmd` does not write 0x1F (`access.py:113-124`), though `Paged` leaves its page selected (34-36): an MMD access after a paged
  one comes out at register 0x0E of that page, where the part's paging covers it.
- `copy a a` empties the file it reads from, `move a a` loses it (`cmd_files.py:166-212`); `Volume` leaves both out.
- `_boot.py` formats the volume on any OSError of a mount (41-52), not only when there is no filesystem.
- `out_of_room()` is asked once per sweep and a sweep may write many lines (`monitor.py:67`), so the floor can be
  passed within one.
- A helper that redefines a name another one has, and then fails, leaves its function registered under it
  (`extend.py:48-57`); the model's helpers register different names.
- `exit` in an exec'd file lets the file's remaining lines run (`cmd_sys.py:63-89`).
- The errors of nested lines go to the redirected file, not to the screen. `> "my file"` keeps its quotes.
- An upload's check is a length and a sum, blind to order; if the fault of its "open" line is lost, an old file of equal
  length and sum is reported good (`upload.py:151-205`). `TransferIsHonest` excepts that file.
- `probe` reports an identifier of all zeros for a PHY whose page reads as zeros (`cmd_probe.py:160-170`), and takes the
  rail's loss for silence.
- The lookups of the 6390 helper swallow CommandError, a busy window included, and its `_ports` does not check the PPU as
  its `_probe` does (671-676).
- `up` leaves a link that was forced down before on a port that has parts forced (`mvport.py:299-313`).
- The 6240's help says that SMI address 0 is refused; nothing refuses it.

## 6. What is not modelled

- The analog side (comparators, ADC noise beyond spoilt samples, HRTIM, SPI): its effect on the programs is a
  nondeterministic input.
- The bits of a frame and the arithmetic of a clock request (planned).
- Framing timers, MDC measurement (`autocal.c`), target reset, USB and the handover of the volume between host and
  interpreter (`msd.c`), the binding and the line editor.
- Of the Python code: completion, help texts, the formatting of `bus`, `diag`, `monitor`, `capture` and `marvell`; the
  switch table of `chipdb.py` and `lookup_switch()`; the regular expressions with which the generator finds driver
  structures; the identifier checks with which a helper refuses a wrong part; `con.py`; the version header.
- Decoding of frame fields, the raw capture log and statistics; `dump_raw()`, which changes nothing.
- The editor and a `script` session inside the shell's loop: to `Console` they are commands that end. Helpers' names
  that overlap are covered by the theorems only; the run has disjoint ones. `os.statvfs()` is taken to answer. Output past the
  floor within one sweep (`OutputIsInOrder` counts sweeps), and quotes or brackets inside the string literals of an
  initialiser, which neither code nor reference treats specially.
- Logging, formatting, shell text, USB descriptors, boards and build scripts.
- The LED before `mdioprobe_led_init()` returned: every call is without effect then.

## 7. Plan

Done, in this order: `Bus` with `Debounce`; `Vreg` with `Supply`; `Master` with the connector; `Capture`; `Led`; `Probe`
on `Supply`; a proof module for each. Then the Python side: `Smi`, `Modes`, `Identify`; `Families`, `Ports`; `Console`,
`Volume`, `Upload`, `Scan`; theorems on `Volume`, then on `Smi`, `Modes`, `Ports`, `Console` and `Upload`;
last on `Identify` and `Scan`, the two that need induction over data.

Next:

1. `Frame`: the bits of a transaction, turnaround included, against an abstract register read or write.
2. Ownership of the FAT volume between USB mass storage and MicroPython (`msd.c`, `usb.c`), composed with `Volume`.
3. `MdcFreq` and clock calibration: pure functions, checked against reference definitions over bounded inputs.
