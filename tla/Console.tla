------------------------------- MODULE Console --------------------------------
(* The command shell of the probe: the loop that waits for a host, reads and   *)
(* runs a line; the nesting of `exec`; the redirection of output; the registry *)
(* of commands and the helper modules loaded into it. Python, one thread.      *)
EXTENDS Integers, Sequences, SequencesExt

CONSTANTS
    Builtins,   \* commands of the firmware
    Registers,  \* per helper module, the commands some version of it registers
    Files,      \* what output can be redirected to
    Depth,      \* nested lines before the interpreter's stack is used up (bound)
    MaxLines,   \* lines of a command file, and sweeps of a watching loop (bound)
    Room,       \* free space of an empty volume
    Floor,      \* _SPACE_FLOOR
    Every       \* _SPACE_EVERY

Screen   == "screen"
Nobody   == "nobody"
Firmware == "firmware"

ConsoleAssumption ==
    /\ {Depth, MaxLines, Room, Floor} \subseteq Nat /\ Every \in Nat \ {0}
    /\ \A h \in DOMAIN Registers : Registers[h] \cap Builtins = {}
    /\ DOMAIN Registers \cap {Nobody, Firmware} = {} /\ Screen \notin Files

VARIABLES
    host,       \* a host holds the port open
    loop,       \* where run() is: "waiting" "prompt" "ended" "running" "repl"
    running,    \* Shell.running
    file,       \* Output._file: Screen or a member of Files
    calls,      \* the lines being run, the outermost first
    worked,     \* what the last line to end came to: "none" "ok" "failed"
    commands,   \* COMMANDS: who registered each name
    loaded,     \* LOADED: module -> the names it is known to have added
    free,       \* free space of the volume
    checks,     \* Output._checks, modulo Every
    late        \* sweeps a watching loop has made below the floor (ghost)

vars == <<host, loop, running, file, calls, worked, commands, loaded, free, checks, late>>

Helpers  == DOMAIN Registers
Names    == Builtins \cup UNION {Registers[h] : h \in Helpers}

AsShipped == [n \in Names |-> IF n \in Builtins THEN Firmware ELSE Nobody]

\* A line being run: what its command does, where its output goes (Screen: as
\* before), what _Redirect puts back, and what is left of a file or a loop.
Line(does, to, left) == [does |-> does, to |-> to, prev |-> file, left |-> left]

Top == Last(calls)

Init ==
    /\ host = FALSE /\ loop = "waiting" /\ running = TRUE
    /\ file = Screen /\ calls = <<>> /\ worked = "none"
    /\ commands = AsShipped /\ loaded = <<>>
    /\ free \in {Floor, Room} /\ checks = 0 /\ late = 0

--------------------------------------------------------------------------------
(* Output *)

\* A line of output: on the volume it may take another cluster.
Written(n) == IF file = Screen \/ n = 0 THEN {n} ELSE {n, n - 1}

\* out_of_room(): asks only every so many calls, and only under redirection.
\* os.statvfs() is taken to answer.
Counted  == IF file = Screen THEN checks ELSE (checks + 1) % Every
OutOfRoom(room) == file # Screen /\ Counted = 0 /\ room < Floor

--------------------------------------------------------------------------------
(* Lines *)

registry == <<commands, loaded>>
volume   == <<free, checks, late>>

\* mutant of Ends: an error on the way out leaves the output where it was
EndsUnrestored(ok, on) ==
    /\ calls' = Front(calls)
    /\ worked' = IF ok THEN "ok" ELSE "failed"
    /\ file' = IF ok THEN Top.prev ELSE file
    /\ running' = on
    /\ loop' = IF Len(calls) > 1 THEN "running" ELSE IF on THEN "prompt" ELSE "repl"
    /\ UNCHANGED host

\* A command is over: _Redirect puts the output back whatever happened, and
\* run_line() tells its caller how it went. The loop looks at `running` only
\* when the outermost line is over.
Ends(ok, on) ==
    /\ calls' = Front(calls)
    /\ worked' = IF ok THEN "ok" ELSE "failed"
    /\ file' = Top.prev
    /\ running' = on
    /\ loop' = IF Len(calls) > 1 THEN "running" ELSE IF on THEN "prompt" ELSE "repl"
    /\ UNCHANGED host

\* run_line(): the line is refused before its command is called (it does not
\* parse, names nothing, the volume is too full or the file cannot be opened),
\* or its output is sent where it says and the command begins.
Refused(under) ==
    /\ calls' = under /\ worked' = "failed"
    /\ loop' = IF under = <<>> THEN "prompt" ELSE "running"
    /\ UNCHANGED <<file, late>>

Begins(under) ==
    \E does \in {"plain", "watch", "exec", "exit", "use", "drop"}, to \in Files \cup {Screen} :
       /\ to # Screen => free >= Floor
       /\ \E left \in IF does \in {"watch", "exec"} THEN 0..MaxLines ELSE {0} :
             calls' = Append(under, Line(does, to, left))
       /\ file' = IF to = Screen THEN file ELSE to
       /\ worked' = "none" /\ loop' = "running" /\ late' = 0

RunLine(under) == Refused(under) \/ (Len(under) < Depth /\ Begins(under))

\* The command on top is about to do its work, or the next part of it.
At(does) == loop = "running" /\ Top.does = does

\* Any command that does a thing or two and writes a line; any of them may fail.
Plain ==
    /\ At("plain")
    /\ free' \in Written(free)
    /\ \E ok \in BOOLEAN : Ends(ok, running)
    /\ UNCHANGED <<registry, checks, late>>

Exit ==
    /\ At("exit") /\ Ends(TRUE, FALSE)
    /\ UNCHANGED <<registry, volume>>

\* monitor.run() and the dump of a capture: a loop for a given time that stops
\* when the volume is nearly full. The dump writes before it asks for room, the
\* monitor after.
Sweep ==
    /\ At("watch") /\ Top.left > 0
    /\ checks' = Counted
    /\ \E room \in Written(free) :
          IF OutOfRoom(room)
          THEN Ends(TRUE, running) /\ free' = room /\ UNCHANGED late
          ELSE /\ calls' = [calls EXCEPT ![Len(calls)].left = @ - 1]
               /\ free' \in Written(room)
               /\ late' = IF file # Screen /\ room < Floor THEN late + 1 ELSE late
               /\ UNCHANGED <<host, loop, running, file, worked>>
    /\ UNCHANGED registry

\* Its time is over, or a sweep fails: only an OSError of a read is passed over.
SweepsEnd ==
    /\ At("watch")
    /\ \/ Top.left = 0 /\ Ends(TRUE, running)
       \/ Ends(FALSE, running)
    /\ UNCHANGED <<registry, volume>>

--------------------------------------------------------------------------------
(* exec: a file of commands *)

\* mutant of ExecLine: the outcome of a line is not looked at
ExecLineAnyway ==
    /\ At("exec") /\ Top.left > 0
    /\ free' \in Written(free)
    /\ RunLine([calls EXCEPT ![Len(calls)].left = @ - 1])
    /\ UNCHANGED <<host, running, registry, checks>>

\* The next line of the file, announced before it is run.
ExecLine ==
    /\ At("exec") /\ Top.left > 0 /\ worked # "failed"
    /\ free' \in Written(free)
    /\ RunLine([calls EXCEPT ![Len(calls)].left = @ - 1])
    /\ UNCHANGED <<host, running, registry, checks>>

\* The file cannot be opened, or a line of it failed.
ExecStops ==
    /\ At("exec") /\ worked \in {"none", "failed"} /\ Ends(FALSE, running)
    /\ UNCHANGED <<registry, volume>>

ExecEnds ==
    /\ At("exec") /\ Top.left = 0 /\ worked # "failed" /\ Ends(TRUE, running)
    /\ UNCHANGED <<registry, volume>>

--------------------------------------------------------------------------------
(* use: command modules from the volume *)

Added(h) == IF h \in DOMAIN loaded THEN loaded[h] ELSE {}

\* unload(): whatever the module is known to have added goes.
Without(h) == [n \in Names |-> IF n \in Added(h) THEN Nobody ELSE commands[n]]

Forgotten(h) == [m \in DOMAIN loaded \ {h} |-> loaded[m]]

Known(table) == {n \in Names : table[n] # Nobody}

With(table, found, h) == [n \in Names |-> IF n \in found THEN h ELSE table[n]]

\* mutant of LoadFails: what the module registered before it threw stays
LoadFailsHalfWay(h, found) ==
    /\ loaded' = Forgotten(h)
    /\ commands' = With(Without(h), found, h)

\* load(): the module is taken back, collected for, and imported. The version
\* on the volume registers `found`; if it throws after that, what is new goes.
LoadFails(h, found) ==
    LET old == Without(h)
        new == With(old, found, h)
    IN /\ loaded' = Forgotten(h)
       /\ commands' = [n \in Names |-> IF n \in Known(new) \ Known(old) THEN Nobody ELSE new[n]]

LoadWorks(h, found) ==
    LET old == Without(h)
        new == With(old, found, h)
    IN /\ commands' = new
       /\ loaded' = [m \in DOMAIN loaded \cup {h} |->
                        IF m = h THEN Known(new) \ Known(old) ELSE loaded[m]]

Use ==
    /\ At("use")
    /\ \E h \in Helpers : \E found \in SUBSET Registers[h] :
          \/ LoadFails(h, found) /\ Ends(FALSE, running)
          \/ LoadWorks(h, found) /\ Ends(TRUE, running)
    /\ UNCHANGED volume

\* `use drop`: one module or all of them.
Drop ==
    /\ At("drop") /\ Ends(TRUE, running)
    /\ \/ \E h \in Helpers : commands' = Without(h) /\ loaded' = Forgotten(h)
       \/ /\ commands' = [n \in Names |->
                 IF \E h \in DOMAIN loaded : n \in loaded[h] THEN Nobody ELSE commands[n]]
          /\ loaded' = <<>>
    /\ UNCHANGED volume

--------------------------------------------------------------------------------
(* run(): the loop, and a host that comes and goes *)

idle == <<running, file, calls, worked, registry, volume>>

HostOpens  == ~host /\ host' = TRUE  /\ UNCHANGED <<loop, idle>>
HostCloses == host  /\ host' = FALSE /\ UNCHANGED <<loop, idle>>

\* wait_for_console(), then the banner.
Greets == loop = "waiting" /\ host /\ loop' = "prompt" /\ UNCHANGED <<host, idle>>

\* A line typed at the prompt.
Reads ==
    /\ loop = "prompt" /\ host
    /\ RunLine(<<>>)
    /\ UNCHANGED <<host, running, registry, free, checks>>

\* The read ends without a line: Ctrl-D, or the port was closed.
ReadEnds == loop = "prompt" /\ loop' = "ended" /\ UNCHANGED <<host, idle>>

\* mutant of Recovers: the end of input ends the session
RecoversNot == loop = "ended" /\ loop' = (IF host THEN "prompt" ELSE "gone") /\ UNCHANGED <<host, idle>>

\* _recover_from_eof(): an open port keeps its prompt, a closed one is waited for.
Recovers == loop = "ended" /\ loop' = (IF host THEN "prompt" ELSE "waiting") /\ UNCHANGED <<host, idle>>

\* From the REPL: run() again with a new Shell, or a soft reset.
Relaunches ==
    /\ loop = "repl" /\ host
    /\ loop' = "waiting" /\ running' = TRUE /\ file' = Screen /\ checks' = 0
    /\ \/ UNCHANGED registry
       \/ commands' = AsShipped /\ loaded' = <<>>
    /\ UNCHANGED <<host, calls, worked, free, late>>

\* Files are deleted between commands.
MakesRoom ==
    /\ loop = "prompt" /\ free < Room /\ free' = Room
    /\ UNCHANGED <<host, loop, running, file, calls, worked, registry, checks, late>>

Command == Plain \/ Exit \/ Sweep \/ SweepsEnd \/ ExecLine \/ ExecStops \/ ExecEnds \/ Use \/ Drop

Shell == Command \/ Greets \/ Recovers

Next ==
    \/ Shell \/ Reads \/ ReadEnds \/ Relaunches
    \/ HostOpens \/ HostCloses \/ MakesRoom

\* The interpreter runs on; nobody has to type, and no host has to come.
Fairness == WF_vars(Shell)

Spec == Init /\ [][Next]_vars /\ Fairness

--------------------------------------------------------------------------------
(* Properties *)

\* Outside a load the registry holds what LOADED says and nothing else of the
\* helpers, whatever versions were loaded, failed or were dropped in between,
\* and the firmware's own commands stay. (extend.py, registry.py)
RegistryIsTrue ==
    \A n \in Names :
       IF n \in Builtins THEN commands[n] = Firmware
       ELSE commands[n] = Nobody <=> \A h \in DOMAIN loaded : n \notin loaded[h]

\* Output goes where the innermost redirection in progress sends it, and to the
\* screen when there is none, however the lines in between ended. (output.py,
\* shell.py execute)
Sent(c) == {i \in DOMAIN c : c[i].to # Screen}

SinksUnwind ==
    IF Sent(calls) = {} THEN file = Screen
    ELSE \E i \in Sent(calls) : file = calls[i].to /\ \A j \in Sent(calls) : j <= i

\* Once a line of a command file has failed no further line of it, or of a file
\* that runs it, is begun: every `exec` around it fails in turn. (cmd_sys.py
\* cmd_exec, shell.py run_line)
FailureStopsAll == [][loop = "running" /\ worked = "failed" /\ calls' # calls => worked' = "failed"]_vars

\* A loop that writes to the volume is stopped within _SPACE_EVERY sweeps of
\* the floor, wherever the counter stood. (output.py out_of_room)
LoopsStopInTime == late < Every

\* What commands write goes where it was sent, and a loop that writes is stopped
\* within so many sweeps of the floor. (How much a sweep writes is not bounded here.)
OutputIsInOrder == SinksUnwind /\ LoopsStopInTime

\* A host that stays gets a prompt, whatever was running and however often the
\* port was closed before, unless the operator left for the REPL. (shell.py run,
\* _recover_from_eof, wait_for_console)
PromptComes == host ~> (~host \/ loop \in {"prompt", "repl"})
===============================================================================
