-------------------------------- MODULE MCShell --------------------------------
\* What an operator has to rely on, each part on its own: the shell (Console),
\* the commands that change files (Volume), the transfer of a file from the host
\* (Upload), the functions that take text apart (Scan), and the naming of what
\* answers on the bus (Identify).
EXTENDS Volume, Integers, Sequences

CONSTANTS Builtins, Registers, Files, Depth, MaxLines, Room, Floor, Every,
          Data, Size, Before, Stale, Alphabets, Longest,
          Width, Half, Model, Vendor, Sources, Idents

VARIABLES
    part,
    host, loop, running, file, calls, worked, commands, loaded, free, checks, late,
    line, tool, wire, device, answers, heard, content, opened,
    alphabet, text,
    drivers, table, asking, chip, rail, at, tries, high, answer

cvars == <<host, loop, running, file, calls, worked, commands, loaded, free, checks, late>>
uvars == <<line, tool, wire, device, answers, heard, content, opened>>
tvars == <<alphabet, text>>
nvars == <<drivers, table, asking, chip, rail, at, tries, high, answer>>

MCRegisters == [h1 |-> {"c1", "c2"}, h2 |-> {"c3"}]

\* Files that were there before: none, a shorter one, and one with the length
\* and the sum of the new one.
MCData   == <<1, 2, 1, 2, 2>>
MCBefore == {<<>>, <<2, 2>>, <<2, 1, 1, 2, 2>>}

\* Comments and literals; quotes and arrows of a command line; initialisers.
MCAlphabets == {{"slash", "star", "newline", "quote", "backslash", "a"}, {"a", "space", "quote", "arrow"},
                {"lbrace", "rbrace", "comma", "space", "a"}}

\* Drivers that match by each of the masks and overlap, one with bits outside its
\* mask, phylib's fallback, and elements in which something did not resolve, in
\* every order of up to two.
Element(by, mask, id, name) == [by |-> by, mask |-> mask, id |-> id, name |-> name]

Elements == {
    Element("EXACT", {}, {1, 2}, 1), Element("EXACT", {}, {0, 1, 2}, 2), Element("MODEL", {}, {0, 1, 2}, 3),
    Element("VENDOR", {}, {2}, 4), Element("own", {1, 3}, {1, 2}, 5), Element("EXACT", {}, 0..3, 6),
    Element("own", {-1}, {1, 2}, 7), Element("EXACT", {}, {-1}, 8), Element("EXACT", {}, {1, 2}, -1)}

MCSources == {<<>>} \cup [1..1 -> Elements] \cup {s \in [1..2 -> Elements] : s[1] # s[2]}
MCIdents  == {{0}, {0, 2}, {1, 2}, {0, 1, 2}}

C == INSTANCE Console
U == INSTANCE Upload WITH host <- tool

T == INSTANCE Scan

N == INSTANCE Identify WITH part <- chip

Some(S) == CHOOSE x \in S : TRUE

ASSUME ConsoleFits == C!ConsoleAssumption
ASSUME UploadFits == U!UploadAssumption
ASSUME IdentifyFits == N!IdentifyAssumption

MCInit ==
    /\ part \in {"console", "volume", "upload", "text", "names"}
    /\ C!Init /\ Init /\ U!Init /\ T!Init /\ N!Init
    /\ part # "console" => free = Room
    /\ part # "volume" => disk[Path] = Some(Texts)
    /\ part # "upload" => answers = <<>> /\ content = <<>>
    /\ part # "text" => alphabet = Some(Alphabets)
    /\ part # "names" => drivers = <<>> /\ asking = "probe" /\ chip.kind = "dead"

MCConsole == part = "console" /\ C!Next /\ UNCHANGED <<part, vars, uvars, tvars, nvars>>
MCVolume  == part = "volume" /\ Next /\ UNCHANGED <<part, cvars, uvars, tvars, nvars>>
MCUpload  == part = "upload" /\ U!Next /\ UNCHANGED <<part, vars, cvars, tvars, nvars>>
MCText    == part = "text" /\ T!Next /\ UNCHANGED <<part, vars, cvars, uvars, nvars>>
MCNames   == part = "names" /\ N!Next /\ UNCHANGED <<part, vars, cvars, uvars, tvars>>

\* A transfer is over; a text has its length; an answer is given.
MCOver ==
    /\ \/ part = "upload" /\ U!Over
       \/ part = "text" /\ Len(text) = Longest
       \/ part = "names" /\ N!Over
    /\ UNCHANGED <<part, vars, cvars, uvars, tvars, nvars>>

MCNext == MCConsole \/ MCVolume \/ MCUpload \/ MCText \/ MCNames \/ MCOver

MCSpec ==
    /\ MCInit /\ [][MCNext]_<<part, vars, cvars, uvars, tvars, nvars>>
    /\ WF_cvars(part = "console" /\ C!Shell /\ UNCHANGED <<part, vars, uvars, tvars, nvars>>)
    /\ WF_uvars(part = "upload" /\ (U!Sends \/ U!Concludes \/ U!TimesOut)
                                /\ UNCHANGED <<part, vars, cvars, tvars, nvars>>)

\* As in Console: outside a load the registry is what LOADED says; output goes
\* where the innermost redirection sends it, and a loop that writes is stopped
\* within so many sweeps of the floor.
RegistryIsTrue  == C!RegistryIsTrue
OutputIsInOrder == C!OutputIsInOrder

\* As in Console: a failed line stops every exec around it.
FailureStopsAll == C!FailureStopsAll

\* As in Scan: comments go where a lexer finds them, initialisers come apart at
\* their own commas, and a redirection is never taken from inside quotes.
TextIsTakenApart == T!StripIsALexer /\ T!PiecesAreWhole /\ T!RedirectIsOutsideQuotes

\* As in Upload: what a transfer reports as good is on the volume.
TransferIsHonest == U!ReportedIsWritten

\* As in Identify: a part is named by the driver that says most about it, and a
\* helper is told the truth.
PartsAreNamed == N!NameIsMostSpecific /\ N!IdentifyIsHonest

\* A host that stays gets a prompt (Console), and a transfer ends, be the device
\* deaf (Upload).
WaitsEnd == C!PromptComes /\ (part = "upload" ~> U!Over)
===============================================================================
