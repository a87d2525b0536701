-------------------------------- MODULE Upload --------------------------------
(* tools/upload.py: a host types a file into the probe's REPL, chunk by chunk, *)
(* and has it checked there. The wire loses characters, prompts come late, the *)
(* interpreter runs out of memory, the volume fills up.                        *)
EXTENDS Integers, Sequences, SequencesExt, Folds

CONSTANTS
    Data,       \* the file: a sequence of bytes
    Size,       \* the bytes of a chunk
    Before,     \* what the file may hold already
    Stale       \* prompts of enter_repl() that may still be on their way (bound)

UploadAssumption ==
    /\ Data \in Seq(Nat) /\ Size \in Nat \ {0}
    /\ Before \subseteq Seq(Nat) /\ Stale \in Nat

VARIABLES
    line,       \* the line of the transfer that is sent next
    host,       \* "sends" "reads" or how the transfer came out
    wire,       \* lines on their way to the device
    device,     \* "ready", or "deaf": inside a line that never ends
    answers,    \* what is on its way to the host, or in its buffer
    heard,      \* what send() has read since it sent
    content,    \* the file on the volume
    opened      \* the device holds it open for writing

vars == <<line, host, wire, device, answers, heard, content, opened>>

Total(s) == FoldLeft(LAMBDA x, y : x + y, 0, s)

\* The lines of put() and verify(); the two passes of the check are one.
Line(does, bytes) == [does |-> does, bytes |-> bytes]

\* range(0, len, CHUNK): where the first n chunks end, and how many there are.
Upto(n) == IF n * Size > Len(Data) THEN Len(Data) ELSE n * Size
Chunks  == (Len(Data) + Size - 1) \div Size

Lines == <<Line("open", <<>>)>>
         \o [i \in 1..Chunks |-> Line("write", SubSeq(Data, Upto(i - 1) + 1, Upto(i)))]
         \o <<Line("close", <<>>), Line("check", <<>>)>>

Prompt  == "prompt"
Fault   == "fault"
Matches == "matches"    \* CHECK with the numbers wanted
Differs == "differs"

Init ==
    /\ line = 1 /\ host = "sends" /\ wire = <<>> /\ device = "ready"
    /\ \E n \in 0..Stale : answers = [i \in 1..n |-> Prompt]
    /\ heard = {} /\ content \in Before /\ opened = FALSE

--------------------------------------------------------------------------------
(* The host *)

\* send(): what has arrived is dropped (what is still on its way is not), and
\* the line goes out.
Sends ==
    /\ host = "sends" /\ line <= Len(Lines)
    /\ \E arrived \in 0..Len(answers) : answers' = SubSeq(answers, arrived + 1, Len(answers))
    /\ heard' = {}
    /\ wire' = Append(wire, Lines[line])
    /\ host' = "reads" /\ line' = line + 1
    /\ UNCHANGED <<device, content, opened>>

\* read_until(): up to a prompt.
Hears ==
    /\ host = "reads" /\ answers # <<>> /\ Prompt \notin heard
    /\ heard' = heard \cup {Head(answers)} /\ answers' = Tail(answers)
    /\ UNCHANGED <<line, host, wire, device, content, opened>>

\* mutant of Verdict: a transfer without a fault is a good one
VerdictUnchecked == IF line <= Len(Lines) THEN "sends" ELSE "ok"

\* verify(): the numbers wanted are in the answer to its last line.
Verdict ==
    CASE line <= Len(Lines) -> "sends"
      [] Matches \in heard  -> "ok"
      [] OTHER              -> "mismatch"

\* A prompt, so the device is thought to be done: a fault in what came with it
\* is raised, else the next line is due, or the file's outcome known.
Concludes ==
    /\ host = "reads" /\ Prompt \in heard
    /\ host' = IF Fault \in heard THEN "fault" ELSE Verdict
    /\ UNCHANGED <<line, wire, device, answers, heard, content, opened>>

\* No prompt within the time: Stalled.
TimesOut ==
    /\ host = "reads" /\ Prompt \notin heard
    /\ host' = "stalled"
    /\ UNCHANGED <<line, wire, device, answers, heard, content, opened>>

--------------------------------------------------------------------------------
(* The device: the REPL, the interpreter and the volume *)

Answers(s) == answers' = answers \o s

\* verify(): the length and the sum of the bytes.
Checks == IF Len(content) = Len(Data) /\ Total(content) = Total(Data) THEN Matches ELSE Differs

\* What a line does that arrives as it was sent. A full volume takes a part of
\* the bytes and does not say so.
Opens ==
    /\ Head(wire).does = "open"
    /\ content' = <<>> /\ opened' = TRUE /\ Answers(<<Prompt>>)

Writes ==
    /\ Head(wire).does = "write" /\ opened
    /\ \E n \in 0..Len(Head(wire).bytes) : content' = content \o SubSeq(Head(wire).bytes, 1, n)
    /\ Answers(<<Prompt>>) /\ UNCHANGED opened

Closes ==
    /\ Head(wire).does = "close" /\ opened
    /\ opened' = FALSE /\ Answers(<<Prompt>>) /\ UNCHANGED content

Sums ==
    /\ Head(wire).does = "check"
    /\ Answers(<<Checks, Prompt>>) /\ UNCHANGED <<content, opened>>

\* A line that arrives mutilated, finds no memory or no open file: it raises.
Raises == Answers(<<Fault, Prompt>>) /\ UNCHANGED <<content, opened>>

\* Characters lost in the middle of a chunk may leave one that decodes.
WritesLess ==
    /\ Head(wire).does = "write" /\ opened
    /\ \E i \in 1..Len(Head(wire).bytes) : content' = content \o RemoveAt(Head(wire).bytes, i)
    /\ Answers(<<Prompt>>) /\ UNCHANGED opened

Executes ==
    /\ device = "ready" /\ wire # <<>>
    /\ wire' = Tail(wire)
    /\ Opens \/ Writes \/ Closes \/ Sums \/ Raises \/ WritesLess
    /\ UNCHANGED <<line, host, device, heard>>

\* A quote or a bracket is lost: the REPL waits for the rest of the line, and
\* takes what follows for it.
GoesDeaf ==
    /\ wire # <<>> /\ wire' = <<>> /\ device' = "deaf"
    /\ UNCHANGED <<line, host, answers, heard, content, opened>>

Swallows ==
    /\ device = "deaf" /\ wire # <<>> /\ wire' = Tail(wire)
    /\ UNCHANGED <<line, host, device, answers, heard, content, opened>>

Next ==
    \/ Sends \/ Hears \/ Concludes \/ TimesOut
    \/ Executes \/ GoesDeaf \/ Swallows

\* The host goes on by itself: each read has its time limit.
Fairness == WF_vars(Sends \/ Concludes \/ TimesOut)

Spec == Init /\ [][Next]_vars /\ Fairness

--------------------------------------------------------------------------------
(* Properties *)

Over == host \in {"ok", "mismatch", "fault", "stalled"}

\* A file reported as good is on the volume byte for byte, whatever was lost,
\* late or raised on the way: no part of it is missing, and it is no mixture. The
\* one exception is a file that was there before, has the length and the sum of
\* the new one, and was never opened. (upload.py put, verify, send)
ReportedIsWritten == host = "ok" => content = Data \/ content \in Before

\* Every transfer comes to an end, be the device deaf. (upload.py send, read_until)
TransferEnds == <>Over
===============================================================================
