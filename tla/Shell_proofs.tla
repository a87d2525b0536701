----------------------------- MODULE Shell_proofs ------------------------------
(* Proofs about the command shell (Console), the files of the volume (Volume), *)
(* the transfer of a file to it (Upload), the naming of parts (Identify), and   *)
(* the functions that take text apart (Scan).                                   *)
(* They share no state: each has an inductive invariant of its own.            *)
(*                                                                             *)
(* Console: the lines in progress form a chain, each with what to put back     *)
(* when it ends, and every line but the innermost is an exec; LOADED partitions *)
(* what the helpers added to COMMANDS; a watching loop has swept below the      *)
(* floor no more often than it has counted since it last asked for room.       *)
(* Volume: where the old text of a file is at each step of a save or a move,    *)
(* unless one of the Excuses of Volume took it.                                *)
(* Upload: what is on the volume is never longer than what has been typed, and *)
(* is the file's where it is as long.                                          *)
(* Identify: both halves of an identifier are of one part, and a lookup returns *)
(* a best record of the table, which is shown by induction over the table.     *)
(* Scan: what each loop has found after k characters, by induction over the    *)
(* text: the stripper is where the reference lexer is in no comment; splitting *)
(* has ended a piece at each comma at depth 0; a quote is open after an odd     *)
(* number of them.                                                             *)
EXTENDS MCShell, SequenceTheorems, FiniteSetTheorems, FunctionTheorems, TLAPS

--------------------------------------------------------------------------------
(* The shell: lines in progress *)

Sinks == Files \cup {C!Screen}
Lines == [does : {"plain", "watch", "exec", "exit", "use", "drop"}, to : Sinks, prev : Sinks,
          left : Nat]

\* Where the first i lines of c send their output.
Sends(c, i, s) ==
    \/ s = C!Screen /\ \A k \in 1..i : c[k].to = C!Screen
    \/ \E k \in 1..i : /\ c[k].to # C!Screen /\ s = c[k].to
                       /\ \A j \in k + 1..i : c[j].to = C!Screen

\* Every line but the innermost is an exec, and each knows what to put back.
Chain(c, f) ==
    /\ c \in Seq(Lines) /\ f \in Sinks
    /\ Sends(c, Len(c), f)
    /\ \A i \in 1..Len(c) : Sends(c, i - 1, c[i].prev)
    /\ \A i \in 1..Len(c) - 1 : c[i].does = "exec"

\* A sequence without its last element.
LEMMA FrontIs ==
  ASSUME NEW S, NEW s \in Seq(S), s # <<>>
  PROVE  /\ C!Front(s) \in Seq(S) /\ Len(C!Front(s)) = Len(s) - 1 /\ Len(s) \in Nat \ {0}
         /\ \A i \in 1..Len(s) - 1 : C!Front(s)[i] = s[i]
         /\ C!Last(s) = s[Len(s)] /\ C!Last(s) \in S
<1>1. Len(s) \in Nat /\ Len(s) # 0
  BY EmptySeq, LenProperties
<1>2. C!Front(s) = SubSeq(s, 1, Len(s) - 1)
  BY DEF C!Front
<1> DEFINE n == Len(s)
           t == SubSeq(s, 1, n - 1)
<1>3. n \in Nat /\ n # 0 /\ s \in [1..n -> S]
  BY <1>1, LenProperties
<1> HIDE DEF n
<1>4. t = [i \in 1..n - 1 |-> s[i]]
  BY <1>3 DEF n
<1>5. t \in Seq(S) /\ Len(t) = n - 1
  BY <1>3, <1>4, IsASeq
<1>6. C!Front(s) \in Seq(S) /\ Len(C!Front(s)) = Len(s) - 1
  BY <1>2, <1>5 DEF n
<1>7. \A i \in 1..Len(s) - 1 : C!Front(s)[i] = s[i]
  BY <1>3, <1>4, <1>2 DEF n
<1>8. C!Last(s) = s[Len(s)] /\ C!Last(s) \in S
  BY <1>1, ElementOfSeq DEF C!Last
<1> QED
  BY <1>1, <1>6, <1>7, <1>8

\* What is sent where depends on the lines looked at.
LEMMA SendsSame ==
  ASSUME NEW c, NEW d, NEW i \in Nat, NEW s, \A k \in 1..i : d[k].to = c[k].to, Sends(c, i, s)
  PROVE  Sends(d, i, s)
BY DEF Sends

\* When the innermost line is over, what it put back is where its exec sends
\* output.
LEMMA Pops ==
  ASSUME NEW c, NEW f, Chain(c, f), c # <<>>
  PROVE  /\ Chain(C!Front(c), C!Last(c).prev)
         /\ Len(C!Front(c)) = Len(c) - 1 /\ Len(c) \in Nat \ {0}
         /\ C!Front(c) # <<>> => C!Last(C!Front(c)).does = "exec"
<1> DEFINE d == C!Front(c)
           n == Len(c)
<1>1. /\ c \in Seq(Lines) /\ d \in Seq(Lines) /\ Len(d) = n - 1 /\ n \in Nat \ {0}
      /\ \A i \in 1..n - 1 : d[i] = c[i]
      /\ C!Last(c) = c[n] /\ C!Last(c) \in Lines
  BY FrontIs DEF Chain
<1>2. C!Last(c).prev \in Sinks
  BY <1>1 DEF Lines
<1> HIDE DEF d, n
<1>3. Sends(d, n - 1, C!Last(c).prev)
  <2>1. n \in 1..n /\ n - 1 \in Nat /\ \A k \in 1..n - 1 : d[k].to = c[k].to
    BY <1>1
  <2>2. Sends(c, n - 1, C!Last(c).prev)
    BY <1>1, <2>1 DEF Chain, n
  <2> QED
    BY <2>1, <2>2, SendsSame
<1>4. ASSUME NEW i \in 1..n - 1 PROVE Sends(d, i - 1, d[i].prev)
  <2>1. i - 1 \in Nat /\ i \in 1..n /\ d[i] = c[i] /\ \A k \in 1..i - 1 : d[k] = c[k]
    BY <1>1
  <2>2. Sends(c, i - 1, c[i].prev)
    BY <2>1 DEF Chain, n
  <2> QED
    BY <2>1, <2>2, SendsSame
<1>5. ASSUME NEW i \in 1..n - 1 PROVE d[i].does = "exec"
  BY <1>1, <1>5 DEF Chain, n
<1>6. d # <<>> => C!Last(d).does = "exec"
  <2> SUFFICES ASSUME d # <<>> PROVE C!Last(d).does = "exec"
    OBVIOUS
  <2>1. C!Last(d) = d[Len(d)] /\ Len(d) \in Nat \ {0}
    BY <1>1, FrontIs
  <2>2. n - 1 \in 1..n - 1
    BY <1>1, <2>1
  <2> QED
    BY <1>1, <1>5, <2>1, <2>2
<1>7. Chain(d, C!Last(c).prev)
  BY <1>1, <1>2, <1>3, <1>4, <1>5 DEF Chain
<1> QED
  BY <1>1, <1>6, <1>7 DEF d, n

\* A line that begins knows what to put back.
LEMMA Pushes ==
  ASSUME NEW c, NEW f, Chain(c, f), c # <<>> => C!Last(c).does = "exec",
         NEW l \in Lines, l.prev = f
  PROVE  /\ Chain(Append(c, l), IF l.to = C!Screen THEN f ELSE l.to)
         /\ Append(c, l) # <<>> /\ C!Last(Append(c, l)) = l
<1> DEFINE d == Append(c, l)
           n == Len(c)
           g == IF l.to = C!Screen THEN f ELSE l.to
<1>1. /\ c \in Seq(Lines) /\ d \in Seq(Lines) /\ n \in Nat /\ Len(d) = n + 1
      /\ \A i \in 1..n : d[i] = c[i]
      /\ d[n + 1] = l
  BY AppendProperties, LenProperties DEF Chain
<1>2. g \in Sinks
  BY DEF Chain, Lines
<1>3. d # <<>> /\ C!Last(d) = l
  BY <1>1 DEF C!Last
<1> HIDE DEF d, n, g
<1>4. Sends(d, n, f)
  BY <1>1, SendsSame DEF Chain, n
<1>5. Sends(d, n + 1, g)
  BY <1>1, <1>4 DEF Sends, g
<1>6. ASSUME NEW i \in 1..n + 1 PROVE Sends(d, i - 1, d[i].prev)
  <2>1. CASE i = n + 1
    BY <1>1, <1>4, <2>1
  <2>2. CASE i \in 1..n
    <3>1. i - 1 \in Nat /\ d[i] = c[i] /\ \A k \in 1..i - 1 : d[k] = c[k]
      BY <1>1, <2>2
    <3>2. Sends(c, i - 1, c[i].prev)
      BY <2>2 DEF Chain, n
    <3> QED
      BY <3>1, <3>2, SendsSame
  <2> QED
    BY <1>1, <2>1, <2>2
<1>7. ASSUME NEW i \in 1..n PROVE d[i].does = "exec"
  <2>1. CASE i = n
    <3>1. c # <<>> /\ C!Last(c) = c[n]
      BY <1>1, <1>7, <2>1 DEF C!Last, n
    <3> QED
      BY <1>1, <2>1, <3>1
  <2>2. CASE i \in 1..n - 1
    BY <1>1, <2>2 DEF Chain, n
  <2> QED
    BY <1>1, <2>1, <2>2
<1>8. Chain(d, g)
  BY <1>1, <1>2, <1>5, <1>6, <1>7 DEF Chain
<1> QED
  BY <1>3, <1>8 DEF d, g

\* Counting down the innermost line leaves all that alone.
LEMMA Counts ==
  ASSUME NEW c, NEW f, Chain(c, f), c # <<>>, C!Last(c).left > 0,
         NEW d, d = [c EXCEPT ![Len(c)].left = @ - 1]
  PROVE  /\ Chain(d, f) /\ d # <<>> /\ C!Last(d).does = C!Last(c).does /\ Len(d) = Len(c)
<1> DEFINE n == Len(c)
<1>1. /\ c \in Seq(Lines) /\ n \in Nat \ {0} /\ c[n] \in Lines /\ C!Last(c) = c[n]
  BY FrontIs DEF Chain
<1>2. d = [c EXCEPT ![n] = [c[n] EXCEPT !.left = c[n].left - 1]]
  BY <1>1
<1> DEFINE e == [c[n] EXCEPT !.left = c[n].left - 1]
<1>3. e \in Lines /\ e.does = c[n].does /\ e.to = c[n].to /\ e.prev = c[n].prev
  <2>1. PICK w : w = c[n]
    OBVIOUS
  <2>2. w \in Lines /\ w.left - 1 \in Nat
    BY <1>1, <2>1 DEF Lines
  <2>3. [w EXCEPT !.left = w.left - 1] \in Lines
    BY <2>2 DEF Lines
  <2>4. /\ [w EXCEPT !.left = w.left - 1].does = w.does
        /\ [w EXCEPT !.left = w.left - 1].to = w.to
        /\ [w EXCEPT !.left = w.left - 1].prev = w.prev
    BY <2>2 DEF Lines
  <2> QED
    BY <2>1, <2>3, <2>4
<1> HIDE DEF e
<1>4. d = [c EXCEPT ![n] = e]
  BY <1>2 DEF e
<1>5. d \in Seq(Lines) /\ Len(d) = n /\ d[n] = e /\ \A i \in 1..n : i # n => d[i] = c[i]
  BY <1>1, <1>3, <1>4
<1>6. \A i \in 1..n : d[i].to = c[i].to /\ d[i].prev = c[i].prev /\ d[i].does = c[i].does
  BY <1>3, <1>5
<1>7. d # <<>> /\ C!Last(d).does = C!Last(c).does
  BY <1>1, <1>3, <1>5 DEF C!Last
<1> HIDE DEF n
<1>8. Sends(d, n, f)
  <2>1. n \in Nat /\ \A k \in 1..n : d[k].to = c[k].to
    BY <1>1, <1>6
  <2>2. Sends(c, n, f)
    BY DEF Chain, n
  <2> QED
    BY <2>1, <2>2, SendsSame
<1>9. ASSUME NEW i \in 1..n PROVE Sends(d, i - 1, d[i].prev)
  <2>1. i - 1 \in Nat /\ \A k \in 1..i - 1 : d[k].to = c[k].to
    BY <1>1, <1>6
  <2>2. Sends(c, i - 1, c[i].prev)
    BY DEF Chain, n
  <2> QED
    BY <1>6, <2>1, <2>2, SendsSame
<1>10. ASSUME NEW i \in 1..n - 1 PROVE d[i].does = "exec"
  BY <1>1, <1>6, <1>10 DEF Chain, n
<1>11. Chain(d, f)
  BY <1>5, <1>8, <1>9, <1>10 DEF Chain
<1> QED
  BY <1>5, <1>7, <1>11 DEF n

--------------------------------------------------------------------------------
(* The shell: the inductive invariant *)

\* The registry: who added what is known, nobody adds what another added, and a
\* name is taken just when somebody is known to have added it.
Registry(shown, known) ==
    /\ DOMAIN known \subseteq C!Helpers
    /\ \A m \in DOMAIN known : known[m] \subseteq Registers[m]
    /\ \A m, k \in DOMAIN known : m # k => known[m] \cap known[k] = {}
    /\ \A n \in C!Names : n \in Builtins => shown[n] = C!Firmware
    /\ \A n \in C!Names \ Builtins : shown[n] # C!Nobody <=> \E m \in DOMAIN known : n \in known[m]

\* Lines are run one inside the other; only an exec is asked how a line ended.
Nesting ==
    /\ Chain(calls, file)
    /\ loop = "running" <=> calls # <<>>
    /\ loop = "running" /\ worked # "none" => C!Top.does = "exec"

\* A watching loop has never swept more often below the floor than it has
\* counted since it last asked.
Watching == loop = "running" /\ C!Top.does = "watch"

Filling ==
    /\ free \in Nat /\ checks \in 0..Every - 1 /\ late \in 0..Every - 1
    /\ Watching => late <= checks /\ (late > 0 => free < Floor)

ConsoleInv == Registry(commands, loaded) /\ Nesting /\ Filling

\* Numbers the shell is configured with.
LEMMA EveryIs == Every \in Nat /\ Every # 0 /\ Floor \in Nat /\ Room \in Nat
BY ConsoleFits DEF C!ConsoleAssumption

\* The count goes round.
LEMMA CountedIs ==
  ASSUME Filling
  PROVE  /\ C!Counted \in 0..Every - 1
         /\ file = C!Screen => C!Counted = checks
         /\ file # C!Screen => C!Counted = 0 \/ C!Counted = checks + 1
<1>1. Every \in Nat /\ Every # 0 /\ checks \in 0..Every - 1
  BY EveryIs DEF Filling
<1>2. CASE checks + 1 < Every
  <2>1. (checks + 1) % Every = checks + 1
    BY <1>1, <1>2
  <2> QED
    BY <1>1, <1>2, <2>1 DEF C!Counted
<1>3. CASE checks + 1 = Every
  <2>1. (checks + 1) % Every = 0
    BY <1>1, <1>3
  <2> QED
    BY <1>1, <1>3, <2>1 DEF C!Counted
<1> QED
  BY <1>1, <1>2, <1>3

\* Writing takes room, or none.
LEMMA WrittenIs ==
  ASSUME free \in Nat, free' \in C!Written(free)
  PROVE  free' \in Nat /\ free' <= free
BY DEF C!Written

--------------------------------------------------------------------------------
(* The shell: the registry *)

\* unload() leaves a true registry without the module.
LEMMA Unloads ==
  ASSUME Registry(commands, loaded), NEW h \in C!Helpers
  PROVE  /\ Registry(C!Without(h), C!Forgotten(h))
         /\ h \notin DOMAIN C!Forgotten(h)
<1>1. /\ DOMAIN C!Forgotten(h) = DOMAIN loaded \ {h}
      /\ \A m \in DOMAIN loaded \ {h} : C!Forgotten(h)[m] = loaded[m]
  BY DEF C!Forgotten
<1>2. \A n \in C!Names : C!Without(h)[n] = IF n \in C!Added(h) THEN C!Nobody ELSE commands[n]
  BY DEF C!Without
<1>3. C!Added(h) = IF h \in DOMAIN loaded THEN loaded[h] ELSE {}
  BY DEF C!Added
<1>4. ASSUME NEW n \in C!Names, n \in Builtins PROVE C!Without(h)[n] = C!Firmware
  <2>1. n \notin C!Added(h)
    BY <1>3, <1>4, ConsoleFits DEF Registry, C!ConsoleAssumption, C!Helpers
  <2> QED
    BY <1>2, <1>4, <2>1 DEF Registry
<1>5. ASSUME NEW n \in C!Names \ Builtins
      PROVE  C!Without(h)[n] # C!Nobody <=> \E m \in DOMAIN C!Forgotten(h) : n \in C!Forgotten(h)[m]
  <2>1. CASE n \in C!Added(h)
    <3>1. h \in DOMAIN loaded /\ n \in loaded[h]
      BY <1>3, <2>1
    <3>2. \A m \in DOMAIN loaded \ {h} : n \notin loaded[m]
      BY <3>1 DEF Registry
    <3> QED
      BY <1>1, <1>2, <2>1, <3>2
  <2>2. CASE n \notin C!Added(h)
    <3>1. h \in DOMAIN loaded => n \notin loaded[h]
      BY <1>3, <2>2
    <3>2. C!Without(h)[n] = commands[n]
      BY <1>2, <2>2
    <3>3. commands[n] # C!Nobody <=> \E m \in DOMAIN loaded : n \in loaded[m]
      BY DEF Registry
    <3> QED
      BY <1>1, <3>1, <3>2, <3>3
  <2> QED
    BY <2>1, <2>2
<1>6. /\ DOMAIN C!Forgotten(h) \subseteq C!Helpers
      /\ \A m \in DOMAIN C!Forgotten(h) : C!Forgotten(h)[m] \subseteq Registers[m]
      /\ \A m, k \in DOMAIN C!Forgotten(h) : m # k => C!Forgotten(h)[m] \cap C!Forgotten(h)[k] = {}
  BY <1>1 DEF Registry
<1> QED
  BY <1>1, <1>4, <1>5, <1>6 DEF Registry

\* load() leaves a true registry, whether the module throws or not.
LEMMA Loads ==
  ASSUME NEW cm, NEW known, Registry(cm, known), NEW h \in C!Helpers, h \notin DOMAIN known,
         NEW found \in SUBSET Registers[h], NEW nw, nw = C!With(cm, found, h)
  PROVE  /\ Registry([n \in C!Names |-> IF n \in C!Known(nw) \ C!Known(cm) THEN C!Nobody ELSE nw[n]], known)
         /\ Registry(nw, [m \in DOMAIN known \cup {h} |->
                             IF m = h THEN C!Known(nw) \ C!Known(cm) ELSE known[m]])
<1> DEFINE new == C!Known(nw) \ C!Known(cm)
           failed == [n \in C!Names |-> IF n \in new THEN C!Nobody ELSE nw[n]]
           adds == [m \in DOMAIN known \cup {h} |-> IF m = h THEN new ELSE known[m]]
<1>1. \A n \in C!Names : nw[n] = IF n \in found THEN h ELSE cm[n]
  BY DEF C!With
<1>2. h # C!Nobody /\ found \subseteq C!Names /\ found \cap Builtins = {} /\ C!Firmware # C!Nobody
  BY ConsoleFits DEF C!ConsoleAssumption, C!Helpers, C!Names, C!Firmware, C!Nobody
<1>3. \A n : n \in new <=> n \in found /\ cm[n] = C!Nobody
  BY <1>1, <1>2 DEF C!Known
<1>4. \A n \in C!Names : failed[n] = IF n \in new THEN C!Nobody ELSE nw[n]
  OBVIOUS
<1>5. /\ DOMAIN adds = DOMAIN known \cup {h} /\ adds[h] = new
      /\ \A m \in DOMAIN known : adds[m] = known[m]
  OBVIOUS
<1> HIDE DEF new, failed, adds
<1>6. \A n \in C!Names : n \in Builtins => nw[n] = C!Firmware /\ failed[n] = C!Firmware
  BY <1>1, <1>2, <1>3, <1>4 DEF Registry
<1>7. Registry(failed, known)
  <2>1. ASSUME NEW n \in C!Names \ Builtins PROVE failed[n] # C!Nobody <=> cm[n] # C!Nobody
    BY <1>1, <1>2, <1>3, <1>4
  <2> QED
    BY <1>6, <2>1 DEF Registry
<1>8. ASSUME NEW m \in DOMAIN known PROVE new \cap known[m] = {}
  <2>1. ASSUME NEW n \in new, n \in known[m] PROVE FALSE
    <3>1. n \in C!Names \ Builtins /\ cm[n] = C!Nobody
      BY <1>2, <1>3
    <3> QED
      BY <2>1, <3>1 DEF Registry
  <2> QED
    BY <2>1
<1>9. Registry(nw, adds)
  <2>1. ASSUME NEW n \in C!Names \ Builtins
        PROVE  nw[n] # C!Nobody <=> \E m \in DOMAIN adds : n \in adds[m]
    <3>1. cm[n] # C!Nobody <=> \E m \in DOMAIN known : n \in known[m]
      BY DEF Registry
    <3>2. CASE n \in found
      BY <1>1, <1>2, <1>3, <1>5, <3>1, <3>2
    <3>3. CASE n \notin found
      BY <1>1, <1>3, <1>5, <3>1, <3>3
    <3> QED
      BY <3>2, <3>3
  <2>2. new \subseteq Registers[h]
    BY <1>3
  <2>3. DOMAIN adds \subseteq C!Helpers
    BY <1>5 DEF Registry
  <2>4. \A m \in DOMAIN adds : adds[m] \subseteq Registers[m]
    BY <1>5, <2>2 DEF Registry
  <2>5. \A m, k \in DOMAIN adds : m # k => adds[m] \cap adds[k] = {}
    BY <1>5, <1>8 DEF Registry
  <2> QED
    BY <1>6, <2>1, <2>3, <2>4, <2>5 DEF Registry
<1> QED
  BY <1>7, <1>9 DEF new, failed, adds

\* As shipped the registry is true, and so it is once everything is dropped.
LEMMA Shipped == Registry(C!AsShipped, <<>>)
<1>1. DOMAIN <<>> = {}
  OBVIOUS
<1>2. \A n \in C!Names : C!AsShipped[n] = IF n \in Builtins THEN C!Firmware ELSE C!Nobody
  BY DEF C!AsShipped
<1> QED
  BY <1>1, <1>2 DEF Registry

\* Dropping every module leaves what the firmware registered.
LEMMA DropsAll ==
  ASSUME Registry(commands, loaded)
  PROVE  Registry([n \in C!Names |->
             IF \E h \in DOMAIN loaded : n \in loaded[h] THEN C!Nobody ELSE commands[n]], <<>>)
<1> DEFINE t == [n \in C!Names |->
             IF \E h \in DOMAIN loaded : n \in loaded[h] THEN C!Nobody ELSE commands[n]]
<1>1. \A n \in C!Names : t[n] = IF \E h \in DOMAIN loaded : n \in loaded[h] THEN C!Nobody ELSE commands[n]
  OBVIOUS
<1>2. DOMAIN <<>> = {}
  OBVIOUS
<1> HIDE DEF t
<1>3. ASSUME NEW n \in C!Names, n \in Builtins PROVE t[n] = C!Firmware
  <2>1. ~\E h \in DOMAIN loaded : n \in loaded[h]
    BY <1>3, ConsoleFits DEF Registry, C!ConsoleAssumption, C!Helpers
  <2> QED
    BY <1>1, <1>3, <2>1 DEF Registry
<1>4. ASSUME NEW n \in C!Names \ Builtins PROVE t[n] = C!Nobody
  BY <1>1 DEF Registry
<1> QED
  BY <1>2, <1>3, <1>4 DEF Registry, t

--------------------------------------------------------------------------------
(* The shell: every step keeps the invariant *)

\* The end of a line, as far as it concerns the nesting.
LEMMA EndsKeep ==
  ASSUME Nesting, Filling, loop = "running", NEW ok \in BOOLEAN, NEW on, C!Ends(ok, on)
  PROVE  Nesting' /\ ~Watching'
<1>1. /\ Chain(calls, file) /\ calls # <<>>
      /\ calls' = C!Front(calls) /\ file' = C!Last(calls).prev
      /\ worked' \in {"ok", "failed"}
      /\ loop' = "running" <=> Len(calls) > 1
  BY DEF Nesting, C!Ends, C!Top
<1>2. /\ Chain(calls', file')
      /\ Len(calls') = Len(calls) - 1 /\ Len(calls) \in Nat \ {0}
      /\ calls' # <<>> => C!Last(calls').does = "exec"
  BY <1>1, Pops
<1>3. calls' # <<>> <=> Len(calls') # 0
  BY <1>2, EmptySeq DEF Chain
<1>4. loop' = "running" <=> calls' # <<>>
  BY <1>1, <1>2, <1>3
<1>5. loop' = "running" => C!Top'.does = "exec"
  BY <1>2, <1>4 DEF C!Top
<1> QED
  BY <1>2, <1>4, <1>5 DEF Nesting, Watching

\* The beginning of a line, or its refusal, under the lines that run it.
LEMMA RunLineKeeps ==
  ASSUME NEW under, Chain(under, file), under # <<>> => C!Last(under).does = "exec",
         C!RunLine(under), UNCHANGED checks, checks \in 0..Every - 1, late \in 0..Every - 1
  PROVE  Nesting' /\ late' \in 0..Every - 1 /\ (Watching' => late' = 0)
<1>1. CASE C!Refused(under)
  <2>1. /\ calls' = under /\ file' = file /\ late' = late
        /\ loop' = "running" <=> calls' # <<>>
    BY <1>1 DEF C!Refused
  <2>2. loop' = "running" => C!Top'.does = "exec"
    BY <2>1 DEF C!Top
  <2> QED
    BY <2>1, <2>2 DEF Nesting, Watching
<1>2. CASE C!Begins(under)
  <2>1. PICK does \in {"plain", "watch", "exec", "exit", "use", "drop"}, to \in Files \cup {C!Screen} :
           /\ \E left \in IF does \in {"watch", "exec"} THEN 0..MaxLines ELSE {0} :
                 calls' = Append(under, C!Line(does, to, left))
           /\ file' = IF to = C!Screen THEN file ELSE to
           /\ worked' = "none" /\ loop' = "running" /\ late' = 0
    BY <1>2 DEF C!Begins
  <2>2. PICK left \in Nat : calls' = Append(under, C!Line(does, to, left))
    BY <2>1
  <2>3. PICK l : l = C!Line(does, to, left)
    OBVIOUS
  <2>4. l \in Lines /\ l.prev = file /\ l.to = to
    BY <2>3 DEF C!Line, Lines, Sinks, Chain
  <2>5. /\ Chain(Append(under, l), IF l.to = C!Screen THEN file ELSE l.to)
        /\ Append(under, l) # <<>>
    BY <2>4, Pushes
  <2>6. Chain(calls', file') /\ calls' # <<>>
    BY <2>1, <2>2, <2>3, <2>4, <2>5
  <2>7. 0 \in 0..Every - 1
    BY EveryIs
  <2> QED
    BY <2>1, <2>6, <2>7 DEF Nesting
<1> QED
  BY <1>1, <1>2 DEF C!RunLine

\* The line under way counts down.
LEMMA CountsDown ==
  ASSUME Nesting, loop = "running", C!Top.left > 0, NEW d, d = [calls EXCEPT ![Len(calls)].left = @ - 1]
  PROVE  /\ Chain(d, file) /\ d # <<>> /\ C!Last(d).does = C!Top.does
BY Counts DEF Nesting, C!Top

\* The invariant holds when the firmware starts.
LEMMA ConsoleInitially == C!Init => ConsoleInv
<1> SUFFICES ASSUME C!Init PROVE ConsoleInv
  OBVIOUS
<1>1. /\ loop = "waiting" /\ file = C!Screen /\ calls = <<>> /\ commands = C!AsShipped /\ loaded = <<>>
      /\ free \in {Floor, Room} /\ checks = 0 /\ late = 0
  BY DEF C!Init
<1>2. Registry(commands, loaded)
  BY <1>1, Shipped
<1>3. Chain(<<>>, C!Screen)
  BY DEF Chain, Sends, Sinks
<1>4. Nesting
  BY <1>1, <1>3 DEF Nesting
<1>5. Filling
  BY <1>1, EveryIs DEF Filling, Watching
<1> QED
  BY <1>2, <1>4, <1>5 DEF ConsoleInv

\* A command that runs keeps it, whatever it does and however it ends.
LEMMA CommandsKeep ==
  ASSUME ConsoleInv, C!Command
  PROVE  ConsoleInv'
<1>1. /\ Registry(commands, loaded) /\ Nesting /\ Filling
      /\ free \in Nat /\ checks \in 0..Every - 1 /\ late \in 0..Every - 1
  BY DEF ConsoleInv, Filling
<1>2. ASSUME loop = "running", Nesting', ~Watching', UNCHANGED <<checks, late>>, free' \in Nat,
             Registry(commands', loaded')
      PROVE  ConsoleInv'
  BY <1>1, <1>2 DEF ConsoleInv, Filling
<1>3. CASE C!Plain
  <2>1. /\ loop = "running" /\ free' \in C!Written(free)
        /\ UNCHANGED <<commands, loaded, checks, late>>
        /\ \E ok \in BOOLEAN : C!Ends(ok, running)
    BY <1>3 DEF C!Plain, C!At, C!registry
  <2> QED
    BY <1>1, <1>2, <2>1, EndsKeep, WrittenIs
<1>4. CASE C!Exit
  <2>1. /\ loop = "running" /\ C!Ends(TRUE, FALSE)
        /\ UNCHANGED <<commands, loaded, free, checks, late>>
    BY <1>4 DEF C!Exit, C!At, C!registry, C!volume
  <2> QED
    BY <1>1, <1>2, <2>1, EndsKeep
<1>5. CASE C!Sweep
  <2>1. /\ loop = "running" /\ C!Top.does = "watch" /\ C!Top.left > 0
        /\ checks' = C!Counted /\ UNCHANGED <<commands, loaded>>
    BY <1>5 DEF C!Sweep, C!At, C!registry
  <2>0. PICK room \in C!Written(free) :
           IF C!OutOfRoom(room)
           THEN C!Ends(TRUE, running) /\ free' = room /\ UNCHANGED late
           ELSE /\ calls' = [calls EXCEPT ![Len(calls)].left = @ - 1]
                /\ free' \in C!Written(room)
                /\ late' = IF file # C!Screen /\ room < Floor THEN late + 1 ELSE late
                /\ UNCHANGED <<host, loop, running, file, worked>>
    BY <1>5 DEF C!Sweep
  <2>9. room \in Nat /\ room <= free
    BY <1>1, <2>0 DEF C!Written
  <2>2. CASE C!OutOfRoom(room)
    <3>1. C!Ends(TRUE, running) /\ free' = room /\ UNCHANGED late
      BY <2>0, <2>2
    <3>2. Nesting' /\ ~Watching'
      BY <1>1, <2>1, <3>1, EndsKeep
    <3> QED
      BY <1>1, <2>1, <2>9, <3>1, <3>2, CountedIs DEF ConsoleInv, Filling
  <2>3. CASE ~C!OutOfRoom(room)
    <3>1. /\ calls' = [calls EXCEPT ![Len(calls)].left = @ - 1]
          /\ free' \in C!Written(room)
          /\ late' = IF file # C!Screen /\ room < Floor THEN late + 1 ELSE late
          /\ UNCHANGED <<loop, file, worked>>
      BY <2>0, <2>3
    <3>2. Chain(calls', file) /\ calls' # <<>> /\ C!Top'.does = "watch"
      BY <1>1, <2>1, <3>1, CountsDown DEF C!Top
    <3>3. Nesting'
      BY <1>1, <2>1, <3>1, <3>2 DEF Nesting
    <3>4. free' \in Nat /\ free' <= room
      BY <2>9, <3>1 DEF C!Written
    <3>5. late <= checks /\ (late > 0 => free < Floor)
      BY <1>1, <2>1 DEF Filling, Watching
    <3>6. CASE file = C!Screen
      <4>1. checks' = checks /\ late' = late /\ free' = free
        BY <1>1, <2>0, <2>1, <3>1, <3>6, CountedIs DEF C!Written
      <4> QED
        BY <1>1, <2>1, <3>3, <3>5, <4>1 DEF ConsoleInv, Filling
    <3>7. CASE file # C!Screen /\ C!Counted = 0
      <4>1. room >= Floor /\ free >= Floor
        BY <1>1, <2>3, <2>9, <3>7, EveryIs DEF C!OutOfRoom
      <4>2. late = 0 /\ late' = late
        BY <1>1, <2>9, <3>1, <3>5, <4>1, EveryIs
      <4> QED
        BY <1>1, <2>1, <2>9, <3>3, <3>4, <3>7, <4>2, CountedIs DEF ConsoleInv, Filling
    <3>8. CASE file # C!Screen /\ C!Counted = checks + 1
      <4>1. checks' = checks + 1 /\ checks' \in 0..Every - 1
        BY <1>1, <2>1, <3>8, CountedIs
      <4>2. CASE room < Floor
        <5>1. late' = late + 1 /\ free' < Floor
          BY <1>1, <2>9, <3>1, <3>4, <3>8, <4>2, EveryIs
        <5>2. late' \in 0..Every - 1 /\ late' <= checks'
          BY <1>1, <3>5, <4>1, <5>1, EveryIs
        <5> QED
          BY <1>1, <2>1, <3>3, <3>4, <4>1, <5>1, <5>2 DEF ConsoleInv, Filling
      <4>3. CASE ~(room < Floor)
        <5>1. late' = 0
          BY <1>1, <2>9, <3>1, <3>5, <4>3, EveryIs
        <5> QED
          BY <1>1, <2>1, <3>3, <3>4, <4>1, <5>1, EveryIs DEF ConsoleInv, Filling
      <4> QED
        BY <4>2, <4>3
    <3> QED
      BY <1>1, <3>6, <3>7, <3>8, CountedIs
  <2> QED
    BY <2>2, <2>3
<1>6. CASE C!SweepsEnd
  <2>1. /\ loop = "running" /\ \E ok \in BOOLEAN : C!Ends(ok, running)
        /\ UNCHANGED <<commands, loaded, free, checks, late>>
    BY <1>6 DEF C!SweepsEnd, C!At, C!registry, C!volume
  <2> QED
    BY <1>1, <1>2, <2>1, EndsKeep
<1>7. CASE C!ExecLine
  <2> DEFINE under == [calls EXCEPT ![Len(calls)].left = @ - 1]
  <2>1. /\ loop = "running" /\ C!Top.does = "exec" /\ C!Top.left > 0
        /\ free' \in C!Written(free) /\ C!RunLine(under)
        /\ UNCHANGED <<commands, loaded, checks>>
    BY <1>7 DEF C!ExecLine, C!At, C!registry
  <2>2. Chain(under, file) /\ under # <<>> /\ C!Last(under).does = "exec"
    BY <1>1, <2>1, CountsDown
  <2> HIDE DEF under
  <2>3. Nesting' /\ late' \in 0..Every - 1 /\ (Watching' => late' = 0)
    BY <1>1, <2>1, <2>2, RunLineKeeps
  <2>4. free' \in Nat
    BY <1>1, <2>1, WrittenIs
  <2> QED
    BY <1>1, <2>1, <2>3, <2>4 DEF ConsoleInv, Filling
<1>8. CASE C!ExecStops
  <2>1. /\ loop = "running" /\ C!Ends(FALSE, running)
        /\ UNCHANGED <<commands, loaded, free, checks, late>>
    BY <1>8 DEF C!ExecStops, C!At, C!registry, C!volume
  <2> QED
    BY <1>1, <1>2, <2>1, EndsKeep
<1>9. CASE C!ExecEnds
  <2>1. /\ loop = "running" /\ C!Ends(TRUE, running)
        /\ UNCHANGED <<commands, loaded, free, checks, late>>
    BY <1>9 DEF C!ExecEnds, C!At, C!registry, C!volume
  <2> QED
    BY <1>1, <1>2, <2>1, EndsKeep
<1>10. CASE C!Use
  <2>1. /\ loop = "running" /\ UNCHANGED <<free, checks, late>>
        /\ \E ok \in BOOLEAN : C!Ends(ok, running)
    BY <1>10 DEF C!Use, C!At, C!volume
  <2>0. PICK h \in C!Helpers : \E found \in SUBSET Registers[h] :
           C!LoadFails(h, found) \/ C!LoadWorks(h, found)
    BY <1>10 DEF C!Use
  <2>2. PICK found \in SUBSET Registers[h] : C!LoadFails(h, found) \/ C!LoadWorks(h, found)
    BY <2>0
  <2>3. PICK cm, known, nw : /\ cm = C!Without(h) /\ known = C!Forgotten(h)
                             /\ nw = C!With(cm, found, h)
    OBVIOUS
  <2>4. Registry(cm, known) /\ h \notin DOMAIN known
    BY <1>1, <2>3, Unloads
  <2>5. /\ Registry([n \in C!Names |-> IF n \in C!Known(nw) \ C!Known(cm) THEN C!Nobody ELSE nw[n]], known)
        /\ Registry(nw, [m \in DOMAIN known \cup {h} |->
                            IF m = h THEN C!Known(nw) \ C!Known(cm) ELSE known[m]])
    BY <2>3, <2>4, Loads
  <2>6. CASE C!LoadFails(h, found)
    <3>1. /\ loaded' = known
          /\ commands' = [n \in C!Names |-> IF n \in C!Known(nw) \ C!Known(cm) THEN C!Nobody ELSE nw[n]]
      BY <2>3, <2>6 DEF C!LoadFails
    <3> QED
      BY <1>1, <1>2, <2>1, <2>5, <3>1, EndsKeep
  <2>7. CASE C!LoadWorks(h, found)
    <3>1. /\ commands' = nw
          /\ loaded' = [m \in DOMAIN loaded \cup {h} |->
                           IF m = h THEN C!Known(nw) \ C!Known(cm) ELSE loaded[m]]
      BY <2>3, <2>7 DEF C!LoadWorks
    <3>2. /\ DOMAIN known \cup {h} = DOMAIN loaded \cup {h}
          /\ \A m \in DOMAIN known \cup {h} : m # h => known[m] = loaded[m]
      BY <2>3 DEF C!Forgotten
    <3>3. [m \in DOMAIN known \cup {h} |-> IF m = h THEN C!Known(nw) \ C!Known(cm) ELSE known[m]]
          = [m \in DOMAIN loaded \cup {h} |-> IF m = h THEN C!Known(nw) \ C!Known(cm) ELSE loaded[m]]
      BY <3>2
    <3> QED
      BY <1>1, <1>2, <2>1, <2>5, <3>1, <3>3, EndsKeep
  <2> QED
    BY <2>2, <2>6, <2>7
<1>11. CASE C!Drop
  <2>1. /\ loop = "running" /\ C!Ends(TRUE, running) /\ UNCHANGED <<free, checks, late>>
    BY <1>11 DEF C!Drop, C!At, C!volume
  <2>2. ASSUME NEW h \in C!Helpers, commands' = C!Without(h), loaded' = C!Forgotten(h)
        PROVE  Registry(commands', loaded')
    BY <1>1, <2>2, Unloads
  <2>3. ASSUME commands' = [n \in C!Names |->
                   IF \E h \in DOMAIN loaded : n \in loaded[h] THEN C!Nobody ELSE commands[n]],
               loaded' = <<>>
        PROVE  Registry(commands', loaded')
    BY <1>1, <2>3, DropsAll
  <2>4. Registry(commands', loaded')
    BY <1>11, <2>2, <2>3 DEF C!Drop
  <2> QED
    BY <1>1, <1>2, <2>1, <2>4, EndsKeep
<1> QED
  BY <1>3, <1>4, <1>5, <1>6, <1>7, <1>8, <1>9, <1>10, <1>11 DEF C!Command

\* So does everything else: the host, the prompt, the REPL.
LEMMA ConsoleKeeps == ConsoleInv /\ [C!Next]_(C!vars) => ConsoleInv'
<1> SUFFICES ASSUME ConsoleInv, [C!Next]_(C!vars) PROVE ConsoleInv'
  OBVIOUS
<1>1. /\ Registry(commands, loaded) /\ Nesting /\ Filling
      /\ free \in Nat /\ checks \in 0..Every - 1 /\ late \in 0..Every - 1
  BY DEF ConsoleInv, Filling
<1>2. ASSUME UNCHANGED <<file, calls, worked, commands, loaded, checks, late>>, free' \in Nat,
             loop # "running", loop' # "running"
      PROVE  ConsoleInv'
  BY <1>1, <1>2 DEF ConsoleInv, Nesting, Filling, Watching, C!Top
<1>3. ASSUME UNCHANGED <<loop, file, calls, worked, commands, loaded, free, checks, late>>
      PROVE  ConsoleInv'
  BY <1>1, <1>3 DEF ConsoleInv, Nesting, Filling, Watching, C!Top
<1>4. CASE C!Command
  BY <1>4, CommandsKeep
<1>5. CASE C!Greets \/ C!Recovers \/ C!ReadEnds
  <2>1. /\ UNCHANGED <<file, calls, worked, commands, loaded, free, checks, late>>
        /\ loop # "running" /\ loop' # "running"
    BY <1>5 DEF C!Greets, C!Recovers, C!ReadEnds, C!idle, C!registry, C!volume
  <2> QED
    BY <1>1, <1>2, <2>1
<1>6. CASE C!Reads
  <2>1. /\ calls = <<>> /\ Chain(<<>>, file) /\ C!RunLine(<<>>)
        /\ UNCHANGED <<commands, loaded, free, checks>>
    BY <1>1, <1>6 DEF C!Reads, Nesting, C!registry
  <2>2. Nesting' /\ late' \in 0..Every - 1 /\ (Watching' => late' = 0)
    BY <1>1, <2>1, RunLineKeeps
  <2> QED
    BY <1>1, <2>1, <2>2 DEF ConsoleInv, Filling
<1>7. CASE C!Relaunches
  <2>1. /\ loop # "running" /\ loop' = "waiting" /\ file' = C!Screen /\ checks' = 0
        /\ UNCHANGED <<calls, worked, free, late>>
    BY <1>7 DEF C!Relaunches
  <2>2. Registry(commands', loaded')
    BY <1>1, <1>7, Shipped DEF C!Relaunches, C!registry
  <2>3. calls' = <<>> /\ Chain(<<>>, C!Screen)
    BY <1>1, <2>1 DEF Nesting, Chain, Sends, Sinks
  <2>4. Nesting'
    BY <2>1, <2>3 DEF Nesting
  <2>5. Filling'
    BY <1>1, <2>1, EveryIs DEF Filling, Watching
  <2> QED
    BY <2>2, <2>4, <2>5 DEF ConsoleInv
<1>8. CASE C!HostOpens \/ C!HostCloses
  BY <1>3, <1>8 DEF C!HostOpens, C!HostCloses, C!idle, C!registry, C!volume
<1>9. CASE C!MakesRoom
  <2>1. /\ UNCHANGED <<loop, file, calls, worked, commands, loaded, checks, late>>
        /\ loop # "running" /\ free' \in Nat
    BY <1>9, EveryIs DEF C!MakesRoom, C!registry
  <2> QED
    BY <1>2, <2>1
<1>10. CASE UNCHANGED C!vars
  BY <1>3, <1>10 DEF C!vars
<1> QED
  BY <1>4, <1>5, <1>6, <1>7, <1>8, <1>9, <1>10 DEF C!Next, C!Shell

--------------------------------------------------------------------------------
(* The shell: the theorems *)

\* The invariant of the shell, for every set of helper modules, files, depths
\* and sizes. (shell.py, output.py, extend.py)
THEOREM ShellIsSound == C!Spec => []ConsoleInv
BY ConsoleInitially, ConsoleKeeps, PTL DEF C!Spec

\* Outside a load, the registry holds the firmware's commands and exactly what
\* the loaded modules are known to have added, whatever failed in between.
\* (extend.py load, unload; registry.py)
THEOREM RegistryStaysTrue == C!Spec => []RegistryIsTrue
<1>1. ConsoleInv => RegistryIsTrue
  BY DEF ConsoleInv, Registry, RegistryIsTrue, C!RegistryIsTrue
<1> QED
  BY <1>1, ShellIsSound, PTL

\* Output goes where the innermost redirection in progress sends it, and a loop
\* that writes is stopped within _SPACE_EVERY sweeps of the floor. (output.py,
\* shell.py execute)
THEOREM OutputStaysInOrder == C!Spec => []OutputIsInOrder
<1>1. ConsoleInv => OutputIsInOrder
  <2> SUFFICES ASSUME ConsoleInv PROVE OutputIsInOrder
    OBVIOUS
  <2>1. Chain(calls, file) /\ late \in 0..Every - 1
    BY DEF ConsoleInv, Nesting, Filling
  <2>2. C!LoopsStopInTime
    BY <2>1, EveryIs DEF C!LoopsStopInTime
  <2>3. Len(calls) \in Nat /\ DOMAIN calls = 1..Len(calls) /\ Sends(calls, Len(calls), file)
    BY <2>1, LenProperties DEF Chain
  <2>4. C!Sent(calls) = {i \in 1..Len(calls) : calls[i].to # C!Screen}
    BY <2>3 DEF C!Sent
  <2>5. CASE file = C!Screen /\ \A k \in 1..Len(calls) : calls[k].to = C!Screen
    <3>1. C!Sent(calls) = {}
      BY <2>4, <2>5
    <3> QED
      BY <2>2, <2>5, <3>1 DEF OutputIsInOrder, C!OutputIsInOrder, C!SinksUnwind
  <2>6. ASSUME NEW k \in 1..Len(calls), calls[k].to # C!Screen, file = calls[k].to,
               \A j \in k + 1..Len(calls) : calls[j].to = C!Screen
        PROVE  OutputIsInOrder
    <3>1. k \in C!Sent(calls)
      BY <2>4, <2>6
    <3>2. \A j \in C!Sent(calls) : j <= k
      BY <2>3, <2>4, <2>6
    <3> QED
      BY <2>2, <2>6, <3>1, <3>2 DEF OutputIsInOrder, C!OutputIsInOrder, C!SinksUnwind
  <2> QED
    BY <2>3, <2>5, <2>6 DEF Sends
<1> QED
  BY <1>1, ShellIsSound, PTL

\* Once a line of a command file has failed, every exec around it fails in turn.
\* (cmd_sys.py cmd_exec, shell.py run_line)
THEOREM FailureStopsEveryExec == C!Spec => FailureStopsAll
<1> DEFINE Stops == loop = "running" /\ worked = "failed" /\ calls' # calls => worked' = "failed"
<1>1. ConsoleInv /\ [C!Next]_(C!vars) => [Stops]_(C!vars)
  <2> SUFFICES ASSUME ConsoleInv, C!Next, loop = "running", worked = "failed", calls' # calls
               PROVE  worked' = "failed"
    OBVIOUS
  <2>1. C!Top.does = "exec"
    BY DEF ConsoleInv, Nesting
  <2>2. C!Command
    BY DEF C!Next, C!Shell, C!Greets, C!Recovers, C!Reads, C!ReadEnds, C!Relaunches, C!HostOpens,
           C!HostCloses, C!MakesRoom, C!idle
  <2>3. C!ExecStops
    BY <2>1, <2>2 DEF C!Command, C!Plain, C!Exit, C!Sweep, C!SweepsEnd, C!ExecLine, C!ExecEnds,
                      C!Use, C!Drop, C!At
  <2> QED
    BY <2>3 DEF C!ExecStops, C!Ends
<1> QED
  BY <1>1, ShellIsSound, PTL DEF C!Spec, FailureStopsAll, C!FailureStopsAll

--------------------------------------------------------------------------------
(* The files of the volume: the inductive invariant *)

Flags == {formatted, mounted, editing, dirty} \subseteq BOOLEAN /\ excuses \subseteq Excuses

Steps == {"open", "chunks", "remove", "done"}

Domains ==
    /\ disk \in [Names -> Texts \cup {Missing, Cut}]
    /\ job \in [step : {"none", "write", "text", "mkfs", "mount"}]
          \cup [step : Steps \cup {"write"}, src : Names, dst : Names, why : {"copy", "move", "save"}]

\* Whose steps these are.
Saving      == job.step \in {"write", "text"} \/ (job.step \in Steps /\ job.why = "save")
Moving      == job.step \in Steps /\ job.why = "move"
Duplicating == job.step \in Steps /\ job.why = "copy"
Formatting  == job.step \in {"mkfs", "mount"}

JobKnown ==
    /\ job.step \in Steps => job.src # job.dst
    /\ job.step \in Steps /\ job.why = "save" => job.src = Path /\ job.dst = Backup
    /\ job.step = "remove" => job.why = "move"
    /\ job.step = "done" => job.why = "copy"
    /\ Saving <=> editing /\ job.step # "none"

\* Lines are clean outside the editor, and there are lines in it.
EditorKnown ==
    /\ ~editing => ~dirty
    /\ editing => lines \in Texts \cup {Cut}

\* A volume in use has a filesystem; nobody uses it while it is formatted.
MountKnown ==
    /\ mounted => formatted
    /\ job.step = "mount" => formatted
    /\ Formatting => ~mounted
    /\ job.step \in {"chunks", "remove", "done", "text"} => mounted

GhostsKnown ==
    /\ old \in Texts \cup {Missing}
    /\ Moving \/ Duplicating \/ Formatting => old = Missing
    /\ Saving \/ Duplicating \/ Formatting => moved = NoMove

\* Where the old text is, as a save goes on: still in the file until the backup has
\* been written, and in the backup from then on.
OldIsSomewhere ==
    old # Missing /\ excuses = {} =>
        /\ OnVolume(old)
        /\ job.step \in Steps => disk[Path] = old
        /\ mounted /\ job.step \in {"write", "text"} => disk[Backup] = old

\* The same for the text that is moved.
MovedIsSomewhere ==
    moved # NoMove /\ excuses = {} =>
        /\ moved.text \in {disk[moved.src], disk[moved.dst]}
        /\ Moving => moved.src = job.src /\ moved.dst = job.dst
        /\ Moving /\ job.step # "remove" => disk[job.src] = moved.text
        /\ job.step = "remove" => disk[job.dst] = moved.text

VolumeInv == Flags /\ Domains /\ JobKnown /\ EditorKnown /\ MountKnown /\ GhostsKnown
        /\ OldIsSomewhere /\ MovedIsSomewhere

\* What is assumed of the constants.
Sound == Missing \notin Texts /\ Cut \notin Texts

--------------------------------------------------------------------------------

\* What the words stand for is told apart.
LEMMA Words == Path \in Names /\ Backup \in Names /\ Path # Backup /\ Missing # Cut
  BY DEF Names, Path, Backup, Missing, Cut

\* The volume as it is shipped.
LEMMA VolumeInitially == ASSUME Sound, Init PROVE VolumeInv
<1>1. Flags /\ Domains
  BY Words DEF Init, Idle, Flags, Domains
<1>2. job.step = "none" /\ ~Saving /\ ~Moving /\ ~Duplicating /\ ~Formatting
  BY DEF Init, Idle, Steps, Saving, Moving, Duplicating, Formatting
<1>3. JobKnown /\ EditorKnown /\ MountKnown /\ GhostsKnown /\ OldIsSomewhere /\ MovedIsSomewhere
  BY <1>2, Words DEF Sound, Init, Steps, JobKnown, EditorKnown, MountKnown, GhostsKnown,
     OldIsSomewhere, MovedIsSomewhere
<1> QED
  BY <1>1, <1>3 DEF VolumeInv

\* A destination is emptied: never the file that is moved or saved, for it is the source.
LEMMA CopyOpensInv == ASSUME Sound, VolumeInv, CopyOpens PROVE VolumeInv'
<1>1. Flags'
  BY DEF CopyOpens, At, fs, editor, ghosts, VolumeInv, Flags, Excuses
<1>2. Domains'
  BY Words DEF Sound, CopyOpens, At, fs, editor, ghosts, VolumeInv, Domains, JobKnown, Steps, Saving
<1>3. JobKnown'
  BY Words DEF CopyOpens, At, fs, editor, ghosts, VolumeInv, Domains, JobKnown, Steps, Saving
<1>4. EditorKnown'
  BY Words DEF CopyOpens, At, fs, editor, ghosts, VolumeInv, Flags, JobKnown, EditorKnown, Steps,
     Saving
<1>5. MountKnown'
  BY Words DEF CopyOpens, At, fs, editor, ghosts, VolumeInv, Flags, JobKnown, MountKnown, Steps,
     Saving, Formatting
<1>6. GhostsKnown'
  BY Words DEF Sound, CopyOpens, At, fs, editor, ghosts, VolumeInv, Domains, JobKnown, MountKnown,
     GhostsKnown, Steps, Saving, Moving, Duplicating, Formatting
<1>7. OldIsSomewhere'
  BY Words DEF Sound, CopyOpens, At, fs, editor, ghosts, VolumeInv, Domains, JobKnown, MountKnown,
     GhostsKnown, OldIsSomewhere, OnVolume, Steps, Saving, Moving, Duplicating, Formatting
<1>8. MovedIsSomewhere'
  BY Words DEF Sound, CopyOpens, At, fs, editor, ghosts, VolumeInv, Domains, JobKnown, MountKnown,
     GhostsKnown, MovedIsSomewhere, Steps, Saving, Moving, Duplicating, Formatting
<1> QED
  BY <1>1, <1>2, <1>3, <1>4, <1>5, <1>6, <1>7, <1>8 DEF VolumeInv

\* The copy is there; from now on the destination stands for the source.
LEMMA CopyRunsInv == ASSUME Sound, VolumeInv, CopyRuns PROVE VolumeInv'
<1>1. Flags'
  BY DEF CopyRuns, At, Landed, Follows, fs, editor, ghosts, VolumeInv, Flags, Excuses
<1>2. Domains'
  BY Words DEF Sound, CopyRuns, At, Landed, Follows, fs, editor, ghosts, VolumeInv, Domains,
     JobKnown, Steps, Saving
<1>3. JobKnown'
  BY Words DEF CopyRuns, At, Landed, Follows, fs, editor, ghosts, VolumeInv, Domains, JobKnown,
     Steps, Saving
<1>4. EditorKnown'
  BY Words DEF CopyRuns, At, Landed, Follows, fs, editor, ghosts, VolumeInv, Flags, JobKnown,
     EditorKnown, Steps, Saving
<1>5. MountKnown'
  BY Words DEF CopyRuns, At, Landed, Follows, fs, editor, ghosts, VolumeInv, Flags, JobKnown,
     MountKnown, Domains, Steps, Saving, Formatting
<1>6. GhostsKnown'
  BY Words DEF Sound, CopyRuns, At, Landed, Follows, fs, editor, ghosts, VolumeInv, Domains,
     JobKnown, MountKnown, GhostsKnown, Steps, Saving, Moving, Duplicating, Formatting
<1>7. OldIsSomewhere'
  BY Words DEF Sound, CopyRuns, At, Landed, Follows, fs, editor, ghosts, VolumeInv, Domains,
     JobKnown, MountKnown, GhostsKnown, OldIsSomewhere, OnVolume, Steps, Saving, Moving,
     Duplicating, Formatting
<1>8. MovedIsSomewhere'
  BY Words DEF Sound, CopyRuns, At, Landed, Follows, fs, editor, ghosts, VolumeInv, Domains,
     JobKnown, MountKnown, GhostsKnown, MovedIsSomewhere, Steps, Saving, Moving, Duplicating,
     Formatting
<1> QED
  BY <1>1, <1>2, <1>3, <1>4, <1>5, <1>6, <1>7, <1>8 DEF VolumeInv

\* The source goes when the destination holds its text.
LEMMA MoveRemovesInv == ASSUME Sound, VolumeInv, MoveRemoves PROVE VolumeInv'
<1>1. Flags'
  BY DEF MoveRemoves, At, Idle, fs, editor, ghosts, VolumeInv, Flags, Excuses
<1>2. Domains'
  BY Words DEF Sound, MoveRemoves, At, Idle, fs, editor, ghosts, VolumeInv, Domains, JobKnown, Steps,
     Saving
<1>3. JobKnown'
  BY Words DEF MoveRemoves, At, Idle, fs, editor, ghosts, VolumeInv, Domains, JobKnown, Steps, Saving
<1>4. EditorKnown'
  BY Words DEF MoveRemoves, At, Idle, fs, editor, ghosts, VolumeInv, Flags, JobKnown, EditorKnown,
     Steps, Saving
<1>5. MountKnown'
  BY Words DEF MoveRemoves, At, Idle, fs, editor, ghosts, VolumeInv, Flags, JobKnown, MountKnown,
     Steps, Saving, Formatting
<1>6. GhostsKnown'
  BY Words DEF Sound, MoveRemoves, At, Idle, fs, editor, ghosts, VolumeInv, Domains, JobKnown,
     MountKnown, GhostsKnown, Steps, Saving, Moving, Duplicating, Formatting
<1>7. OldIsSomewhere'
  BY Words DEF Sound, MoveRemoves, At, Idle, fs, editor, ghosts, VolumeInv, Domains, JobKnown,
     MountKnown, GhostsKnown, OldIsSomewhere, OnVolume, Steps, Saving, Moving, Duplicating,
     Formatting
<1>8. MovedIsSomewhere'
  BY Words DEF Sound, MoveRemoves, At, Idle, fs, editor, ghosts, VolumeInv, Domains, JobKnown,
     MountKnown, GhostsKnown, MovedIsSomewhere, Steps, Saving, Moving, Duplicating, Formatting
<1> QED
  BY <1>1, <1>2, <1>3, <1>4, <1>5, <1>6, <1>7, <1>8 DEF VolumeInv

\* A copy or a move is broken off: what was the case goes on.
LEMMA CopyEndsInv == ASSUME Sound, VolumeInv, CopyEnds PROVE VolumeInv'
<1>1. Flags'
  BY DEF CopyEnds, Ends, Idle, fs, editor, ghosts, VolumeInv, Flags, Excuses
<1>2. Domains'
  BY Words DEF Sound, CopyEnds, Ends, Idle, fs, editor, ghosts, VolumeInv, Domains, JobKnown, Steps,
     Saving
<1>3. JobKnown'
  BY Words DEF CopyEnds, Ends, Idle, fs, editor, ghosts, VolumeInv, Domains, JobKnown, Steps, Saving
<1>4. EditorKnown'
  BY Words DEF CopyEnds, Ends, Idle, fs, editor, ghosts, VolumeInv, Flags, JobKnown, EditorKnown,
     Steps, Saving
<1>5. MountKnown'
  BY Words DEF CopyEnds, Ends, Idle, fs, editor, ghosts, VolumeInv, Flags, JobKnown, MountKnown,
     Steps, Saving, Formatting
<1>6. GhostsKnown'
  BY Words DEF Sound, CopyEnds, Ends, Idle, fs, editor, ghosts, VolumeInv, Domains, JobKnown,
     MountKnown, GhostsKnown, Steps, Saving, Moving, Duplicating, Formatting
<1>7. OldIsSomewhere'
  BY Words DEF Sound, CopyEnds, Ends, Idle, fs, editor, ghosts, VolumeInv, Domains, JobKnown,
     MountKnown, GhostsKnown, OldIsSomewhere, OnVolume, Steps, Saving, Moving, Duplicating,
     Formatting
<1>8. MovedIsSomewhere'
  BY Words DEF Sound, CopyEnds, Ends, Idle, fs, editor, ghosts, VolumeInv, Domains, JobKnown,
     MountKnown, GhostsKnown, MovedIsSomewhere, Steps, Saving, Moving, Duplicating, Formatting
<1> QED
  BY <1>1, <1>2, <1>3, <1>4, <1>5, <1>6, <1>7, <1>8 DEF VolumeInv

\* The editor opens with clean lines.
LEMMA EditLoadsInv == ASSUME Sound, VolumeInv, EditLoads PROVE VolumeInv'
<1>1. Flags'
  BY DEF EditLoads, At, fs, ghosts, VolumeInv, Flags, Excuses
<1>2. Domains'
  BY Words DEF Sound, EditLoads, At, fs, ghosts, VolumeInv, Domains, JobKnown, Steps, Saving
<1>3. JobKnown'
  BY Words DEF EditLoads, At, fs, ghosts, VolumeInv, Domains, JobKnown, Steps, Saving
<1>4. EditorKnown'
  BY Words DEF EditLoads, At, fs, ghosts, VolumeInv, Flags, JobKnown, EditorKnown, Domains, Steps,
     Saving
<1>5. MountKnown'
  BY Words DEF EditLoads, At, fs, ghosts, VolumeInv, Flags, JobKnown, MountKnown, Steps, Saving,
     Formatting
<1>6. GhostsKnown'
  BY Words DEF Sound, EditLoads, At, fs, ghosts, VolumeInv, Domains, JobKnown, MountKnown,
     GhostsKnown, Steps, Saving, Moving, Duplicating, Formatting
<1>7. OldIsSomewhere'
  BY Words DEF Sound, EditLoads, At, fs, ghosts, VolumeInv, Domains, JobKnown, MountKnown,
     GhostsKnown, OldIsSomewhere, OnVolume, Steps, Saving, Moving, Duplicating, Formatting
<1>8. MovedIsSomewhere'
  BY Words DEF Sound, EditLoads, At, fs, ghosts, VolumeInv, Domains, JobKnown, MountKnown,
     GhostsKnown, MovedIsSomewhere, Steps, Saving, Moving, Duplicating, Formatting
<1> QED
  BY <1>1, <1>2, <1>3, <1>4, <1>5, <1>6, <1>7, <1>8 DEF VolumeInv

\* Lines are changed in memory.
LEMMA EditChangesInv == ASSUME Sound, VolumeInv, EditChanges PROVE VolumeInv'
<1>1. Flags'
  BY DEF EditChanges, InEditor, At, fs, ghosts, VolumeInv, Flags, Excuses
<1>2. Domains'
  BY Words DEF Sound, EditChanges, InEditor, At, fs, ghosts, VolumeInv, Domains, JobKnown, Steps,
     Saving
<1>3. JobKnown'
  BY Words DEF EditChanges, InEditor, At, fs, ghosts, VolumeInv, Domains, JobKnown, Steps, Saving
<1>4. EditorKnown'
  BY Words DEF EditChanges, InEditor, At, fs, ghosts, VolumeInv, Flags, JobKnown, EditorKnown, Steps,
     Saving
<1>5. MountKnown'
  BY Words DEF EditChanges, InEditor, At, fs, ghosts, VolumeInv, Flags, JobKnown, MountKnown, Steps,
     Saving, Formatting
<1>6. GhostsKnown'
  BY Words DEF Sound, EditChanges, InEditor, At, fs, ghosts, VolumeInv, Domains, JobKnown,
     MountKnown, GhostsKnown, Steps, Saving, Moving, Duplicating, Formatting
<1>7. OldIsSomewhere'
  BY Words DEF Sound, EditChanges, InEditor, At, fs, ghosts, VolumeInv, Domains, JobKnown,
     MountKnown, GhostsKnown, OldIsSomewhere, OnVolume, Steps, Saving, Moving, Duplicating,
     Formatting
<1>8. MovedIsSomewhere'
  BY Words DEF Sound, EditChanges, InEditor, At, fs, ghosts, VolumeInv, Domains, JobKnown,
     MountKnown, GhostsKnown, MovedIsSomewhere, Steps, Saving, Moving, Duplicating, Formatting
<1> QED
  BY <1>1, <1>2, <1>3, <1>4, <1>5, <1>6, <1>7, <1>8 DEF VolumeInv

\* The editor closes.
LEMMA EditQuitsInv == ASSUME Sound, VolumeInv, EditQuits PROVE VolumeInv'
<1>1. Flags'
  BY DEF EditQuits, InEditor, At, fs, ghosts, VolumeInv, Flags, Excuses
<1>2. Domains'
  BY Words DEF Sound, EditQuits, InEditor, At, fs, ghosts, VolumeInv, Domains, JobKnown, Steps,
     Saving
<1>3. JobKnown'
  BY Words DEF EditQuits, InEditor, At, fs, ghosts, VolumeInv, Domains, JobKnown, Steps, Saving
<1>4. EditorKnown'
  BY Words DEF EditQuits, InEditor, At, fs, ghosts, VolumeInv, Flags, JobKnown, EditorKnown, Steps,
     Saving
<1>5. MountKnown'
  BY Words DEF EditQuits, InEditor, At, fs, ghosts, VolumeInv, Flags, JobKnown, MountKnown, Steps,
     Saving, Formatting
<1>6. GhostsKnown'
  BY Words DEF Sound, EditQuits, InEditor, At, fs, ghosts, VolumeInv, Domains, JobKnown, MountKnown,
     GhostsKnown, Steps, Saving, Moving, Duplicating, Formatting
<1>7. OldIsSomewhere'
  BY Words DEF Sound, EditQuits, InEditor, At, fs, ghosts, VolumeInv, Domains, JobKnown, MountKnown,
     GhostsKnown, OldIsSomewhere, OnVolume, Steps, Saving, Moving, Duplicating, Formatting
<1>8. MovedIsSomewhere'
  BY Words DEF Sound, EditQuits, InEditor, At, fs, ghosts, VolumeInv, Domains, JobKnown, MountKnown,
     GhostsKnown, MovedIsSomewhere, Steps, Saving, Moving, Duplicating, Formatting
<1> QED
  BY <1>1, <1>2, <1>3, <1>4, <1>5, <1>6, <1>7, <1>8 DEF VolumeInv

\* A save begins: what is to be kept is what the file holds, if that is whole.
LEMMA SaveBeginsInv == ASSUME Sound, VolumeInv, SaveBegins PROVE VolumeInv'
<1>1. Flags'
  BY DEF SaveBegins, Noted, InEditor, At, Copying, Whole, fs, editor, VolumeInv, Flags, Excuses
<1>2. Domains'
  BY Words DEF Sound, SaveBegins, Noted, OnVolume, InEditor, At, Copying, Whole, fs, editor, VolumeInv, Domains,
     JobKnown, Steps, Saving
<1>3. JobKnown'
  BY Words DEF SaveBegins, Noted, InEditor, At, Copying, Whole, fs, editor, VolumeInv, Domains, JobKnown,
     Steps, Saving
<1>4. EditorKnown'
  BY Words DEF SaveBegins, Noted, InEditor, At, Copying, Whole, fs, editor, VolumeInv, Flags, JobKnown,
     EditorKnown, Steps, Saving
<1>5. MountKnown'
  BY Words DEF SaveBegins, Noted, InEditor, At, Copying, Whole, fs, editor, VolumeInv, Flags, JobKnown,
     MountKnown, Steps, Saving, Formatting
<1>6. GhostsKnown'
  BY Words DEF Sound, SaveBegins, Noted, OnVolume, InEditor, At, Copying, Whole, fs, editor, VolumeInv, Domains,
     JobKnown, MountKnown, GhostsKnown, Steps, Saving, Moving, Duplicating, Formatting
<1>7. OldIsSomewhere'
  BY Words DEF Sound, SaveBegins, Noted, OnVolume, InEditor, At, Copying, Whole, fs, editor, VolumeInv, Domains,
     JobKnown, MountKnown, GhostsKnown, OldIsSomewhere, OnVolume, Steps, Saving, Moving,
     Duplicating, Formatting
<1>8. MovedIsSomewhere'
  BY Words DEF Sound, SaveBegins, Noted, OnVolume, InEditor, At, Copying, Whole, fs, editor, VolumeInv, Domains,
     JobKnown, MountKnown, GhostsKnown, MovedIsSomewhere, Steps, Saving, Moving, Duplicating,
     Formatting
<1> QED
  BY <1>1, <1>2, <1>3, <1>4, <1>5, <1>6, <1>7, <1>8 DEF VolumeInv

\* The file is emptied, its text being in the backup.
LEMMA SaveOpensInv == ASSUME Sound, VolumeInv, SaveOpens PROVE VolumeInv'
<1>1. Flags'
  BY DEF SaveOpens, At, fs, editor, ghosts, VolumeInv, Flags, Excuses
<1>2. Domains'
  BY Words DEF Sound, SaveOpens, At, fs, editor, ghosts, VolumeInv, Domains, JobKnown, Steps, Saving
<1>3. JobKnown'
  BY Words DEF SaveOpens, At, fs, editor, ghosts, VolumeInv, Domains, JobKnown, Steps, Saving
<1>4. EditorKnown'
  BY Words DEF SaveOpens, At, fs, editor, ghosts, VolumeInv, Flags, JobKnown, EditorKnown, Steps,
     Saving
<1>5. MountKnown'
  BY Words DEF SaveOpens, At, fs, editor, ghosts, VolumeInv, Flags, JobKnown, MountKnown, Steps,
     Saving, Formatting
<1>6. GhostsKnown'
  BY Words DEF Sound, SaveOpens, At, fs, editor, ghosts, VolumeInv, Domains, JobKnown, MountKnown,
     GhostsKnown, Steps, Saving, Moving, Duplicating, Formatting
<1>7. OldIsSomewhere'
  BY Words DEF Sound, SaveOpens, At, fs, editor, ghosts, VolumeInv, Domains, JobKnown, MountKnown,
     GhostsKnown, OldIsSomewhere, OnVolume, Steps, Saving, Moving, Duplicating, Formatting
<1>8. MovedIsSomewhere'
  BY Words DEF Sound, SaveOpens, At, fs, editor, ghosts, VolumeInv, Domains, JobKnown, MountKnown,
     GhostsKnown, MovedIsSomewhere, Steps, Saving, Moving, Duplicating, Formatting
<1> QED
  BY <1>1, <1>2, <1>3, <1>4, <1>5, <1>6, <1>7, <1>8 DEF VolumeInv

\* The new text is written, and is the one to keep.
LEMMA SaveWritesInv == ASSUME Sound, VolumeInv, SaveWrites PROVE VolumeInv'
<1>1. Flags'
  BY DEF SaveWrites, At, Landed, Idle, fs, VolumeInv, Flags, Excuses
<1>2. Domains'
  BY Words DEF Sound, SaveWrites, At, Landed, Idle, fs, VolumeInv, Domains, JobKnown, EditorKnown,
     Steps, Saving
<1>3. JobKnown'
  BY Words DEF SaveWrites, At, Landed, Idle, fs, VolumeInv, Domains, JobKnown, Steps, Saving
<1>4. EditorKnown'
  BY Words DEF SaveWrites, At, Landed, Idle, fs, VolumeInv, Flags, JobKnown, EditorKnown, Steps,
     Saving
<1>5. MountKnown'
  BY Words DEF SaveWrites, At, Landed, Idle, fs, VolumeInv, Flags, JobKnown, MountKnown, Steps,
     Saving, Formatting
<1>6. GhostsKnown'
  BY Words DEF Sound, SaveWrites, At, Landed, Idle, fs, VolumeInv, Domains, JobKnown, MountKnown,
     GhostsKnown, EditorKnown, Steps, Saving, Moving, Duplicating, Formatting
<1>7. OldIsSomewhere'
  BY Words DEF Sound, SaveWrites, At, Landed, Idle, fs, VolumeInv, Domains, JobKnown, MountKnown,
     GhostsKnown, OldIsSomewhere, OnVolume, Steps, Saving, Moving, Duplicating, Formatting
<1>8. MovedIsSomewhere'
  BY Words DEF Sound, SaveWrites, At, Landed, Idle, fs, VolumeInv, Domains, JobKnown, MountKnown,
     GhostsKnown, MovedIsSomewhere, Steps, Saving, Moving, Duplicating, Formatting
<1> QED
  BY <1>1, <1>2, <1>3, <1>4, <1>5, <1>6, <1>7, <1>8 DEF VolumeInv

\* A save fails: the backup or the file still has the text.
LEMMA SaveFailsInv == ASSUME Sound, VolumeInv, SaveFails PROVE VolumeInv'
<1>1. Flags'
  BY DEF SaveFails, Ends, Idle, fs, editor, ghosts, VolumeInv, Flags, Excuses
<1>2. Domains'
  BY Words DEF Sound, SaveFails, Ends, Idle, fs, editor, ghosts, VolumeInv, Domains, JobKnown, Steps,
     Saving
<1>3. JobKnown'
  BY Words DEF SaveFails, Ends, Idle, fs, editor, ghosts, VolumeInv, Domains, JobKnown, Steps, Saving
<1>4. EditorKnown'
  BY Words DEF SaveFails, Ends, Idle, fs, editor, ghosts, VolumeInv, Flags, JobKnown, EditorKnown,
     Steps, Saving
<1>5. MountKnown'
  BY Words DEF SaveFails, Ends, Idle, fs, editor, ghosts, VolumeInv, Flags, JobKnown, MountKnown,
     Steps, Saving, Formatting
<1>6. GhostsKnown'
  BY Words DEF Sound, SaveFails, Ends, Idle, fs, editor, ghosts, VolumeInv, Domains, JobKnown,
     MountKnown, GhostsKnown, Steps, Saving, Moving, Duplicating, Formatting
<1>7. OldIsSomewhere'
  BY Words DEF Sound, SaveFails, Ends, Idle, fs, editor, ghosts, VolumeInv, Domains, JobKnown,
     MountKnown, GhostsKnown, OldIsSomewhere, OnVolume, Steps, Saving, Moving, Duplicating,
     Formatting
<1>8. MovedIsSomewhere'
  BY Words DEF Sound, SaveFails, Ends, Idle, fs, editor, ghosts, VolumeInv, Domains, JobKnown,
     MountKnown, GhostsKnown, MovedIsSomewhere, Steps, Saving, Moving, Duplicating, Formatting
<1> QED
  BY <1>1, <1>2, <1>3, <1>4, <1>5, <1>6, <1>7, <1>8 DEF VolumeInv

\* A copy begins, and earlier saves are forgotten.
LEMMA CopiesInv == ASSUME Sound, VolumeInv, Copies PROVE VolumeInv'
<1>1. Flags'
  BY DEF Copies, AtPrompt, At, Forgets, Copying, fs, editor, VolumeInv, Flags, Excuses
<1>2. Domains'
  BY Words DEF Sound, Copies, AtPrompt, At, Forgets, Copying, fs, editor, VolumeInv, Domains,
     JobKnown, Steps, Saving
<1>3. JobKnown'
  BY Words DEF Copies, AtPrompt, At, Forgets, Copying, fs, editor, VolumeInv, Domains, JobKnown,
     Steps, Saving
<1>4. EditorKnown'
  BY Words DEF Copies, AtPrompt, At, Forgets, Copying, fs, editor, VolumeInv, Flags, JobKnown,
     EditorKnown, Steps, Saving
<1>5. MountKnown'
  BY Words DEF Copies, AtPrompt, At, Forgets, Copying, fs, editor, VolumeInv, Flags, JobKnown,
     MountKnown, Steps, Saving, Formatting
<1>6. GhostsKnown'
  BY Words DEF Sound, Copies, AtPrompt, At, Forgets, Copying, fs, editor, VolumeInv, Domains,
     JobKnown, MountKnown, GhostsKnown, Steps, Saving, Moving, Duplicating, Formatting
<1>7. OldIsSomewhere'
  BY Words DEF Sound, Copies, AtPrompt, At, Forgets, Copying, fs, editor, VolumeInv, Domains,
     JobKnown, MountKnown, GhostsKnown, OldIsSomewhere, OnVolume, Steps, Saving, Moving,
     Duplicating, Formatting
<1>8. MovedIsSomewhere'
  BY Words DEF Sound, Copies, AtPrompt, At, Forgets, Copying, fs, editor, VolumeInv, Domains,
     JobKnown, MountKnown, GhostsKnown, MovedIsSomewhere, Steps, Saving, Moving, Duplicating,
     Formatting
<1> QED
  BY <1>1, <1>2, <1>3, <1>4, <1>5, <1>6, <1>7, <1>8 DEF VolumeInv

\* A move begins: the text is in its source.
LEMMA MovesInv == ASSUME Sound, VolumeInv, Moves PROVE VolumeInv'
<1>1. Flags'
  BY DEF Moves, AtPrompt, At, Forgets, Copying, fs, editor, VolumeInv, Flags, Excuses
<1>2. Domains'
  BY Words DEF Sound, Moves, AtPrompt, At, Forgets, Copying, fs, editor, VolumeInv, Domains,
     JobKnown, Steps, Saving
<1>3. JobKnown'
  BY Words DEF Moves, AtPrompt, At, Forgets, Copying, fs, editor, VolumeInv, Domains, JobKnown,
     Steps, Saving
<1>4. EditorKnown'
  BY Words DEF Moves, AtPrompt, At, Forgets, Copying, fs, editor, VolumeInv, Flags, JobKnown,
     EditorKnown, Steps, Saving
<1>5. MountKnown'
  BY Words DEF Moves, AtPrompt, At, Forgets, Copying, fs, editor, VolumeInv, Flags, JobKnown,
     MountKnown, Steps, Saving, Formatting
<1>6. GhostsKnown'
  BY Words DEF Sound, Moves, AtPrompt, At, Forgets, Copying, fs, editor, VolumeInv, Domains,
     JobKnown, MountKnown, GhostsKnown, Steps, Saving, Moving, Duplicating, Formatting
<1>7. OldIsSomewhere'
  BY Words DEF Sound, Moves, AtPrompt, At, Forgets, Copying, fs, editor, VolumeInv, Domains,
     JobKnown, MountKnown, GhostsKnown, OldIsSomewhere, OnVolume, Steps, Saving, Moving,
     Duplicating, Formatting
<1>8. MovedIsSomewhere'
  BY Words DEF Sound, Moves, AtPrompt, At, Forgets, Copying, fs, editor, VolumeInv, Domains,
     JobKnown, MountKnown, GhostsKnown, MovedIsSomewhere, Steps, Saving, Moving, Duplicating,
     Formatting
<1> QED
  BY <1>1, <1>2, <1>3, <1>4, <1>5, <1>6, <1>7, <1>8 DEF VolumeInv

\* A file is removed by the operator.
LEMMA RemovesInv == ASSUME Sound, VolumeInv, Removes PROVE VolumeInv'
<1>1. Flags'
  BY DEF Removes, AtPrompt, At, Forgets, fs, editor, VolumeInv, Flags, Excuses
<1>2. Domains'
  BY Words DEF Sound, Removes, AtPrompt, At, Forgets, fs, editor, VolumeInv, Domains, JobKnown,
     Steps, Saving
<1>3. JobKnown'
  BY Words DEF Removes, AtPrompt, At, Forgets, fs, editor, VolumeInv, Domains, JobKnown, Steps,
     Saving
<1>4. EditorKnown'
  BY Words DEF Removes, AtPrompt, At, Forgets, fs, editor, VolumeInv, Flags, JobKnown, EditorKnown,
     Steps, Saving
<1>5. MountKnown'
  BY Words DEF Removes, AtPrompt, At, Forgets, fs, editor, VolumeInv, Flags, JobKnown, MountKnown,
     Steps, Saving, Formatting
<1>6. GhostsKnown'
  BY Words DEF Sound, Removes, AtPrompt, At, Forgets, fs, editor, VolumeInv, Domains, JobKnown,
     MountKnown, GhostsKnown, Steps, Saving, Moving, Duplicating, Formatting
<1>7. OldIsSomewhere'
  BY Words DEF Sound, Removes, AtPrompt, At, Forgets, fs, editor, VolumeInv, Domains, JobKnown,
     MountKnown, GhostsKnown, OldIsSomewhere, OnVolume, Steps, Saving, Moving, Duplicating,
     Formatting
<1>8. MovedIsSomewhere'
  BY Words DEF Sound, Removes, AtPrompt, At, Forgets, fs, editor, VolumeInv, Domains, JobKnown,
     MountKnown, GhostsKnown, MovedIsSomewhere, Steps, Saving, Moving, Duplicating, Formatting
<1> QED
  BY <1>1, <1>2, <1>3, <1>4, <1>5, <1>6, <1>7, <1>8 DEF VolumeInv

\* The volume is unmounted, and owes nobody anything.
LEMMA FormatBeginsInv == ASSUME Sound, VolumeInv, FormatBegins PROVE VolumeInv'
<1>1. Flags'
  BY DEF FormatBegins, AtPrompt, At, Forgets, editor, VolumeInv, Flags, Excuses
<1>2. Domains'
  BY Words DEF Sound, FormatBegins, AtPrompt, At, Forgets, editor, VolumeInv, Domains, JobKnown,
     Steps, Saving
<1>3. JobKnown'
  BY Words DEF FormatBegins, AtPrompt, At, Forgets, editor, VolumeInv, Domains, JobKnown, Steps,
     Saving
<1>4. EditorKnown'
  BY Words DEF FormatBegins, AtPrompt, At, Forgets, editor, VolumeInv, Flags, JobKnown, EditorKnown,
     Steps, Saving
<1>5. MountKnown'
  BY Words DEF FormatBegins, AtPrompt, At, Forgets, editor, VolumeInv, Flags, JobKnown, MountKnown,
     Steps, Saving, Formatting
<1>6. GhostsKnown'
  BY Words DEF Sound, FormatBegins, AtPrompt, At, Forgets, editor, VolumeInv, Domains, JobKnown,
     MountKnown, GhostsKnown, Steps, Saving, Moving, Duplicating, Formatting
<1>7. OldIsSomewhere'
  BY Words DEF Sound, FormatBegins, AtPrompt, At, Forgets, editor, VolumeInv, Domains, JobKnown,
     MountKnown, GhostsKnown, OldIsSomewhere, OnVolume, Steps, Saving, Moving, Duplicating,
     Formatting
<1>8. MovedIsSomewhere'
  BY Words DEF Sound, FormatBegins, AtPrompt, At, Forgets, editor, VolumeInv, Domains, JobKnown,
     MountKnown, GhostsKnown, MovedIsSomewhere, Steps, Saving, Moving, Duplicating, Formatting
<1> QED
  BY <1>1, <1>2, <1>3, <1>4, <1>5, <1>6, <1>7, <1>8 DEF VolumeInv

\* Nothing is kept of a volume that is being formatted.
LEMMA FormatErasesInv == ASSUME Sound, VolumeInv, FormatErases PROVE VolumeInv'
<1>1. Flags'
  BY DEF FormatErases, Erased, At, Idle, editor, ghosts, VolumeInv, Flags, Excuses
<1>2. Domains'
  BY Words DEF Sound, FormatErases, Erased, At, Idle, editor, ghosts, VolumeInv, Domains, JobKnown, Steps,
     Saving
<1>3. JobKnown'
  BY Words DEF FormatErases, Erased, At, Idle, editor, ghosts, VolumeInv, Domains, JobKnown, Steps, Saving
<1>4. EditorKnown'
  BY Words DEF FormatErases, Erased, At, Idle, editor, ghosts, VolumeInv, Flags, JobKnown, EditorKnown,
     Steps, Saving
<1>5. MountKnown'
  BY Words DEF FormatErases, Erased, At, Idle, editor, ghosts, VolumeInv, Flags, JobKnown, MountKnown, Steps,
     Saving, Formatting
<1>6. GhostsKnown'
  BY Words DEF Sound, FormatErases, Erased, At, Idle, editor, ghosts, VolumeInv, Domains, JobKnown,
     MountKnown, GhostsKnown, Steps, Saving, Moving, Duplicating, Formatting
<1>7. OldIsSomewhere'
  BY Words DEF Sound, FormatErases, Erased, At, Idle, editor, ghosts, VolumeInv, Domains, JobKnown,
     MountKnown, GhostsKnown, OldIsSomewhere, OnVolume, Steps, Saving, Moving, Duplicating,
     Formatting
<1>8. MovedIsSomewhere'
  BY Words DEF Sound, FormatErases, Erased, At, Idle, editor, ghosts, VolumeInv, Domains, JobKnown,
     MountKnown, GhostsKnown, MovedIsSomewhere, Steps, Saving, Moving, Duplicating, Formatting
<1> QED
  BY <1>1, <1>2, <1>3, <1>4, <1>5, <1>6, <1>7, <1>8 DEF VolumeInv

\* A formatted volume is mounted, or not.
LEMMA FormatMountsInv == ASSUME Sound, VolumeInv, FormatMounts PROVE VolumeInv'
<1>1. Flags'
  BY DEF FormatMounts, At, Idle, editor, ghosts, VolumeInv, Flags, Excuses
<1>2. Domains'
  BY Words DEF Sound, FormatMounts, At, Idle, editor, ghosts, VolumeInv, Domains, JobKnown, Steps,
     Saving
<1>3. JobKnown'
  BY Words DEF FormatMounts, At, Idle, editor, ghosts, VolumeInv, Domains, JobKnown, Steps, Saving
<1>4. EditorKnown'
  BY Words DEF FormatMounts, At, Idle, editor, ghosts, VolumeInv, Flags, JobKnown, EditorKnown,
     Steps, Saving
<1>5. MountKnown'
  BY Words DEF FormatMounts, At, Idle, editor, ghosts, VolumeInv, Flags, JobKnown, MountKnown, Steps,
     Saving, Formatting
<1>6. GhostsKnown'
  BY Words DEF Sound, FormatMounts, At, Idle, editor, ghosts, VolumeInv, Domains, JobKnown,
     MountKnown, GhostsKnown, Steps, Saving, Moving, Duplicating, Formatting
<1>7. OldIsSomewhere'
  BY Words DEF Sound, FormatMounts, At, Idle, editor, ghosts, VolumeInv, Domains, JobKnown,
     MountKnown, GhostsKnown, OldIsSomewhere, OnVolume, Steps, Saving, Moving, Duplicating,
     Formatting
<1>8. MovedIsSomewhere'
  BY Words DEF Sound, FormatMounts, At, Idle, editor, ghosts, VolumeInv, Domains, JobKnown,
     MountKnown, GhostsKnown, MovedIsSomewhere, Steps, Saving, Moving, Duplicating, Formatting
<1> QED
  BY <1>1, <1>2, <1>3, <1>4, <1>5, <1>6, <1>7, <1>8 DEF VolumeInv

\* The probe is unplugged at any of these steps, and booted.
LEMMA RebootsInv == ASSUME Sound, VolumeInv, Reboots PROVE VolumeInv'
<1>1. Flags'
  BY DEF Reboots, MountStorage, Erased, Idle, VolumeInv, Flags, Excuses
<1>2. Domains'
  BY Words DEF Sound, Reboots, MountStorage, Erased, Idle, VolumeInv, Domains, JobKnown, Steps,
     Saving
<1>3. JobKnown'
  BY Words DEF Reboots, MountStorage, Erased, Idle, VolumeInv, Domains, JobKnown, Steps, Saving
<1>4. EditorKnown'
  BY Words DEF Reboots, MountStorage, Erased, Idle, VolumeInv, Flags, JobKnown, EditorKnown, Steps,
     Saving
<1>5. MountKnown'
  <2>1. mounted' => formatted'
    BY DEF Reboots, MountStorage, VolumeInv, Flags, MountKnown
  <2> QED
    BY <2>1 DEF Reboots, Idle, MountKnown, Formatting
<1>6. GhostsKnown'
  BY Words DEF Sound, Reboots, MountStorage, Erased, Idle, VolumeInv, Domains, JobKnown, MountKnown,
     GhostsKnown, Steps, Saving, Moving, Duplicating, Formatting
<1>7. OldIsSomewhere'
  BY Words DEF Sound, Reboots, MountStorage, Erased, Idle, VolumeInv, Domains, JobKnown, MountKnown,
     GhostsKnown, OldIsSomewhere, OnVolume, Steps, Saving, Moving, Duplicating, Formatting
<1>8. MovedIsSomewhere'
  BY Words DEF Sound, Reboots, MountStorage, Erased, Idle, VolumeInv, Domains, JobKnown, MountKnown,
     GhostsKnown, MovedIsSomewhere, Steps, Saving, Moving, Duplicating, Formatting
<1> QED
  BY <1>1, <1>2, <1>3, <1>4, <1>5, <1>6, <1>7, <1>8 DEF VolumeInv

\* Nothing happens.
LEMMA StutterInv == ASSUME VolumeInv, UNCHANGED vars PROVE VolumeInv'
  BY DEF vars, VolumeInv, Flags, Excuses, Domains, JobKnown, EditorKnown, MountKnown, GhostsKnown, OnVolume,
     OldIsSomewhere, MovedIsSomewhere, Steps, Saving, Moving, Duplicating, Formatting

\* Every step of a command, an operator or a reboot keeps the invariant.
LEMMA VolumeKeeps == ASSUME Sound, VolumeInv, [Next]_vars PROVE VolumeInv'
  BY CopyOpensInv, CopyRunsInv, MoveRemovesInv, CopyEndsInv, EditLoadsInv, EditChangesInv,
     EditQuitsInv, SaveBeginsInv, SaveOpensInv, SaveWritesInv, SaveFailsInv, CopiesInv, MovesInv,
     RemovesInv, FormatBeginsInv, FormatErasesInv, FormatMountsInv, RebootsInv, StutterInv DEF Next

\* The invariant holds wherever the probe is unplugged.
LEMMA VolumeIsSound == ASSUME Sound PROVE Spec => []VolumeInv
<1>1. Init => VolumeInv
  BY VolumeInitially
<1>2. VolumeInv /\ [Next]_vars => VolumeInv'
  BY VolumeKeeps
<1> QED
  BY <1>1, <1>2, PTL DEF Spec

--------------------------------------------------------------------------------
(* The theorems *)

\* The last whole text of an edited file survives every save, every failure of it,
\* every reboot in it and a volume that is full, unless one of the Excuses took it.
THEOREM SavesAreSafe == ASSUME Sound PROVE Spec => []OneVersionSurvives
<1>1. VolumeInv => OneVersionSurvives
  BY DEF VolumeInv, OldIsSomewhere, OneVersionSurvives
<1> QED
  BY <1>1, VolumeIsSound, PTL

\* A moved file is whole under one of its two names, unless a full volume dropped the
\* copy or a boot formatted the volume.
THEOREM MovesAreSafe == ASSUME Sound PROVE Spec => []MoveKeepsTheFile
<1>1. VolumeInv => MoveKeepsTheFile
  BY DEF VolumeInv, MovedIsSomewhere, MoveKeepsTheFile
<1> QED
  BY <1>1, VolumeIsSound, PTL

\* Neither loses a file, but for the Excuses.
THEOREM FilesAreSafe == ASSUME Sound PROVE Spec => []FilesSurvive
<1>1. OneVersionSurvives /\ MoveKeepsTheFile => FilesSurvive
  BY DEF FilesSurvive
<1> QED
  BY <1>1, SavesAreSafe, MovesAreSafe, PTL

\* A volume in use has a filesystem.
THEOREM MountsAreFormatted == ASSUME Sound PROVE Spec => []MountedIsFormatted
<1>1. VolumeInv => MountedIsFormatted
  BY DEF VolumeInv, MountKnown, MountedIsFormatted
<1> QED
  BY <1>1, VolumeIsSound, PTL

\* Only a save makes changed lines clean: they are the file's then, or a full volume
\* dropped them and the backup holds the whole text before.
THEOREM LinesStayChanged == ASSUME Sound PROVE Spec => EditsAreKept
<1>1. ASSUME VolumeInv, [Next]_vars, editing', dirty, ~dirty'
      PROVE  \/ disk'[Path] = lines
             \/ disk'[Path] = Cut /\ (old # Missing /\ excuses = {} => disk'[Backup] = old)
  <2>1. editing
    BY <1>1 DEF VolumeInv, EditorKnown
  <2>2. SaveWrites
    BY <1>1, <2>1 DEF Next, vars, CopyOpens, CopyRuns, MoveRemoves, CopyEnds, Ends, EditLoads,
       EditChanges, EditQuits, SaveBegins, SaveOpens, SaveFails, Copies, Moves, Removes,
       FormatBegins, FormatErases, FormatMounts, Reboots, AtPrompt, editor
  <2>3. old # Missing /\ excuses = {} => disk[Backup] = old
    BY <1>1, <2>2 DEF SaveWrites, At, VolumeInv, MountKnown, OldIsSomewhere
  <2> QED
    BY <2>2, <2>3, <1>1, Words DEF SaveWrites, Landed, Sound, VolumeInv, Domains
<1>2. VolumeInv /\ [Next]_vars =>
         [editing' /\ dirty /\ ~dirty' =>
             \/ disk'[Path] = lines
             \/ disk'[Path] = Cut /\ (old # Missing /\ excuses = {} => disk'[Backup] = old)]_vars
  BY <1>1
<1> QED
  BY <1>2, VolumeIsSound, PTL DEF Spec, EditsAreKept

--------------------------------------------------------------------------------
(* The transfer of a file: what is typed, and what it leaves on the volume *)

Typed   == [does : {"open", "write", "close", "check"}, bytes : Seq(Nat)]
Signals == {U!Prompt, U!Fault, U!Matches, U!Differs}

\* How much of the file the first j lines have written at most.
Sent(j) == U!Upto(IF j <= U!Chunks + 1 THEN j - 1 ELSE U!Chunks)

\* What is on the volume is no longer than m, and if it is as long, it is the file's.
Honest(m) == Len(content) <= m /\ (Len(content) = m => content = SubSeq(Data, 1, m))

\* The lines the device has been through.
Done == line - 1 - Len(wire)

\* Where the first chunks end: further on with each, and in the end at the end.
LEMMA CutsAre ==
  /\ U!Chunks \in Nat /\ Len(Data) \in Nat
  /\ U!Upto(0) = 0 /\ U!Upto(U!Chunks) = Len(Data)
  /\ \A k \in Nat : U!Upto(k) \in 0..Len(Data) /\ U!Upto(k) <= U!Upto(k + 1)
<1>1. Data \in Seq(Nat) /\ Size \in Nat /\ Size > 0
  BY UploadFits DEF U!UploadAssumption
<1> DEFINE L == Len(Data)
<1>2. L \in Nat
  BY <1>1, LenProperties
<1> DEFINE x == L + Size - 1
           q == x \div Size
<1>3. x \in Nat /\ x = Size * q + (x % Size) /\ x % Size \in 0..Size - 1 /\ q \in Int
  BY <1>1, <1>2
<1>4. q >= 0
  <2> SUFFICES ASSUME q < 0 PROVE FALSE
    BY <1>3
  <2>1. Size * q <= 0 - Size
    BY <1>1, <1>3
  <2> QED
    BY <1>1, <1>3, <2>1
<1>5. q * Size >= L
  BY <1>1, <1>2, <1>3
<1>6. U!Chunks = q
  BY DEF U!Chunks
<1> HIDE DEF q, x, L
<1>7. q * Size \in Int
  BY <1>1, <1>3
<1>8. U!Upto(q) = L
  BY <1>2, <1>5, <1>7 DEF U!Upto, L
<1>9. 0 * Size = 0
  BY <1>1
<1>10. U!Upto(0) = 0
  BY <1>2, <1>9 DEF U!Upto, L
<1>11. ASSUME NEW k \in Nat PROVE U!Upto(k) \in 0..L /\ U!Upto(k) <= U!Upto(k + 1)
  <2>1. k * Size \in Nat /\ (k + 1) * Size = k * Size + Size
    BY <1>1
  <2>2. (k + 1) * Size \in Nat
    BY <1>1, <2>1
  <2> HIDE DEF L
  <2>3. U!Upto(k) = (IF k * Size > L THEN L ELSE k * Size)
    BY DEF U!Upto, L
  <2>4. U!Upto(k + 1) = (IF (k + 1) * Size > L THEN L ELSE (k + 1) * Size)
    BY DEF U!Upto, L
  <2> QED
    BY <1>1, <1>2, <2>1, <2>2, <2>3, <2>4
<1> QED
  BY <1>2, <1>3, <1>4, <1>6, <1>8, <1>10, <1>11 DEF L

\* A piece of the file.
LEMMA PieceIs ==
  ASSUME NEW a \in 0..Len(Data), NEW b \in a..Len(Data)
  PROVE  /\ SubSeq(Data, a + 1, b) \in Seq(Nat) /\ Len(SubSeq(Data, a + 1, b)) = b - a
         /\ \A i \in 1..b - a : SubSeq(Data, a + 1, b)[i] = Data[a + i]
<1>1. Data \in Seq(Nat) /\ Len(Data) \in Nat
  BY UploadFits, LenProperties DEF U!UploadAssumption
<1>2. \A i \in a + 1..b : Data[i] \in Nat
  BY <1>1, ElementOfSeq
<1>3. /\ SubSeq(Data, a + 1, b) \in Seq(Nat)
      /\ Len(SubSeq(Data, a + 1, b)) = IF a + 1 <= b THEN b - (a + 1) + 1 ELSE 0
      /\ \A i \in 1..b - (a + 1) + 1 : SubSeq(Data, a + 1, b)[i] = Data[a + 1 + i - 1]
  BY <1>1, <1>2, SubSeqProperties
<1>4. b - (a + 1) + 1 = b - a /\ \A i \in 1..b - a : a + 1 + i - 1 = a + i
  BY <1>1
<1> QED
  BY <1>1, <1>3, <1>4

\* The file up to one point and from there to another is the file up to that.
LEMMA PiecesJoin ==
  ASSUME NEW a \in 0..Len(Data), NEW b \in a..Len(Data)
  PROVE  SubSeq(Data, 1, a) \o SubSeq(Data, a + 1, b) = SubSeq(Data, 1, b)
<1>1. Len(Data) \in Nat
  BY UploadFits, LenProperties DEF U!UploadAssumption
<1> DEFINE s == SubSeq(Data, 0 + 1, a)
           t == SubSeq(Data, a + 1, b)
           u == SubSeq(Data, 0 + 1, b)
<1>2. s \in Seq(Nat) /\ Len(s) = a /\ \A i \in 1..a : s[i] = Data[i]
  BY <1>1, PieceIs
<1>3. t \in Seq(Nat) /\ Len(t) = b - a /\ \A i \in 1..b - a : t[i] = Data[a + i]
  BY <1>1, PieceIs
<1>4. u \in Seq(Nat) /\ Len(u) = b /\ \A i \in 1..b : u[i] = Data[i]
  BY <1>1, PieceIs
<1> HIDE DEF s, t, u
<1>5. /\ s \o t \in Seq(Nat) /\ Len(s \o t) = Len(s) + Len(t)
      /\ \A i \in 1..Len(s) + Len(t) : (s \o t)[i] = IF i <= Len(s) THEN s[i] ELSE t[i - Len(s)]
  BY <1>2, <1>3, ConcatProperties
<1>6. Len(s \o t) = b
  BY <1>1, <1>2, <1>3, <1>5
<1>7. \A i \in 1..b : (s \o t)[i] = Data[i]
  <2> SUFFICES ASSUME NEW i \in 1..b PROVE (s \o t)[i] = Data[i]
    OBVIOUS
  <2> /\ a \in Nat /\ b \in Nat /\ i \in Nat /\ i >= 1 /\ i <= b
      /\ i \in 1..Len(s) + Len(t)
    BY <1>1, <1>2, <1>3
  <2>1. (s \o t)[i] = IF i <= a THEN s[i] ELSE t[i - a]
    BY <1>2, <1>5
  <2>2. CASE i <= a
    BY <1>1, <1>2, <2>1, <2>2
  <2>3. CASE i > a
    BY <1>1, <1>3, <2>1, <2>3
  <2> QED
    BY <1>1, <2>2, <2>3
<1>8. s \o t = u
  BY <1>1, <1>4, <1>5, <1>6, <1>7, SeqEqual
<1>9. s = SubSeq(Data, 1, a) /\ u = SubSeq(Data, 1, b)
  BY DEF s, u
<1> QED
  BY <1>8, <1>9 DEF t

\* A line as it is typed.
LEMMA TypedIs ==
  ASSUME NEW w \in {"open", "write", "close", "check"}, NEW x \in Seq(Nat)
  PROVE  U!Line(w, x) \in Typed /\ U!Line(w, x).does = w /\ U!Line(w, x).bytes = x
BY DEF U!Line, Typed

\* The lines of a transfer: it opens the file, writes each chunk, closes and checks.
LEMMA LinesAre ==
  /\ U!Lines \in Seq(Typed) /\ Len(U!Lines) = U!Chunks + 3
  /\ U!Lines[1].does = "open"
  /\ \A i \in 1..U!Chunks : U!Lines[i + 1] =
        [does |-> "write", bytes |-> SubSeq(Data, U!Upto(i - 1) + 1, U!Upto(i))]
  /\ U!Lines[U!Chunks + 2].does = "close" /\ U!Lines[U!Chunks + 3].does = "check"
<1> DEFINE Write(i) == U!Line("write", SubSeq(Data, U!Upto(i - 1) + 1, U!Upto(i)))
           a == <<U!Line("open", <<>>)>>
           b == [i \in 1..U!Chunks |-> Write(i)]
           c == <<U!Line("close", <<>>), U!Line("check", <<>>)>>
<1>1. U!Chunks \in Nat
  BY CutsAre
<1>2. U!Lines = (a \o b) \o c
  BY DEF U!Lines
<1>3. \A i \in 1..U!Chunks : Write(i) \in Typed
  <2> SUFFICES ASSUME NEW i \in 1..U!Chunks PROVE Write(i) \in Typed
    OBVIOUS
  <2>1. i - 1 \in Nat /\ i \in Nat /\ (i - 1) + 1 = i
    BY <1>1
  <2>2. U!Upto(i - 1) \in 0..Len(Data) /\ U!Upto(i) \in U!Upto(i - 1)..Len(Data)
    <3>1. U!Upto(i) \in 0..Len(Data) /\ U!Upto(i - 1) \in 0..Len(Data)
      BY <2>1, CutsAre
    <3>2. U!Upto(i - 1) <= U!Upto((i - 1) + 1)
      BY <2>1, CutsAre
    <3> QED
      BY <2>1, <3>1, <3>2
  <2>3. SubSeq(Data, U!Upto(i - 1) + 1, U!Upto(i)) \in Seq(Nat)
    BY <2>2, PieceIs
  <2> QED
    BY <2>3, TypedIs
<1>20. \A x \in {"open", "close", "check"} : U!Line(x, <<>>) \in Typed /\ U!Line(x, <<>>).does = x
  <2> DEFINE e == <<>>
  <2>1. e \in Seq(Nat)
    BY EmptySeq
  <2> HIDE DEF e
  <2>2. \A x \in {"open", "close", "check"} : U!Line(x, e) \in Typed /\ U!Line(x, e).does = x
    BY <2>1, TypedIs
  <2> QED
    BY <2>2 DEF e
<1>4. a \in Seq(Typed) /\ Len(a) = 1 /\ a[1] = U!Line("open", <<>>)
  <2> DEFINE o == U!Line("open", <<>>)
  <2>1. o \in Typed
    BY <1>20
  <2> HIDE DEF o
  <2>2. <<o>> \in Seq(Typed) /\ Len(<<o>>) = 1 /\ <<o>>[1] = o
    BY <2>1
  <2> QED
    BY <2>2 DEF o
<1>5. c \in Seq(Typed) /\ Len(c) = 2 /\ c[1] = U!Line("close", <<>>) /\ c[2] = U!Line("check", <<>>)
  <2> DEFINE o == U!Line("close", <<>>)
             p == U!Line("check", <<>>)
  <2>1. o \in Typed /\ p \in Typed
    BY <1>20
  <2> HIDE DEF o, p
  <2>2. <<o, p>> \in Seq(Typed) /\ Len(<<o, p>>) = 2 /\ <<o, p>>[1] = o /\ <<o, p>>[2] = p
    BY <2>1
  <2> QED
    BY <2>2 DEF o, p
<1> HIDE DEF Write, a, c
<1>6. b \in Seq(Typed)
  BY <1>1, <1>3, IsASeq
<1>7. Len(b) = U!Chunks /\ \A i \in 1..U!Chunks : b[i] = Write(i)
  BY <1>1
<1> HIDE DEF b
<1>8. /\ a \o b \in Seq(Typed) /\ Len(a \o b) = U!Chunks + 1
      /\ (a \o b)[1] = a[1] /\ \A i \in 1..U!Chunks : (a \o b)[i + 1] = b[i]
  <2>1. /\ a \o b \in Seq(Typed) /\ Len(a \o b) = Len(a) + Len(b)
        /\ \A i \in 1..Len(a) + Len(b) : (a \o b)[i] = IF i <= Len(a) THEN a[i] ELSE b[i - Len(a)]
    BY <1>4, <1>6, ConcatProperties
  <2> QED
    BY <1>1, <1>4, <1>7, <2>1
<1> DEFINE d == a \o b
<1> HIDE DEF d
<1>9. /\ d \o c \in Seq(Typed) /\ Len(d \o c) = U!Chunks + 3
      /\ \A i \in 1..U!Chunks + 1 : (d \o c)[i] = d[i]
      /\ (d \o c)[U!Chunks + 2] = c[1] /\ (d \o c)[U!Chunks + 3] = c[2]
  <2>1. d \in Seq(Typed) /\ Len(d) = U!Chunks + 1
    BY <1>8 DEF d
  <2>2. /\ d \o c \in Seq(Typed) /\ Len(d \o c) = Len(d) + Len(c)
        /\ \A i \in 1..Len(d) + Len(c) : (d \o c)[i] = IF i <= Len(d) THEN d[i] ELSE c[i - Len(d)]
    BY <1>5, <2>1, ConcatProperties
  <2> QED
    BY <1>1, <1>5, <2>1, <2>2
<1>10. U!Lines = d \o c
  BY <1>2 DEF d
<1>11. U!Lines[1] = a[1] /\ \A i \in 1..U!Chunks : U!Lines[i + 1] = Write(i)
  BY <1>1, <1>7, <1>8, <1>9, <1>10 DEF d
<1>12. \A i \in 1..U!Chunks : Write(i) =
          [does |-> "write", bytes |-> SubSeq(Data, U!Upto(i - 1) + 1, U!Upto(i))]
  BY DEF Write, U!Line
<1>13. U!Lines[1].does = "open" /\ U!Lines[U!Chunks + 2].does = "close" /\ U!Lines[U!Chunks + 3].does = "check"
  BY <1>1, <1>4, <1>5, <1>9, <1>10, <1>11, <1>20
<1> QED
  BY <1>9, <1>10, <1>11, <1>12, <1>13

\* Which line does what.
LEMMA LineIs ==
  ASSUME NEW i \in 1..U!Chunks + 3
  PROVE  /\ U!Lines[i].does = "open" => i = 1
         /\ U!Lines[i].does = "write" =>
               /\ i - 1 \in 1..U!Chunks
               /\ U!Lines[i].bytes = SubSeq(Data, U!Upto(i - 2) + 1, U!Upto(i - 1))
         /\ U!Lines[i].does = "close" => i = U!Chunks + 2
         /\ U!Lines[i].does = "check" => i = U!Chunks + 3
<1>1. U!Chunks \in Nat
  BY CutsAre
<1>2. CASE i = 1
  BY <1>1, <1>2, LinesAre
<1>3. CASE i \in 2..U!Chunks + 1
  <2> DEFINE p == SubSeq(Data, U!Upto(i - 2) + 1, U!Upto(i - 1))
  <2>1. i - 1 \in 1..U!Chunks /\ (i - 1) + 1 = i /\ (i - 1) - 1 = i - 2
    BY <1>1, <1>3
  <2>2. U!Lines[(i - 1) + 1] = [does |-> "write", bytes |-> SubSeq(Data, U!Upto((i - 1) - 1) + 1, U!Upto(i - 1))]
    BY <2>1, LinesAre
  <2>3. U!Lines[i] = [does |-> "write", bytes |-> p]
    BY <2>1, <2>2
  <2> HIDE DEF p
  <2>4. U!Lines[i].does = "write" /\ U!Lines[i].bytes = p
    BY <2>3
  <2> QED
    BY <2>1, <2>4 DEF p
<1>4. CASE i = U!Chunks + 2
  BY <1>1, <1>4, LinesAre
<1>5. CASE i = U!Chunks + 3
  BY <1>1, <1>5, LinesAre
<1> QED
  BY <1>1, <1>2, <1>3, <1>4, <1>5

--------------------------------------------------------------------------------
(* The transfer: the inductive invariant *)

\* Kinds of the variables; what is on the wire is what has been typed last.
WireKnown ==
    /\ line \in 1..U!Chunks + 4 /\ tool \in {"sends", "reads", "ok", "mismatch", "fault", "stalled"}
    /\ heard \subseteq Signals /\ answers \in Seq(Signals)
    /\ content \in Seq(Nat) /\ opened \in BOOLEAN /\ device \in {"ready", "deaf"}
    /\ wire \in Seq(Typed) /\ Done \in Nat
    /\ device = "ready" => \A i \in 1..Len(wire) : wire[i] = U!Lines[Done + i]

\* The file has never been opened, or holds what the lines so far have written at most.
ContentKnown ==
    device = "ready" => \/ content \in Before /\ ~opened
                        \/ Done >= 1 /\ Honest(Sent(Done))

\* A check that has come out well was the last line, and there is nothing after it.
Vouched == tool = "ok" \/ U!Matches \in heard \/ \E i \in 1..Len(answers) : answers[i] = U!Matches
VouchedFor == Vouched => /\ line = U!Chunks + 4 /\ wire = <<>>
                         /\ content = Data \/ content \in Before

TransferInv == WireKnown /\ ContentKnown /\ VouchedFor

\* A transfer begins with the file as it was.
LEMMA TransferInitially == U!Init => TransferInv
<1> SUFFICES ASSUME U!Init PROVE TransferInv
  OBVIOUS
<1>1. line = 1 /\ tool = "sends" /\ wire = <<>> /\ device = "ready" /\ heard = {} /\ opened = FALSE
  BY DEF U!Init
<1>2. content \in Before /\ content \in Seq(Nat)
  BY UploadFits DEF U!Init, U!UploadAssumption
<1>3. PICK n \in 0..Stale : answers = [i \in 1..n |-> U!Prompt]
  BY DEF U!Init
<1>4. n \in Nat
  BY UploadFits DEF U!UploadAssumption
<1>5. Len(answers) = n /\ answers \in Seq(Signals) /\ \A i \in 1..n : answers[i] = U!Prompt
  <2>1. U!Prompt \in Signals
    BY DEF Signals
  <2> QED
    BY <1>3, <1>4, <2>1, IsASeq
<1>6. WireKnown
  <2>1. wire \in Seq(Typed) /\ Len(wire) = 0
    BY <1>1, EmptySeq
  <2>2. Done = 0
    <3>1. line = 1 /\ Len(wire) = 0
      BY <1>1, <2>1
    <3> QED
      BY <3>1 DEF Done
  <2>3. U!Chunks \in Nat /\ line \in 1..U!Chunks + 4
    BY <1>1, CutsAre
  <2>4. \A i \in 1..Len(wire) : wire[i] = U!Lines[Done + i]
    BY <2>1
  <2> QED
    BY <1>1, <1>2, <1>5, <2>1, <2>2, <2>3, <2>4 DEF WireKnown
<1>7. ~Vouched
  BY <1>1, <1>5 DEF Vouched, U!Prompt, U!Matches
<1> QED
  BY <1>1, <1>2, <1>6, <1>7 DEF TransferInv, ContentKnown, VouchedFor

\* What the device has done so far is not changed by what the host does.
LEMMA ContentStays ==
  ASSUME ContentKnown, Done' = Done, UNCHANGED <<content, opened, device>>
  PROVE  ContentKnown'
BY DEF ContentKnown, Honest

\* The host: it types a line, reads, and draws its conclusions.
LEMMA SendsKeep == TransferInv /\ U!Sends => TransferInv'
<1> SUFFICES ASSUME TransferInv, U!Sends PROVE TransferInv'
  OBVIOUS
<1> USE DEF TransferInv
<1>1. /\ tool = "sends" /\ line <= Len(U!Lines) /\ heard' = {} /\ wire' = Append(wire, U!Lines[line])
      /\ tool' = "reads" /\ line' = line + 1 /\ UNCHANGED <<device, content, opened>>
  BY DEF U!Sends
<1>2. PICK arrived \in 0..Len(answers) : answers' = SubSeq(answers, arrived + 1, Len(answers))
  BY DEF U!Sends
<1>3. U!Chunks \in Nat /\ line \in 1..U!Chunks + 3 /\ U!Lines[line] \in Typed
  BY <1>1, CutsAre, LinesAre, ElementOfSeq DEF WireKnown
<1>4. /\ wire' \in Seq(Typed) /\ Len(wire') = Len(wire) + 1 /\ Len(wire) \in Nat
      /\ \A i \in 1..Len(wire) : wire'[i] = wire[i]
      /\ wire'[Len(wire) + 1] = U!Lines[line]
  BY <1>1, <1>3, AppendProperties, LenProperties DEF WireKnown
<1>5. Done' = Done /\ Done \in Nat
  <2>1. Done \in Nat
    BY DEF WireKnown
  <2>2. Done' = line' - 1 - Len(wire')
    BY DEF Done
  <2> QED
    BY <1>1, <1>3, <1>4, <2>1, <2>2 DEF Done
<1>6. ~Vouched
  BY <1>1, <1>3 DEF VouchedFor
<1>7. Len(answers) \in Nat /\ \A i \in arrived + 1..Len(answers) : answers[i] \in Signals /\ answers[i] # U!Matches
  <2>1. Len(answers) \in Nat /\ \A i \in 1..Len(answers) : answers[i] \in Signals
    BY LenProperties, ElementOfSeq DEF WireKnown
  <2> QED
    BY <1>6, <2>1 DEF Vouched
<1>8. answers' \in Seq(Signals) /\ \A i \in 1..Len(answers') : answers'[i] # U!Matches
  <2>1. /\ answers' \in Seq(Signals)
        /\ Len(answers') = IF arrived + 1 <= Len(answers) THEN Len(answers) - (arrived + 1) + 1 ELSE 0
        /\ \A i \in 1..Len(answers) - (arrived + 1) + 1 : answers'[i] = answers[arrived + 1 + i - 1]
    BY <1>2, <1>7, SubSeqProperties
  <2>2. \A i \in 1..Len(answers') : answers'[i] = answers[arrived + i] /\ arrived + i \in arrived + 1..Len(answers)
    BY <1>7, <2>1
  <2> QED
    BY <1>7, <2>1, <2>2
<1>9. ~Vouched'
  BY <1>1, <1>8 DEF Vouched
<1>10. WireKnown'
  <2>1. device' = "ready" => \A i \in 1..Len(wire') : wire'[i] = U!Lines[Done' + i]
    <3>1. Done + Len(wire) + 1 = line
      BY <1>3, <1>4 DEF Done
    <3>2. \A i \in 1..Len(wire') : i \in 1..Len(wire) \/ i = Len(wire) + 1
      BY <1>4
    <3>3. device = "ready" => \A i \in 1..Len(wire) : wire[i] = U!Lines[Done + i]
      BY DEF WireKnown
    <3>4. Done + (Len(wire) + 1) = line
      BY <1>4, <1>5, <3>1
    <3> QED
      BY <1>1, <1>4, <1>5, <3>2, <3>3, <3>4
  <2>2. line' \in 1..U!Chunks + 4 /\ tool' \in {"sends", "reads", "ok", "mismatch", "fault", "stalled"}
    BY <1>1, <1>3
  <2>3. heard' \subseteq Signals /\ answers' \in Seq(Signals) /\ wire' \in Seq(Typed) /\ Done' \in Nat
    BY <1>1, <1>4, <1>5, <1>8
  <2>4. content' \in Seq(Nat) /\ opened' \in BOOLEAN /\ device' \in {"ready", "deaf"}
    BY <1>1 DEF WireKnown
  <2>5. U!Chunks' = U!Chunks
    BY DEF U!Chunks
  <2> QED
    BY ONLY <2>1, <2>2, <2>3, <2>4, <2>5 DEF WireKnown
<1> QED
  BY <1>1, <1>5, <1>9, <1>10, ContentStays DEF VouchedFor

\* It reads on, concludes, or gives up.
LEMMA HostKeeps == TransferInv /\ (U!Hears \/ U!Concludes \/ U!TimesOut) => TransferInv'
<1> SUFFICES ASSUME TransferInv, U!Hears \/ U!Concludes \/ U!TimesOut PROVE TransferInv'
  OBVIOUS
<1> USE DEF TransferInv
<1>1. UNCHANGED <<line, wire, device, content, opened>> /\ Done' = Done
  BY DEF U!Hears, U!Concludes, U!TimesOut, Done
<1>2. ContentKnown'
  BY <1>1, ContentStays
<1>3. ASSUME U!Hears PROVE WireKnown' /\ VouchedFor'
  <2>1. tool' = tool /\ answers # <<>> /\ heard' = heard \cup {Head(answers)} /\ answers' = Tail(answers)
    BY <1>3 DEF U!Hears
  <2>2. /\ Head(answers) \in Signals /\ answers' \in Seq(Signals) /\ Len(answers') = Len(answers) - 1
        /\ \A i \in 1..Len(answers') : answers'[i] = answers[i + 1]
    BY <2>1, HeadTailProperties DEF WireKnown
  <2>3. Len(answers) \in Nat \ {0} /\ Head(answers) = answers[1]
    BY <2>1, EmptySeq DEF WireKnown
  <2>4. Vouched' => Vouched
    <3>1. \A i \in 1..Len(answers') : i + 1 \in 1..Len(answers)
      BY <2>2, <2>3
    <3>2. 1 \in 1..Len(answers)
      BY <2>3
    <3> QED
      BY <2>1, <2>2, <2>3, <3>1, <3>2 DEF Vouched
  <2> QED
    BY <1>1, <2>1, <2>2, <2>4 DEF WireKnown, VouchedFor
<1>4. ASSUME U!Concludes PROVE WireKnown' /\ VouchedFor'
  <2>1. tool' = (IF U!Fault \in heard THEN "fault" ELSE U!Verdict) /\ UNCHANGED <<answers, heard>>
    BY <1>4 DEF U!Concludes
  <2>2. tool' \in {"sends", "fault", "ok", "mismatch"} /\ (tool' = "ok" => U!Matches \in heard)
    BY <2>1 DEF U!Verdict
  <2> QED
    BY <1>1, <2>1, <2>2 DEF WireKnown, VouchedFor, Vouched
<1>5. ASSUME U!TimesOut PROVE WireKnown' /\ VouchedFor'
  BY <1>1, <1>5 DEF U!TimesOut, WireKnown, VouchedFor, Vouched
<1> QED
  BY <1>2, <1>3, <1>4, <1>5

\* What a line adds to the signals on their way to the host.
LEMMA AnswersGrow ==
  ASSUME answers \in Seq(Signals), NEW s \in Seq(Signals), answers' = answers \o s
  PROVE  /\ answers' \in Seq(Signals)
         /\ (\E i \in 1..Len(answers') : answers'[i] = U!Matches) =>
               \/ \E i \in 1..Len(answers) : answers[i] = U!Matches
               \/ \E i \in 1..Len(s) : s[i] = U!Matches
<1>1. /\ answers' \in Seq(Signals) /\ Len(answers') = Len(answers) + Len(s)
      /\ \A i \in 1..Len(answers) + Len(s) :
            answers'[i] = IF i <= Len(answers) THEN answers[i] ELSE s[i - Len(answers)]
  BY ConcatProperties
<1>2. Len(answers) \in Nat /\ Len(s) \in Nat
  BY LenProperties
<1> SUFFICES ASSUME NEW i \in 1..Len(answers'), answers'[i] = U!Matches
             PROVE  \/ \E j \in 1..Len(answers) : answers[j] = U!Matches
                    \/ \E j \in 1..Len(s) : s[j] = U!Matches
  BY <1>1
<1>3. CASE i <= Len(answers)
  BY <1>1, <1>2, <1>3
<1>4. CASE i > Len(answers)
  <2>1. i - Len(answers) \in 1..Len(s)
    BY <1>1, <1>2, <1>4
  <2>2. s[i - Len(answers)] = U!Matches
    BY <1>1, <1>2, <1>4
  <2> QED
    BY <2>1, <2>2
<1> QED
  BY <1>2, <1>3, <1>4

\* A file that is a part of what has been sent is so after another line.
LEMMA HonestStays ==
  ASSUME NEW m \in 0..Len(Data), NEW n \in m..Len(Data), content \in Seq(Nat), Honest(m)
  PROVE  Honest(n)
<1>1. Len(Data) \in Nat /\ Len(content) \in Nat
  BY UploadFits, LenProperties DEF U!UploadAssumption
<1>2. Len(content) = n => m = n
  BY <1>1 DEF Honest
<1> QED
  BY <1>1, <1>2 DEF Honest

\* Writing a chunk, or less of it, to a part of what has been sent.
LEMMA HonestGrows ==
  ASSUME NEW m \in 0..Len(Data), NEW n \in m..Len(Data), content \in Seq(Nat), Honest(m),
         NEW s \in Seq(Nat), content' = content \o s,
         Len(s) <= n - m, Len(s) = n - m => s = SubSeq(Data, m + 1, n)
  PROVE  content' \in Seq(Nat) /\ Honest(n)'
<1>1. Len(Data) \in Nat /\ Len(content) \in Nat /\ Len(s) \in Nat
  BY UploadFits, LenProperties DEF U!UploadAssumption
<1>2. content' \in Seq(Nat) /\ Len(content') = Len(content) + Len(s)
  BY ConcatProperties
<1>3. Len(content) <= m /\ (Len(content) = m => content = SubSeq(Data, 1, m))
  BY DEF Honest
<1>4. Len(content') <= n
  BY <1>1, <1>2, <1>3
<1>5. ASSUME Len(content') = n PROVE content' = SubSeq(Data, 1, n)
  <2>1. Len(content) = m /\ Len(s) = n - m
    BY <1>1, <1>2, <1>3, <1>5
  <2>2. content' = SubSeq(Data, 1, m) \o SubSeq(Data, m + 1, n)
    BY <1>3, <2>1
  <2> QED
    BY <2>2, PiecesJoin
<1> QED
  BY <1>2, <1>4, <1>5 DEF Honest

\* How much has been sent grows with the lines.
LEMMA SentIs ==
  /\ \A j \in 1..U!Chunks + 2 : Sent(j) \in 0..Len(Data) /\ Sent(j + 1) \in Sent(j)..Len(Data)
  /\ Sent(1) = 0
  /\ \A j \in 1..U!Chunks : Sent(j) = U!Upto(j - 1) /\ Sent(j + 1) = U!Upto(j)
  /\ Sent(U!Chunks + 2) = Len(Data)
<1>1. U!Chunks \in Nat /\ Len(Data) \in Nat
  BY CutsAre
<1>2. \A j \in 1..U!Chunks + 1 : Sent(j) = U!Upto(j - 1) /\ j - 1 \in Nat
  BY <1>1 DEF Sent
<1>3. Sent(U!Chunks + 2) = U!Upto(U!Chunks) /\ Sent(U!Chunks + 3) = U!Upto(U!Chunks)
  BY <1>1 DEF Sent
<1>4. \A j \in 1..U!Chunks : Sent(j) = U!Upto(j - 1) /\ Sent(j + 1) = U!Upto(j)
  <2> SUFFICES ASSUME NEW j \in 1..U!Chunks PROVE Sent(j) = U!Upto(j - 1) /\ Sent(j + 1) = U!Upto(j)
    OBVIOUS
  <2>1. j \in 1..U!Chunks + 1 /\ j + 1 \in 1..U!Chunks + 1 /\ (j + 1) - 1 = j
    BY <1>1
  <2>2. Sent(j) = U!Upto(j - 1) /\ Sent(j + 1) = U!Upto((j + 1) - 1)
    BY <1>2, <2>1
  <2> QED
    BY <2>1, <2>2
<1>5. Sent(1) = 0
  <2>1. Sent(1) = U!Upto(1 - 1)
    BY <1>1, <1>2
  <2> QED
    BY <2>1, CutsAre
<1>6. \A j \in 1..U!Chunks + 2 : Sent(j) \in 0..Len(Data) /\ Sent(j + 1) \in Sent(j)..Len(Data)
  <2> SUFFICES ASSUME NEW j \in 1..U!Chunks + 2
               PROVE Sent(j) \in 0..Len(Data) /\ Sent(j + 1) \in Sent(j)..Len(Data)
    OBVIOUS
  <2>1. CASE j \in 1..U!Chunks
    <3>1. j - 1 \in Nat /\ (j - 1) + 1 = j /\ j \in Nat
      BY <1>1, <2>1
    <3>2. U!Upto(j - 1) \in 0..Len(Data) /\ U!Upto(j) \in 0..Len(Data) /\ U!Upto(j - 1) <= U!Upto((j - 1) + 1)
      BY <3>1, CutsAre
    <3>3. Sent(j) = U!Upto(j - 1) /\ Sent(j + 1) = U!Upto(j)
      BY <1>4, <2>1
    <3> QED
      BY <1>1, <3>1, <3>2, <3>3
  <2>2. CASE j = U!Chunks + 1
    <3>1. Sent(j) = U!Upto(U!Chunks)
      BY <1>1, <1>2, <2>2
    <3>2. Sent(j + 1) = U!Upto(U!Chunks)
      BY <1>1, <1>3, <2>2
    <3> QED
      BY <1>1, <3>1, <3>2, CutsAre
  <2>3. CASE j = U!Chunks + 2
    <3>1. Sent(j) = U!Upto(U!Chunks) /\ Sent(j + 1) = U!Upto(U!Chunks)
      BY <1>1, <1>3, <2>3
    <3> QED
      BY <1>1, <3>1, CutsAre
  <2> QED
    BY <1>1, <2>1, <2>2, <2>3
<1> QED
  BY <1>3, <1>4, <1>5, <1>6, CutsAre

\* The device: it takes the first line from the wire, and no check has come out well.
LEMMA Executing ==
  ASSUME TransferInv, U!Executes
  PROVE  /\ device = "ready" /\ UNCHANGED <<line, tool, device, heard>>
         /\ Done \in 0..U!Chunks + 2 /\ Done' = Done + 1 /\ Done' \in Nat
         /\ Head(wire) = U!Lines[Done + 1]
         /\ wire' \in Seq(Typed) /\ \A i \in 1..Len(wire') : wire'[i] = U!Lines[Done' + i]
         /\ ~Vouched
         /\ Done + 1 = U!Chunks + 3 => line = U!Chunks + 4 /\ wire' = <<>>
<1> USE DEF TransferInv
<1>1. device = "ready" /\ wire # <<>> /\ wire' = Tail(wire) /\ UNCHANGED <<line, tool, device, heard>>
  BY DEF U!Executes
<1>2. ~Vouched
  BY <1>1 DEF VouchedFor
<1>3. /\ Head(wire) = wire[1] /\ wire' \in Seq(Typed) /\ Len(wire') = Len(wire) - 1
      /\ Len(wire) \in Nat \ {0}
      /\ \A i \in 1..Len(wire') : wire'[i] = wire[i + 1]
  BY <1>1, HeadTailProperties, EmptySeq DEF WireKnown
<1>4. U!Chunks \in Nat /\ line \in 1..U!Chunks + 4 /\ Done \in Nat
  BY CutsAre DEF WireKnown
<1>5. Done = line - 1 - Len(wire) /\ Done' = line' - 1 - Len(wire')
  BY DEF Done
<1>6. Done \in 0..U!Chunks + 2 /\ Done' = Done + 1 /\ Done' \in Nat
  BY <1>1, <1>3, <1>4, <1>5
<1>7. \A i \in 1..Len(wire) : wire[i] = U!Lines[Done + i]
  BY <1>1 DEF WireKnown
<1>8. Head(wire) = U!Lines[Done + 1]
  BY <1>3, <1>7
<1>9. \A i \in 1..Len(wire') : wire'[i] = U!Lines[Done' + i]
  <2> SUFFICES ASSUME NEW i \in 1..Len(wire') PROVE wire'[i] = U!Lines[Done' + i]
    OBVIOUS
  <2>1. i + 1 \in 1..Len(wire) /\ Done + (i + 1) = Done' + i
    BY <1>3, <1>4, <1>6
  <2> QED
    BY <1>3, <1>7, <2>1
<1>10. Done + 1 = U!Chunks + 3 => line = U!Chunks + 4 /\ Len(wire') = 0
  BY <1>3, <1>4, <1>5
<1>11. Len(wire') = 0 => wire' = <<>>
  BY <1>3, EmptySeq
<1> QED
  BY <1>1, <1>2, <1>3, <1>6, <1>8, <1>9, <1>10, <1>11

\* Each line, as it arrives or mutilated, leaves a part of the file or all of it.
LEMMA DeviceKeeps == TransferInv /\ U!Executes => TransferInv'
<1> SUFFICES ASSUME TransferInv, U!Executes PROVE TransferInv'
  OBVIOUS
<1> USE DEF TransferInv
<1>0. PICK d \in Nat : d = Done
  BY DEF WireKnown
<1>1. /\ device = "ready" /\ UNCHANGED <<line, tool, device, heard>>
      /\ d \in 0..U!Chunks + 2 /\ Done' = d + 1 /\ Done' \in Nat
      /\ wire' \in Seq(Typed) /\ \A i \in 1..Len(wire') : wire'[i] = U!Lines[Done' + i]
      /\ ~Vouched
      /\ d + 1 = U!Chunks + 3 => line = U!Chunks + 4 /\ wire' = <<>>
  BY <1>0, Executing
<1>2. U!Chunks \in Nat /\ Len(Data) \in Nat /\ d \in Nat
  BY <1>0, CutsAre
<1>3. /\ Head(wire).does = "open" => d + 1 = 1
      /\ Head(wire).does = "write" =>
            /\ d \in 1..U!Chunks
            /\ Head(wire).bytes = SubSeq(Data, U!Upto(d - 1) + 1, U!Upto(d))
      /\ Head(wire).does = "close" => d + 1 = U!Chunks + 2
      /\ Head(wire).does = "check" => d + 1 = U!Chunks + 3
  <2>1. d + 1 \in 1..U!Chunks + 3 /\ (d + 1) - 1 = d /\ (d + 1) - 2 = d - 1
    BY <1>1, <1>2
  <2>2. Head(wire) = U!Lines[d + 1]
    BY <1>0, Executing
  <2> QED
    BY <2>1, <2>2, LineIs
<1>4. /\ answers \in Seq(Signals) /\ content \in Seq(Nat) /\ opened \in BOOLEAN
      /\ (content \in Before /\ ~opened) \/ (d >= 1 /\ Honest(Sent(d)))
  <2>1. (content \in Before /\ ~opened) \/ (d >= 1 /\ Honest(Sent(d)))
    BY <1>0, <1>1 DEF ContentKnown, Honest
  <2> QED
    BY <2>1 DEF WireKnown
\* What is left to show: kinds, the file, and that only the check vouches for it.
<1>5. ASSUME answers' \in Seq(Signals), content' \in Seq(Nat), opened' \in BOOLEAN,
             (content' \in Before /\ ~opened') \/ (d + 1 >= 1 /\ Honest(Sent(d + 1))'),
             Vouched' => line = U!Chunks + 4 /\ wire' = <<>> /\ (content' = Data \/ content' \in Before)
      PROVE  TransferInv'
  <2>1. ContentKnown'
    BY <1>1, <1>5 DEF ContentKnown
  <2>2. WireKnown'
    BY <1>1, <1>5 DEF WireKnown
  <2> QED
    BY <1>1, <1>5, <2>1, <2>2 DEF VouchedFor
<1>6. ASSUME NEW s \in Seq(Signals), answers' = answers \o s, \A i \in 1..Len(s) : s[i] # U!Matches
      PROVE  answers' \in Seq(Signals) /\ ~Vouched'
  BY <1>1, <1>4, <1>6, AnswersGrow DEF Vouched
<1> DEFINE p == <<U!Prompt>>
           f == <<U!Fault, U!Prompt>>
           c == <<U!Checks, U!Prompt>>
<1>7. /\ p \in Seq(Signals) /\ \A i \in 1..Len(p) : p[i] # U!Matches
      /\ f \in Seq(Signals) /\ \A i \in 1..Len(f) : f[i] # U!Matches
      /\ c \in Seq(Signals) /\ (U!Checks # U!Matches => \A i \in 1..Len(c) : c[i] # U!Matches)
  <2>1. /\ {U!Prompt, U!Fault, U!Checks} \subseteq Signals
        /\ U!Prompt # U!Matches /\ U!Fault # U!Matches
    BY DEF Signals, U!Prompt, U!Fault, U!Matches, U!Checks, U!Differs
  <2>2. \A x, y \in Signals : /\ <<x>> \in Seq(Signals) /\ Len(<<x>>) = 1 /\ <<x>>[1] = x
                               /\ <<x, y>> \in Seq(Signals) /\ Len(<<x, y>>) = 2
                               /\ <<x, y>>[1] = x /\ <<x, y>>[2] = y
    OBVIOUS
  <2> QED
    BY <2>1, <2>2
<1> HIDE DEF p, f, c
<1>8. ASSUME U!Opens PROVE TransferInv'
  <2>1. d = 0 /\ content' = <<>> /\ opened' = TRUE /\ answers' = answers \o p
    BY <1>2, <1>3, <1>8 DEF U!Opens, U!Answers, p
  <2>2. answers' \in Seq(Signals) /\ ~Vouched'
    BY <1>6, <1>7, <2>1
  <2>3. content' \in Seq(Nat) /\ Len(content') = 0
    BY <2>1, EmptySeq
  <2>4. SubSeq(Data, 1, 0) = content'
    BY <2>1, SubSeqEmpty
  <2>5. Honest(0)'
    BY <2>3, <2>4 DEF Honest
  <2>6. Sent(d + 1) = 0
    BY <2>1, SentIs
  <2>7. Honest(Sent(d + 1))'
    BY <2>5, <2>6
  <2> QED
    BY <1>2, <1>5, <2>1, <2>2, <2>3, <2>7
\* Whatever a line adds, if it opens nothing and is not the check.
<1>9. ASSUME d \in 1..U!Chunks, opened, opened' = opened, answers' = answers \o p,
             NEW s \in Seq(Nat), content' = content \o s,
             Len(s) <= U!Upto(d) - U!Upto(d - 1),
             Len(s) = U!Upto(d) - U!Upto(d - 1) => s = SubSeq(Data, U!Upto(d - 1) + 1, U!Upto(d))
      PROVE  TransferInv'
  <2>1. answers' \in Seq(Signals) /\ ~Vouched'
    BY <1>6, <1>7, <1>9
  <2> DEFINE m == Sent(d)
             n == Sent(d + 1)
  <2>2. m = U!Upto(d - 1) /\ n = U!Upto(d) /\ m \in 0..Len(Data) /\ n \in m..Len(Data)
    BY <1>2, <1>9, SentIs
  <2>3. Honest(m)
    BY <1>4, <1>9
  <2> HIDE DEF m, n
  <2>4. content' \in Seq(Nat) /\ Honest(n)'
    BY <1>4, <1>9, <2>2, <2>3, HonestGrows
  <2>5. d + 1 >= 1
    BY <1>2
  <2> QED
    BY <1>4, <1>5, <1>9, <2>1, <2>4, <2>5 DEF n
<1>10. ASSUME U!Writes PROVE TransferInv'
  <2>1. opened /\ opened' = opened /\ answers' = answers \o p /\ Head(wire).does = "write"
    BY <1>10 DEF U!Writes, U!Answers, p
  <2> DEFINE m == U!Upto(d - 1)
             n == U!Upto(d)
             b == Head(wire).bytes
  <2>2. d \in 1..U!Chunks /\ b = SubSeq(Data, m + 1, n)
    BY <1>3, <2>1
  <2>3. m \in 0..Len(Data) /\ n \in m..Len(Data)
    BY <1>2, <2>2, SentIs
  <2>4. PICK k \in 0..Len(b) : content' = content \o SubSeq(b, 1, k)
    BY <1>10 DEF U!Writes
  <2> HIDE DEF m, n, b
  <2>5. b \in Seq(Nat) /\ Len(b) = n - m /\ Len(b) \in Nat
    BY <2>2, <2>3, PieceIs, LenProperties
  <2>6. SubSeq(b, 1, k) \in Seq(Nat) /\ Len(SubSeq(b, 1, k)) = k
    <3>1. \A i \in 1..k : b[i] \in Nat
      BY <2>5, ElementOfSeq
    <3>2. /\ SubSeq(b, 1, k) \in Seq(Nat)
          /\ Len(SubSeq(b, 1, k)) = IF 1 <= k THEN k - 1 + 1 ELSE 0
      BY <2>5, <3>1, SubSeqProperties
    <3> QED
      BY <2>5, <3>2
  <2>7. k = Len(b) => SubSeq(b, 1, k) = b
    <3>1. \A i \in 1..k : b[i] \in Nat
      BY <2>5, ElementOfSeq
    <3>2. \A i \in 1..k - 1 + 1 : SubSeq(b, 1, k)[i] = b[1 + i - 1]
      BY <2>5, <3>1, SubSeqProperties
    <3>3. \A i \in 1..k : SubSeq(b, 1, k)[i] = b[i]
      BY <2>5, <3>2
    <3> QED
      BY <2>5, <2>6, <3>3, SeqEqual
  <2>8. Len(SubSeq(b, 1, k)) <= n - m
    BY <2>5, <2>6
  <2>9. Len(SubSeq(b, 1, k)) = n - m => SubSeq(b, 1, k) = SubSeq(Data, m + 1, n)
    BY <2>2, <2>5, <2>6, <2>7
  <2> QED
    BY <1>9, <2>1, <2>2, <2>4, <2>6, <2>8, <2>9 DEF m, n
<1>11. ASSUME U!WritesLess PROVE TransferInv'
  <2>1. opened /\ opened' = opened /\ answers' = answers \o p /\ Head(wire).does = "write"
    BY <1>11 DEF U!WritesLess, U!Answers, p
  <2> DEFINE m == U!Upto(d - 1)
             n == U!Upto(d)
             b == Head(wire).bytes
  <2>2. d \in 1..U!Chunks /\ b = SubSeq(Data, m + 1, n)
    BY <1>3, <2>1
  <2>3. m \in 0..Len(Data) /\ n \in m..Len(Data)
    BY <1>2, <2>2, SentIs
  <2>4. PICK i \in 1..Len(b) : content' = content \o U!RemoveAt(b, i)
    BY <1>11 DEF U!WritesLess
  <2> HIDE DEF m, n, b
  <2>5. b \in Seq(Nat) /\ Len(b) = n - m /\ Len(b) \in Nat
    BY <2>2, <2>3, PieceIs, LenProperties
  <2> DEFINE x == SubSeq(b, 1, i - 1)
             y == SubSeq(b, i + 1, Len(b))
  <2>6. \A j \in 1..Len(b) : b[j] \in Nat
    BY <2>5, ElementOfSeq
  <2>7. x \in Seq(Nat) /\ Len(x) = i - 1
    <3>1. x \in Seq(Nat) /\ Len(x) = IF 1 <= i - 1 THEN i - 1 - 1 + 1 ELSE 0
      BY <2>5, <2>6, SubSeqProperties
    <3> QED
      BY <2>5, <3>1
  <2>8. y \in Seq(Nat) /\ Len(y) = Len(b) - i
    <3>1. y \in Seq(Nat) /\ Len(y) = IF i + 1 <= Len(b) THEN Len(b) - (i + 1) + 1 ELSE 0
      BY <2>5, <2>6, SubSeqProperties
    <3> QED
      BY <2>5, <3>1
  <2>9. U!RemoveAt(b, i) = x \o y
    BY DEF U!RemoveAt
  <2> HIDE DEF x, y
  <2>10. x \o y \in Seq(Nat) /\ Len(x \o y) = Len(b) - 1
    <3>1. x \o y \in Seq(Nat) /\ Len(x \o y) = Len(x) + Len(y)
      BY <2>7, <2>8, ConcatProperties
    <3> QED
      BY <2>5, <2>7, <2>8, <3>1
  <2>11. Len(x \o y) <= n - m /\ Len(x \o y) # n - m
    BY <2>5, <2>10
  <2> QED
    BY <1>9, <2>1, <2>2, <2>4, <2>9, <2>10, <2>11 DEF m, n
\* A line that leaves the file alone.
<1>12. ASSUME content' = content, opened' \in BOOLEAN, opened' => opened, answers' \in Seq(Signals),
              Vouched' => /\ line = U!Chunks + 4 /\ wire' = <<>>
                          /\ content = Data \/ content \in Before
       PROVE  TransferInv'
  <2>1. d >= 1 /\ Honest(Sent(d)) => Honest(Sent(d + 1))
    <3> SUFFICES ASSUME d >= 1, Honest(Sent(d)) PROVE Honest(Sent(d + 1))
      OBVIOUS
    <3>1. d \in 1..U!Chunks + 2
      BY <1>1, <1>2
    <3>2. Sent(d) \in 0..Len(Data) /\ Sent(d + 1) \in Sent(d)..Len(Data)
      BY <3>1, SentIs
    <3> QED
      BY <1>4, <3>2, HonestStays
  <2>2. Honest(Sent(d + 1)) => Honest(Sent(d + 1))'
    BY <1>12 DEF Honest
  <2>3. (content' \in Before /\ ~opened') \/ (d + 1 >= 1 /\ Honest(Sent(d + 1))')
    BY <1>2, <1>4, <1>12, <2>1, <2>2
  <2>4. content' \in Seq(Nat)
    BY <1>4, <1>12
  <2>5. content' = content
    BY <1>12
  <2> QED
    BY <1>5, <1>12, <2>3, <2>4, <2>5
<1>13. ASSUME U!Closes PROVE TransferInv'
  <2>1. opened' = FALSE /\ content' = content /\ answers' = answers \o p
    BY <1>13 DEF U!Closes, U!Answers, p
  <2>2. answers' \in Seq(Signals) /\ ~Vouched'
    BY <1>6, <1>7, <2>1
  <2> QED
    BY <1>12, <2>1, <2>2
<1>14. ASSUME U!Raises PROVE TransferInv'
  <2>1. opened' = opened /\ content' = content /\ answers' = answers \o f
    BY <1>14 DEF U!Raises, U!Answers, f
  <2>2. answers' \in Seq(Signals) /\ ~Vouched'
    BY <1>6, <1>7, <2>1
  <2> QED
    BY <1>4, <1>12, <2>1, <2>2
<1>15. ASSUME U!Sums PROVE TransferInv'
  <2>1. Head(wire).does = "check" /\ opened' = opened /\ content' = content
        /\ answers' = answers \o c
    BY <1>15 DEF U!Sums, U!Answers, c
  <2>2. d = U!Chunks + 2
    BY <1>2, <1>3, <2>1
  <2>3. line = U!Chunks + 4 /\ wire' = <<>>
    BY <1>1, <1>2, <2>2
  <2>4. answers' \in Seq(Signals)
    BY <1>4, <1>7, <2>1, AnswersGrow
  <2>5. Vouched' => U!Checks = U!Matches
    <3> SUFFICES ASSUME Vouched', U!Checks # U!Matches PROVE FALSE
      OBVIOUS
    <3> QED
      BY <1>6, <1>7, <2>1
  <2>6. U!Checks = U!Matches => Len(content) = Len(Data)
    BY DEF U!Checks, U!Matches, U!Differs
  <2>7. Len(content) = Len(Data) => content = Data \/ content \in Before
    <3> SUFFICES ASSUME Len(content) = Len(Data), content \notin Before PROVE content = Data
      OBVIOUS
    <3>1. Honest(Len(Data))
      BY <1>4, <2>2, SentIs
    <3>2. content = SubSeq(Data, 1, Len(Data))
      BY <3>1 DEF Honest
    <3>3. Data \in Seq(Nat)
      BY UploadFits DEF U!UploadAssumption
    <3> DEFINE s == SubSeq(Data, 0 + 1, Len(Data))
    <3>4. s \in Seq(Nat) /\ Len(s) = Len(Data) - 0 /\ \A i \in 1..Len(Data) - 0 : s[i] = Data[0 + i]
      BY <1>2, PieceIs
    <3>5. s = content
      BY <3>2
    <3> HIDE DEF s
    <3>6. Len(s) = Len(Data) /\ \A i \in 1..Len(Data) : s[i] = Data[i]
      BY <1>2, <3>4
    <3> QED
      BY <3>3, <3>4, <3>5, <3>6, SeqEqual
  <2> QED
    BY <1>4, <1>12, <2>1, <2>3, <2>4, <2>5, <2>6, <2>7
<1> QED
  BY <1>8, <1>10, <1>11, <1>13, <1>14, <1>15 DEF U!Executes

\* A line that never ends: nothing comes of it, nor of what follows.
LEMMA LossKeeps == TransferInv /\ (U!GoesDeaf \/ U!Swallows) => TransferInv'
<1> SUFFICES ASSUME TransferInv, U!GoesDeaf \/ U!Swallows PROVE TransferInv'
  OBVIOUS
<1> USE DEF TransferInv
<1>1. wire # <<>> /\ device' = "deaf" /\ UNCHANGED <<line, tool, answers, heard, content, opened>>
      /\ wire' \in {<<>>, Tail(wire)}
  BY DEF U!GoesDeaf, U!Swallows
<1>2. ~Vouched /\ ~Vouched'
  BY <1>1 DEF VouchedFor, Vouched
<1>3. wire' \in Seq(Typed) /\ Len(wire') <= Len(wire) /\ Len(wire') \in Nat /\ Len(wire) \in Nat
  <2>1. Tail(wire) \in Seq(Typed) /\ Len(Tail(wire)) = Len(wire) - 1 /\ Len(wire) \in Nat \ {0}
    BY <1>1, HeadTailProperties, EmptySeq DEF WireKnown
  <2>2. CASE wire' = <<>>
    <3>1. wire' \in Seq(Typed) /\ Len(wire') = 0
      BY <2>2, EmptySeq
    <3> QED
      BY <2>1, <3>1
  <2>3. CASE wire' = Tail(wire)
    BY <2>1, <2>3
  <2> QED
    BY <1>1, <2>2, <2>3
<1>4. Done' \in Nat
  <2>1. Done \in Nat /\ line \in Int
    BY CutsAre DEF WireKnown
  <2> QED
    BY <1>1, <1>3, <2>1 DEF Done
<1>5. WireKnown'
  BY <1>1, <1>3, <1>4 DEF WireKnown
<1> QED
  BY <1>1, <1>2, <1>5 DEF ContentKnown, VouchedFor

\* Every step keeps the invariant.
LEMMA TransferKeeps == TransferInv /\ [U!Next]_(U!vars) => TransferInv'
<1> SUFFICES ASSUME TransferInv, [U!Next]_(U!vars) PROVE TransferInv'
  OBVIOUS
<1>1. CASE UNCHANGED U!vars
  BY <1>1 DEF U!vars, TransferInv, WireKnown, ContentKnown, VouchedFor, Vouched, Done, Honest
<1> QED
  BY <1>1, SendsKeep, HostKeeps, DeviceKeeps, LossKeeps DEF U!Next

\* The invariant of a transfer, for every file, size of chunk and loss on the
\* way. (upload.py put, send)
THEOREM TransferIsSound == U!Spec => []TransferInv
BY TransferInitially, TransferKeeps, PTL DEF U!Spec

\* A file reported as good is the file, or one that was there before and was
\* never opened: whatever was lost, late, cut short or raised, a file of the
\* right length is the right file. (upload.py put, verify)
THEOREM ReportsAreTrue == U!Spec => []TransferIsHonest
<1>1. TransferInv => TransferIsHonest
  BY DEF TransferInv, VouchedFor, Vouched, TransferIsHonest, U!ReportedIsWritten
<1> QED
  BY <1>1, TransferIsSound, PTL

--------------------------------------------------------------------------------
(* Induction and recursion over the natural numbers, for sets and functions.  *)

\* A set of natural numbers that is not empty has a least element.
LEMMA LeastNumber ==
  ASSUME NEW Q \in SUBSET Nat, Q # {}
  PROVE  \E n \in Q : \A m \in Q : n <= m
<1> DEFINE R == StrictSubsetOrdering(Nat)
           F == FiniteSubsetsOf(Nat)
           D == {0..n : n \in Q}
<1>1. IsWellFoundedOn(R, F)
  BY FS_StrictSubsetOrderingWellFounded
<1>2. D \subseteq F /\ D # {}
  <2>1. \A n \in Q : IsFiniteSet(0..n) /\ 0..n \in SUBSET Nat
    BY FS_Interval
  <2> QED
    BY <2>1 DEF FiniteSubsetsOf
<1> HIDE DEF R, F, D
<1>3. PICK X \in D : \A Y \in D : ~(<<Y, X>> \in R)
  BY <1>1, <1>2, WFMin
<1>4. PICK x \in Q : X = 0..x
  BY <1>3 DEF D
<1>5. SUFFICES ASSUME NEW y \in Q, y < x PROVE FALSE
  BY <1>4
<1>6. 0..y \in D
  BY DEF D
<1>7. <<0..y, X>> \in R
  BY <1>4, <1>5 DEF R, StrictSubsetOrdering
<1> QED
  BY <1>3, <1>6, <1>7

\* A set that has 0, and the successor of every number it has, has all.
LEMMA Induction ==
  ASSUME NEW Q, 0 \in Q, \A n \in Nat : n \in Q => n + 1 \in Q
  PROVE  \A n \in Nat : n \in Q
<1> SUFFICES ASSUME Nat \ Q # {} PROVE FALSE
  OBVIOUS
<1>1. PICK n \in Nat \ Q : \A m \in Nat \ Q : n <= m
  BY LeastNumber
<1>2. n # 0 /\ n - 1 \in Nat
  BY <1>1
<1>3. n - 1 \in Q
  BY <1>1, <1>2
<1> QED
  BY <1>1, <1>2, <1>3

\* What comes of taking the first n steps, from b on.
Runs(n, S, b, step) == {f \in [0..n -> S] : f[0] = b /\ \A i \in 1..n : f[i] = step[i][f[i - 1]]}

\* Steps can be taken one after the other.
LEMMA RunExists ==
  ASSUME NEW n \in Nat, NEW S, NEW b \in S, NEW step \in [1..n -> [S -> S]]
  PROVE  Runs(n, S, b, step) # {}
<1> DEFINE Can(k) == \E f \in [0..k -> S] : f[0] = b /\ \A i \in 1..k : f[i] = step[i][f[i - 1]]
           Q == {k \in Nat : k <= n => Can(k)}
<1>1. 0 \in Q
  <2> DEFINE f == [i \in 0..0 |-> b]
  <2>1. f \in [0..0 -> S] /\ f[0] = b /\ \A i \in 1..0 : f[i] = step[i][f[i - 1]]
    OBVIOUS
  <2> QED
    BY <2>1
<1>2. ASSUME NEW k \in Nat, k \in Q PROVE k + 1 \in Q
  <2> SUFFICES ASSUME k + 1 <= n PROVE Can(k + 1)
    OBVIOUS
  <2>1. PICK f \in [0..k -> S] : f[0] = b /\ \A i \in 1..k : f[i] = step[i][f[i - 1]]
    BY <1>2
  <2> DEFINE g == [i \in 0..k + 1 |-> IF i = k + 1 THEN step[k + 1][f[k]] ELSE f[i]]
  <2>2. k \in 0..k /\ k + 1 \in 1..n /\ step[k + 1][f[k]] \in S
    BY <2>1
  <2>3. \A i \in 0..k + 1 : i \in 0..k \/ i = k + 1
    OBVIOUS
  <2>4. g \in [0..k + 1 -> S]
    BY <2>1, <2>2, <2>3
  <2>5. \A i \in 0..k : i # k + 1 /\ i \in 0..k + 1 /\ g[i] = f[i]
    OBVIOUS
  <2>6. g[k + 1] = step[k + 1][f[k]]
    OBVIOUS
  <2> HIDE DEF g
  <2>7. ASSUME NEW i \in 1..k + 1 PROVE g[i] = step[i][g[i - 1]]
    <3>1. CASE i = k + 1
      BY <2>2, <2>5, <2>6, <3>1
    <3>2. CASE i # k + 1
      <4>1. i \in 1..k /\ i \in 0..k /\ i - 1 \in 0..k
        BY <3>2
      <4> QED
        BY <2>1, <2>5, <4>1
    <3> QED
      BY <3>1, <3>2
  <2>8. g[0] = b
    BY <2>1, <2>5
  <2> QED
    BY <2>4, <2>7, <2>8
<1> HIDE DEF Q
<1>3. n \in Q
  BY <1>1, <1>2, Induction
<1> QED
  BY <1>3 DEF Q, Runs

\* What takes these steps stays among the states they are between.
LEMMA RunIs ==
  ASSUME NEW n \in Nat, NEW S, NEW b \in S, NEW step \in [1..n -> [S -> S]], NEW run,
         run = [k \in 0..n |-> run[k]], run[0] = b,
         \A k \in 1..n : run[k - 1] \in S => run[k] = step[k][run[k - 1]]
  PROVE  run \in Runs(n, S, b, step)
<1> DEFINE Q == {k \in Nat : k <= n => run[k] \in S}
<1>1. 0 \in Q
  OBVIOUS
<1>2. ASSUME NEW k \in Nat, k \in Q PROVE k + 1 \in Q
  <2> SUFFICES ASSUME k + 1 <= n PROVE run[k + 1] \in S
    OBVIOUS
  <2>1. k + 1 \in 1..n /\ (k + 1) - 1 = k /\ run[k] \in S
    BY <1>2
  <2>2. run[k + 1] = step[k + 1][run[k]]
    BY <2>1
  <2> QED
    BY <2>1, <2>2
<1> HIDE DEF Q
<1>3. \A k \in Nat : k \in Q
  BY <1>1, <1>2, Induction
<1>4. \A k \in 0..n : run[k] \in S
  BY <1>3 DEF Q
<1>5. \A k \in 1..n : k - 1 \in 0..n
  OBVIOUS
<1> QED
  BY <1>4, <1>5 DEF Runs

--------------------------------------------------------------------------------
(* Naming: what a lookup returns *)

Entries == [id : N!Numbers, mask : N!Numbers, name : Nat \cup {N!NoName}]

\* The scan of the table has a best record at every place.
LEMMA ScanIs ==
  ASSUME NEW ident, table \in Seq(Entries)
  PROVE  \E best \in [0..Len(table) -> Entries] :
            /\ best[0] = N!Nobody
            /\ \A k \in 1..Len(table) :
                  best[k] = IF N!Fits(ident, table[k]) /\ N!Better(table[k], best[k - 1])
                            THEN table[k] ELSE best[k - 1]
            /\ N!LookupPhy(ident) = best[Len(table)].name
<1> DEFINE n == Len(table)
           Then(k, e) == IF N!Fits(ident, table[k]) /\ N!Better(table[k], e) THEN table[k] ELSE e
           step == [k \in 1..n |-> [e \in Entries |-> Then(k, e)]]
           Scan(f) == [k \in 0..n |-> IF k = 0 THEN N!Nobody
                          ELSE IF N!Fits(ident, table[k]) /\ N!Better(table[k], f[k - 1]) THEN table[k]
                          ELSE f[k - 1]]
           best == CHOOSE f : f = Scan(f)
<1>1. n \in Nat /\ \A k \in 1..n : table[k] \in Entries
  BY LenProperties, ElementOfSeq
<1>2. N!LookupPhy(ident) = best[n].name
  BY DEF N!LookupPhy
<1>3. N!Nobody \in Entries
  <2>1. {} \in N!Numbers /\ N!None \in N!Numbers
    BY DEF N!Numbers
  <2> QED
    BY <2>1 DEF N!Nobody, Entries
<1>4. step \in [1..n -> [Entries -> Entries]]
  BY <1>1
<1> HIDE DEF step
<1>5. PICK f \in [0..n -> Entries] : f[0] = N!Nobody /\ \A k \in 1..n : f[k] = step[k][f[k - 1]]
  <2> HIDE DEF n, best, Scan, Then
  <2>1. n \in Nat
    BY <1>1
  <2>2. Runs(n, Entries, N!Nobody, step) # {}
    BY <2>1, <1>3, <1>4, RunExists
  <2> QED
    BY <2>2 DEF Runs
<1>6. \A k \in 1..n : k - 1 \in 0..n /\ f[k - 1] \in Entries /\ f[k] = Then(k, f[k - 1])
  <2> HIDE DEF n
  <2> QED
    BY <1>1, <1>5 DEF step
<1> HIDE DEF n
<1>7. f = Scan(f)
  BY <1>1, <1>5, <1>6
<1>8. best = Scan(best)
  BY <1>7
<1> HIDE DEF best
<1>9. /\ best = [k \in 0..n |-> best[k]]
      /\ best[0] = N!Nobody
      /\ \A k \in 1..n : best[k] = Then(k, best[k - 1])
  <2>1. \A k \in 1..n : k \in 0..n /\ k # 0
    BY <1>1
  <2>2. 0 \in 0..n
    BY <1>1
  <2>3. Scan(best) = [k \in 0..n |-> Scan(best)[k]] /\ Scan(best)[0] = N!Nobody
    BY <2>2
  <2>4. \A k \in 1..n : Scan(best)[k] = Then(k, best[k - 1])
    BY <2>1
  <2> HIDE DEF Scan, Then
  <2> QED
    BY <1>8, <2>3, <2>4
<1> HIDE DEF Then
<1>10. \A k \in 0..n : best[k] \in Entries
  <2> DEFINE Q == {k \in Nat : k <= n => best[k] \in Entries}
  <2>1. 0 \in Q
    BY <1>3, <1>9
  <2>2. ASSUME NEW k \in Nat, k \in Q PROVE k + 1 \in Q
    <3> SUFFICES ASSUME k + 1 <= n PROVE best[k + 1] \in Entries
      OBVIOUS
    <3>1. k + 1 \in 1..n /\ (k + 1) - 1 = k /\ best[k] \in Entries
      BY <1>1, <2>2
    <3>2. best[k + 1] = Then(k + 1, best[k])
      BY <1>9, <3>1
    <3> QED
      BY <1>1, <3>1, <3>2 DEF Then
  <2> HIDE DEF Q
  <2>3. \A k \in Nat : k \in Q
    BY <2>1, <2>2, Induction
  <2> QED
    BY <1>1, <2>3 DEF Q
<1>11. best \in [0..n -> Entries]
  BY <1>9, <1>10
<1> QED
  BY <1>2, <1>9, <1>11 DEF Then, n

\* What the table holds of the elements that are recorded.
Records == [id : SUBSET N!Ones, mask : SUBSET N!Ones, name : Nat]

\* Counting is the same here and there.
LEMMA CountIs ==
  ASSUME NEW S
  PROVE  N!Cardinality(S) = Cardinality(S)
BY DEF N!Cardinality, Cardinality

\* A record says as much as its mask has bits.
LEMMA BitsAre ==
  ASSUME NEW e \in Records
  PROVE  /\ e \in Entries /\ e # N!Nobody
         /\ N!MaskBits(e) \in Nat /\ N!MaskBits(e) = Cardinality(e.mask)
<1>1. e \in Entries /\ e # N!Nobody
  <2>1. e.name \in Nat /\ e.name # -1
    BY DEF Records
  <2> QED
    BY <2>1 DEF Records, Entries, N!Numbers, N!NoName, N!Nobody
<1>2. IsFiniteSet(N!Ones)
  BY IdentifyFits, FS_Interval DEF N!IdentifyAssumption, N!Ones
<1>3. Cardinality(e.mask) \in Nat
  BY <1>2, FS_Subset, FS_CardinalityType DEF Records
<1> QED
  BY <1>1, <1>3, CountIs DEF N!MaskBits

\* A lookup returns the name of a record that fits and has the most bits of
\* those, or no name where none fits.
LEMMA LookupIs ==
  ASSUME NEW ident, table \in Seq(Records)
  PROVE  \/ /\ N!LookupPhy(ident) = N!NoName
            /\ \A j \in 1..Len(table) : ~N!Fits(ident, table[j])
         \/ \E i \in 1..Len(table) :
               /\ N!LookupPhy(ident) = table[i].name /\ N!Fits(ident, table[i])
               /\ \A j \in 1..Len(table) : N!Fits(ident, table[j]) =>
                     Cardinality(table[j].mask) <= Cardinality(table[i].mask)
<1> DEFINE n == Len(table)
<1>1. /\ n \in Nat /\ table \in Seq(Entries)
      /\ \A j \in 1..n : table[j] \in Records
  <2>1. \A j \in 1..n : table[j] \in Records /\ table[j] \in Entries
    BY LenProperties, ElementOfSeq, BitsAre
  <2> QED
    BY <2>1
<1>2. PICK best \in [0..n -> Entries] :
         /\ best[0] = N!Nobody
         /\ \A k \in 1..n :
               best[k] = IF N!Fits(ident, table[k]) /\ N!Better(table[k], best[k - 1])
                         THEN table[k] ELSE best[k - 1]
         /\ N!LookupPhy(ident) = best[n].name
  BY <1>1, ScanIs
<1> DEFINE None(k) == best[k] = N!Nobody /\ \A j \in 1..k : ~N!Fits(ident, table[j])
           IsBest(k, i) ==
              /\ best[k] = table[i] /\ N!Fits(ident, table[i])
              /\ \A j \in 1..k : N!Fits(ident, table[j]) => N!MaskBits(table[j]) <= N!MaskBits(table[i])
           Q == {k \in Nat : k <= n => None(k) \/ \E i \in 1..k : IsBest(k, i)}
<1> HIDE DEF n
<1>3. 0 \in Q
  BY <1>2
<1>4. ASSUME NEW k \in Nat, k \in Q PROVE k + 1 \in Q
  <2> SUFFICES ASSUME k + 1 <= n PROVE None(k + 1) \/ \E i \in 1..k + 1 : IsBest(k + 1, i)
    OBVIOUS
  <2>1. /\ k + 1 \in 1..n /\ (k + 1) - 1 = k
        /\ \A j \in 1..k + 1 : j \in 1..k \/ j = k + 1
        /\ \A j \in 1..k + 1 : N!MaskBits(table[j]) \in Nat
    BY <1>1, BitsAre
  <2>2. best[k + 1] = IF N!Fits(ident, table[k + 1]) /\ N!Better(table[k + 1], best[k])
                      THEN table[k + 1] ELSE best[k]
    BY <1>2, <2>1
  <2>3. CASE None(k)
    <3>1. N!MaskBits(best[k]) = -1
      BY <2>3 DEF N!MaskBits
    <3>2. N!Better(table[k + 1], best[k])
      BY <2>1, <3>1 DEF N!Better
    <3>3. CASE N!Fits(ident, table[k + 1])
      <4>1. IsBest(k + 1, k + 1)
        BY <2>1, <2>2, <2>3, <3>2, <3>3
      <4> QED
        BY <2>1, <4>1
    <3> QED
      BY <2>1, <2>2, <2>3, <3>3
  <2>4. ASSUME NEW i \in 1..k, IsBest(k, i) PROVE \E m \in 1..k + 1 : IsBest(k + 1, m)
    <3>1. i \in 1..k + 1 /\ best[k] = table[i]
      BY <2>4
    <3>2. CASE N!Fits(ident, table[k + 1]) /\ N!Better(table[k + 1], best[k])
      <4>1. N!MaskBits(table[i]) < N!MaskBits(table[k + 1])
        BY <3>1, <3>2, <2>1 DEF N!Better
      <4>2. \A j \in 1..k + 1 : N!Fits(ident, table[j]) => N!MaskBits(table[j]) <= N!MaskBits(table[k + 1])
        <5> SUFFICES ASSUME NEW j \in 1..k + 1, N!Fits(ident, table[j])
                     PROVE  N!MaskBits(table[j]) <= N!MaskBits(table[k + 1])
          OBVIOUS
        <5>1. /\ N!MaskBits(table[j]) \in Nat /\ N!MaskBits(table[i]) \in Nat
              /\ N!MaskBits(table[k + 1]) \in Nat
          BY <2>1, <3>1
        <5>2. CASE j \in 1..k
          BY <2>4, <4>1, <5>1, <5>2
        <5> QED
          BY <2>1, <5>1, <5>2
      <4>3. IsBest(k + 1, k + 1)
        BY <2>1, <2>2, <3>2, <4>2
      <4> QED
        BY <2>1, <4>3
    <3>3. CASE ~(N!Fits(ident, table[k + 1]) /\ N!Better(table[k + 1], best[k]))
      <4>1. N!Fits(ident, table[k + 1]) => N!MaskBits(table[k + 1]) <= N!MaskBits(table[i])
        BY <3>1, <3>3, <2>1 DEF N!Better
      <4>2. IsBest(k + 1, i)
        BY <2>1, <2>2, <2>4, <3>1, <3>3, <4>1
      <4> QED
        BY <3>1, <4>2
    <3> QED
      BY <3>2, <3>3
  <2>5. None(k) \/ \E i \in 1..k : IsBest(k, i)
    BY <1>1, <1>4
  <2> HIDE DEF None, IsBest
  <2> QED
    BY <2>3, <2>4, <2>5
<1> HIDE DEF Q
<1>5. n \in Q
  BY <1>1, <1>3, <1>4, Induction
<1>6. CASE None(n)
  BY <1>2, <1>6 DEF N!Nobody, n
<1>7. ASSUME NEW i \in 1..n, IsBest(n, i)
      PROVE  /\ N!LookupPhy(ident) = table[i].name /\ N!Fits(ident, table[i])
             /\ \A j \in 1..n : N!Fits(ident, table[j]) =>
                   Cardinality(table[j].mask) <= Cardinality(table[i].mask)
  <2>1. \A j \in 1..n : N!MaskBits(table[j]) = Cardinality(table[j].mask)
    BY <1>1, BitsAre
  <2> QED
    BY <1>2, <1>7, <2>1
<1> QED
  BY <1>1, <1>5, <1>6, <1>7 DEF Q, n

--------------------------------------------------------------------------------
(* Naming: what the table has of the kernel's drivers *)

\* Numbers the model is configured with.
LEMMA SizesAre ==
  /\ Width \in Nat /\ Half \in 0..Width /\ Model \in Nat /\ Vendor \in Nat
  /\ Sources \subseteq Seq(N!Elements) /\ Idents \subseteq (SUBSET N!Ones) \ {{}, N!Ones}
BY IdentifyFits DEF N!IdentifyAssumption

\* A recorded element makes a record.
LEMMA RecordIs ==
  ASSUME NEW e \in N!Elements, N!Recorded(e)
  PROVE  N!Record(e) \in Records
<1>1. e.id \in SUBSET N!Ones /\ e.name \in Nat
  BY DEF N!Elements, N!Numbers, N!Recorded
<1>2. N!MaskOf(e) \in SUBSET N!Ones
  <2>1. CASE e.by = "own"
    BY <2>1 DEF N!Elements, N!Numbers, N!Recorded, N!MaskOf
  <2>2. CASE e.by \in {"EXACT", "MODEL", "VENDOR"}
    BY <2>2, SizesAre DEF N!MaskOf, N!Masks, N!Ones
  <2> QED
    BY <2>1, <2>2 DEF N!Elements
<1> QED
  BY <1>1, <1>2 DEF N!Record, Records

\* The table has the records of the recorded elements, and of no other.
LEMMA TableIs ==
  ASSUME drivers \in Seq(N!Elements), table \in N!Tables
  PROVE  /\ table \in Seq(Records)
         /\ \A k \in 1..Len(table) : \E i \in DOMAIN drivers :
               N!Recorded(drivers[i]) /\ table[k] = N!Record(drivers[i])
         /\ \A i \in DOMAIN drivers : N!Recorded(drivers[i]) =>
               \E k \in 1..Len(table) : table[k] = N!Record(drivers[i])
<1> DEFINE known == {i \in DOMAIN drivers : N!Recorded(drivers[i])}
           size == N!Cardinality(known)
<1>1. known \subseteq 1..Len(drivers) /\ \A i \in known : drivers[i] \in N!Elements
  BY LenProperties, ElementOfSeq
<1>2. size \in Nat
  <2>1. IsFiniteSet(1..Len(drivers))
    BY LenProperties, FS_Interval
  <2>2. Cardinality(known) \in Nat
    <3> HIDE DEF known
    <3> QED
      BY <1>1, <2>1, FS_Subset, FS_CardinalityType
  <2> HIDE DEF known
  <2> QED
    BY <2>2, CountIs
<1>3. PICK p \in [1..size -> known] : /\ \A i \in known : \E k \in 1..size : p[k] = i
                                      /\ table = [k \in 1..size |-> N!Record(drivers[p[k]])]
  BY DEF N!Tables, N!Bijection, N!Injection, N!Surjection
<1> HIDE DEF size
<1>4. \A k \in 1..size : table[k] = N!Record(drivers[p[k]]) /\ table[k] \in Records
  BY <1>1, <1>3, RecordIs
<1>5. table \in Seq(Records) /\ Len(table) = size
  <2>1. table \in [1..size -> Records]
    BY <1>3, <1>4
  <2> QED
    BY <1>2, <2>1
<1> QED
  BY <1>3, <1>4, <1>5

--------------------------------------------------------------------------------
(* Naming: the inductive invariant *)

\* What the generator was given and made of it does not change.
Given ==
    /\ drivers \in Sources /\ table \in N!Tables
    /\ asking \in {"identify", "probe", "mmd"} /\ chip \in N!Parts
    /\ rail \in BOOLEAN /\ tries \in 1..3

\* Between the two reads the part is the same; only a helper waits, and only
\* `probe` asks for register 0.
HalfRead ==
    /\ at = "reg3" => high = N!Reads(2) /\ chip.kind \notin {"mute", "dead"}
    /\ at = "reg0" => asking = "probe"

\* A name is the lookup's, of an identifier that is not the sentinel's.
Looked == N!IsNamed => answer.id \in (SUBSET N!Ones) \ {N!Ones} /\ answer.name = N!LookupPhy(answer.id)

NamesInv == Given /\ HalfRead /\ Looked /\ N!IdentifyIsHonest

\* What is said is one of three things, by how it is said.
LEMMA SaidIs ==
  ASSUME NEW what, NEW ident
  PROVE  /\ N!Plain(what).what = what
         /\ N!Named(ident).what = "part" /\ N!Named(ident).id = ident
         /\ N!Named(ident).name = N!LookupPhy(ident)
BY DEF N!Plain, N!Named

\* Two halves make the part's identifier, or what says that there is none.
LEMMA HalvesMake ==
  ASSUME Given, chip.kind \notin {"mute", "dead"}
  PROVE  LET ident == N!Reads(2) \cup N!Reads(3)
         IN  /\ ident \in SUBSET N!Ones
             /\ chip.kind = "phy" => ident = chip.id /\ ident \notin {{}, N!Ones}
             /\ chip.kind = "paged" => ident = {}
             /\ chip.kind = "idle" => ident = N!Ones
             /\ chip.kind \in {"phy", "paged", "idle"}
<1>1. N!Field(2) \cup N!Field(3) = N!Ones
  BY SizesAre DEF N!Field, N!Ones
<1>2. chip.kind \in {"phy", "paged", "idle"}
  BY DEF Given, N!Parts
<1>3. CASE chip.kind = "phy"
  <2>1. chip.id \in Idents
    BY <1>3 DEF Given, N!Parts
  <2>2. N!Reads(2) = chip.id \cap N!Field(2) /\ N!Reads(3) = chip.id \cap N!Field(3)
    BY <1>3 DEF N!Reads
  <2>3. N!Reads(2) \cup N!Reads(3) = chip.id \cap N!Ones
    BY <1>1, <2>2
  <2>4. chip.id \in SUBSET N!Ones /\ chip.id \notin {{}, N!Ones}
    BY <2>1, SizesAre
  <2>5. chip.id \cap N!Ones = chip.id
    BY <2>4
  <2> QED
    BY <1>3, <2>3, <2>4, <2>5
<1>4. CASE chip.kind = "paged"
  BY <1>4 DEF N!Reads
<1>5. CASE chip.kind = "idle"
  BY <1>1, <1>5 DEF N!Reads
<1> QED
  BY <1>2, <1>3, <1>4, <1>5

\* Why a read fails.
LEMMA ErrorIs ==
  ASSUME NEW reg, Given
  PROVE  /\ N!Fails(reg) <=> N!Error(reg) \in {"no_rail", "no_answer"}
         /\ N!Error(reg) = "no_answer" => chip.kind \in {"mute", "dead"}
         /\ ~N!Fails(reg) /\ reg # 0 => chip.kind \notin {"mute", "dead"}
         /\ N!Error(reg) \in {"no_rail", "no_answer", "none"}
<1> USE DEF Given, N!Fails, N!Error
<1>1. CASE ~rail
  BY <1>1
<1>2. CASE rail
  BY <1>2
<1> QED
  BY <1>1, <1>2

\* The invariant holds before anything is asked.
LEMMA NamesInitially == N!Init => NamesInv
BY DEF N!Init, NamesInv, Given, HalfRead, Looked, N!IsNamed, N!Over, N!IdentifyIsHonest

\* The table is what it was made once.
LEMMA GivenStays ==
  ASSUME Given, UNCHANGED <<drivers, table, asking>>,
         chip' \in N!Parts, rail' \in BOOLEAN, tries' \in 1..3
  PROVE  Given'
<1>1. N!Tables' = N!Tables
  BY DEF N!Tables
<1> QED
  BY <1>1 DEF Given

\* As long as nothing is said there is little to keep.
LEMMA NothingSaid ==
  ASSUME NamesInv, at' # "done", HalfRead', UNCHANGED <<drivers, table, asking>>,
         chip' \in N!Parts, rail' \in BOOLEAN, tries' \in 1..3
  PROVE  NamesInv'
BY GivenStays DEF NamesInv, Looked, N!IsNamed, N!Over, N!IdentifyIsHonest

\* What is said without a name need only be true.
LEMMA PlainlySaid ==
  ASSUME NamesInv, NEW what, what # "part", N!Says(N!Plain(what)),
         asking = "identify" =>
            /\ what = "silent" => chip.kind \in {"paged", "idle"}
            /\ what = "no_answer" => chip.kind \in {"mute", "dead"}
            /\ what = "no_rail" => tries = 1
  PROVE  NamesInv'
<1>1. /\ at' = "done" /\ answer'.what = what
      /\ UNCHANGED <<drivers, table, asking, chip, rail, tries>>
  BY SaidIs DEF N!Says
<1>2. Given' /\ HalfRead'
  BY <1>1, GivenStays DEF NamesInv, Given, HalfRead
<1>3. ~N!IsNamed'
  BY <1>1 DEF N!IsNamed
<1>4. N!IdentifyIsHonest'
  BY <1>1, <1>3 DEF N!IdentifyIsHonest
<1> QED
  BY <1>2, <1>3, <1>4 DEF NamesInv, Looked

\* What a read that fails leads to.
LEMMA ErrsKeep ==
  ASSUME NamesInv, NEW reg, reg \in {2, 3}, N!Fails(reg), N!Errs(N!Error(reg)), at # "done"
  PROVE  NamesInv'
<1> USE DEF NamesInv
<1>1. CASE asking = "identify" /\ N!Patient(N!Error(reg))
  <2>1. N!Waits
    BY <1>1 DEF N!Errs
  <2>2. tries' \in 1..3
    BY <1>1, <2>1 DEF N!Waits, N!Patient, Given
  <2> QED
    BY <2>1, <2>2, NothingSaid DEF N!Waits, Given, HalfRead
<1>2. CASE asking = "identify" /\ ~N!Patient(N!Error(reg))
  <2>1. N!Says(N!Plain(N!Error(reg)))
    BY <1>2 DEF N!Errs
  <2>2. N!Error(reg) = "no_rail" => tries = 1
    BY <1>2 DEF N!Patient, Given
  <2> QED
    BY <2>1, <2>2, ErrorIs, PlainlySaid
<1>3. CASE asking = "probe"
  <2>1. N!Steps("reg0")
    BY <1>3 DEF N!Errs
  <2> QED
    BY <1>3, <2>1, NothingSaid DEF N!Steps, Given, HalfRead
<1>4. CASE asking = "mmd"
  <2>1. N!Says(N!Plain("silent"))
    BY <1>4 DEF N!Errs
  <2> QED
    BY <1>4, <2>1, PlainlySaid
<1> QED
  BY <1>1, <1>2, <1>3, <1>4 DEF Given

\* The invariant holds whatever is read, waited for or taken away.
LEMMA NamesKeep == NamesInv /\ [N!Next]_(N!vars) => NamesInv'
<1> SUFFICES ASSUME NamesInv, [N!Next]_(N!vars) PROVE NamesInv'
  OBVIOUS
<1> USE DEF NamesInv
<1>1. CASE N!Reg2
  <2>1. CASE N!Fails(2)
    BY <1>1, <2>1, ErrsKeep DEF N!Reg2
  <2>2. CASE ~N!Fails(2)
    <3>1. at' = "reg3" /\ high' = N!Reads(2) /\ UNCHANGED <<drivers, table, asking, chip, rail, tries, answer>>
      BY <1>1, <2>2 DEF N!Reg2
    <3>2. chip.kind \notin {"mute", "dead"}
      BY <2>2, ErrorIs
    <3>3. N!Reads(2)' = N!Reads(2)
      BY <3>1 DEF N!Reads, N!Field
    <3> QED
      BY <3>1, <3>2, <3>3, NothingSaid DEF Given, HalfRead
  <2> QED
    BY <2>1, <2>2
<1>2. CASE N!Reg3
  <2> DEFINE ident == high \cup N!Reads(3)
  <2>1. CASE N!Fails(3)
    BY <1>2, <2>1, ErrsKeep DEF N!Reg3
  <2>2. CASE ~N!Fails(3)
    <3>1. /\ ident = N!Reads(2) \cup N!Reads(3) /\ ident \in SUBSET N!Ones
          /\ chip.kind = "phy" => ident = chip.id /\ ident \notin {{}, N!Ones}
          /\ chip.kind = "paged" => ident = {}
          /\ chip.kind = "idle" => ident = N!Ones
          /\ chip.kind \in {"phy", "paged", "idle"}
      BY <1>2, HalvesMake DEF N!Reg3, HalfRead
    <3>2. \/ asking = "probe" /\ ident = N!Ones /\ N!Steps("reg0")
          \/ asking = "probe" /\ ident # N!Ones /\ N!Says(N!Named(ident))
          \/ asking # "probe" /\ ident \in {{}, N!Ones} /\ N!Says(N!Plain("silent"))
          \/ asking # "probe" /\ ident \notin {{}, N!Ones} /\ N!Says(N!Named(ident))
      BY <1>2, <2>2 DEF N!Reg3
    <3>3. CASE asking = "probe" /\ N!Steps("reg0")
      BY <3>3, NothingSaid DEF N!Steps, Given, HalfRead
    <3>4. CASE ident # N!Ones /\ (asking = "probe" \/ ident # {}) /\ N!Says(N!Named(ident))
      <4>1. Given' /\ HalfRead' /\ at' = "done" /\ UNCHANGED <<table, asking, chip>>
        BY <3>4, GivenStays DEF N!Says, Given, HalfRead
      <4>2. answer'.what = "part" /\ answer'.id = ident /\ answer'.name = N!LookupPhy(ident)
        BY <3>4, SaidIs DEF N!Says
      <4>3. Looked'
        <5>1. N!LookupPhy(ident)' = N!LookupPhy(ident)'
          OBVIOUS
        <5>2. answer'.name = N!LookupPhy(answer.id)'
          BY <4>1, <4>2 DEF N!LookupPhy, N!Fits, N!Better, N!MaskBits
        <5> QED
          BY <3>1, <3>4, <4>2, <5>2 DEF Looked, N!Ones
      <4> QED
        BY <3>1, <3>4, <4>1, <4>2, <4>3 DEF N!IsNamed, N!Over, N!IdentifyIsHonest
    <3>5. CASE asking # "probe" /\ ident \in {{}, N!Ones} /\ N!Says(N!Plain("silent"))
      BY <3>1, <3>5, PlainlySaid
    <3> QED
      BY <3>2, <3>3, <3>4, <3>5
  <2> QED
    BY <2>1, <2>2
<1>3. CASE N!Reg0
  <2>1. PICK what \in {"silent", "mute"} : N!Says(N!Plain(what))
    BY <1>3 DEF N!Reg0
  <2> QED
    BY <1>3, <2>1, PlainlySaid DEF N!Reg0, HalfRead
<1>4. CASE N!Wakes
  BY <1>4, NothingSaid DEF N!Wakes, N!Steps, Given, HalfRead
<1>5. CASE N!Blinks
  <2>1. N!Reads(2)' = N!Reads(2)
    BY <1>5 DEF N!Blinks, N!Reads, N!Field
  <2> QED
    BY <1>5, <2>1, NothingSaid DEF N!Blinks, Given, HalfRead
<1>6. CASE N!Swapped
  BY <1>6, NothingSaid DEF N!Swapped, Given, HalfRead
<1>7. CASE UNCHANGED N!vars
  <2>1. UNCHANGED <<drivers, table, asking, chip, rail, at, tries, high, answer>>
    BY <1>7 DEF N!vars
  <2>2. Given'
    BY <2>1, GivenStays DEF Given
  <2>3. HalfRead'
    BY <2>1 DEF HalfRead, N!Reads, N!Field
  <2>4. Looked' /\ N!IdentifyIsHonest'
    BY <2>1 DEF Looked, N!IsNamed, N!Over, N!IdentifyIsHonest, N!LookupPhy, N!Fits, N!Better, N!MaskBits
  <2> QED
    BY <2>2, <2>3, <2>4
<1> QED
  BY <1>1, <1>2, <1>3, <1>4, <1>5, <1>6, <1>7 DEF N!Next

--------------------------------------------------------------------------------
(* Naming: the theorems *)

\* Halves of one part, one lookup, and no name from anything else, for every
\* kernel, width and set of parts. (cmd_probe.py, gen_chipdb.py)
THEOREM NamingIsSound == N!Spec => []NamesInv
BY NamesInitially, NamesKeep, PTL DEF N!Spec

\* A part is given the name of a driver that fits and than which none says more,
\* and none only where none fits; a helper is told the truth of what is there.
THEOREM PartsGetTheirNames == N!Spec => []PartsAreNamed
<1>1. NamesInv => PartsAreNamed
  <2> SUFFICES ASSUME NamesInv, N!IsNamed PROVE N!NameIsMostSpecific
    BY DEF NamesInv, PartsAreNamed, N!NameIsMostSpecific
  <2> DEFINE ident == answer.id
             fits == {i \in DOMAIN drivers :
                        /\ drivers[i].name # N!NoName /\ N!None \notin {drivers[i].id, N!MaskOf(drivers[i])}
                        /\ ident \cap N!MaskOf(drivers[i]) = drivers[i].id \cap N!MaskOf(drivers[i])}
  <2>1. /\ drivers \in Seq(N!Elements) /\ table \in N!Tables
        /\ ident \in (SUBSET N!Ones) \ {N!Ones} /\ answer.name = N!LookupPhy(ident)
    BY SizesAre DEF NamesInv, Given, Looked
  <2>2. /\ table \in Seq(Records)
        /\ \A k \in 1..Len(table) : \E i \in DOMAIN drivers :
              N!Recorded(drivers[i]) /\ table[k] = N!Record(drivers[i])
        /\ \A i \in DOMAIN drivers : N!Recorded(drivers[i]) =>
              \E k \in 1..Len(table) : table[k] = N!Record(drivers[i])
    BY <2>1, TableIs
  <2>3. \A i \in DOMAIN drivers :
           i \in fits <=> N!Recorded(drivers[i]) /\ N!Fits(ident, N!Record(drivers[i]))
    <3> SUFFICES ASSUME NEW i \in DOMAIN drivers
                 PROVE  i \in fits <=> N!Recorded(drivers[i]) /\ N!Fits(ident, N!Record(drivers[i]))
      OBVIOUS
    <3> DEFINE e == drivers[i]
    <3>1. N!Fits(ident, N!Record(e)) <=> ident \cap N!MaskOf(e) = e.id \cap N!MaskOf(e)
      BY DEF N!Fits, N!SymDiff, N!Record
    <3>2. e.id = N!Ones /\ N!MaskOf(e) = N!Ones => ident \cap N!MaskOf(e) # e.id \cap N!MaskOf(e)
      BY <2>1
    <3> QED
      BY <3>1, <3>2 DEF N!Recorded
  <2>4. \A i \in DOMAIN drivers : /\ N!Record(drivers[i]).name = drivers[i].name
                                  /\ N!Record(drivers[i]).mask = N!MaskOf(drivers[i])
                                  /\ N!Cardinality(N!MaskOf(drivers[i])) = Cardinality(N!MaskOf(drivers[i]))
    BY CountIs DEF N!Record
  <2> HIDE DEF fits, ident
  <2>5. CASE fits = {}
    <3>1. \A j \in 1..Len(table) : ~N!Fits(ident, table[j])
      BY <2>2, <2>3, <2>5
    <3>2. answer.name = N!NoName
      BY <2>1, <2>2, <3>1, LookupIs
    <3> QED
      BY <2>5, <3>2 DEF N!NameIsMostSpecific, fits, ident
  <2>6. CASE fits # {}
    <3>1. PICK h \in DOMAIN drivers : N!Recorded(drivers[h]) /\ N!Fits(ident, N!Record(drivers[h]))
      BY <2>3, <2>6 DEF fits
    <3>2. PICK k \in 1..Len(table) :
             /\ answer.name = table[k].name /\ N!Fits(ident, table[k])
             /\ \A j \in 1..Len(table) : N!Fits(ident, table[j]) =>
                   Cardinality(table[j].mask) <= Cardinality(table[k].mask)
      BY <2>1, <2>2, <3>1, LookupIs
    <3>3. PICK i \in DOMAIN drivers : N!Recorded(drivers[i]) /\ table[k] = N!Record(drivers[i])
      BY <2>2
    <3>4. i \in fits /\ answer.name = drivers[i].name
      BY <2>3, <2>4, <3>2, <3>3
    <3>5. \A j \in fits : N!Cardinality(N!MaskOf(drivers[j])) <= N!Cardinality(N!MaskOf(drivers[i]))
      <4> SUFFICES ASSUME NEW j \in fits
                   PROVE  N!Cardinality(N!MaskOf(drivers[j])) <= N!Cardinality(N!MaskOf(drivers[i]))
        OBVIOUS
      <4>1. j \in DOMAIN drivers
        BY DEF fits
      <4>2. PICK m \in 1..Len(table) : table[m] = N!Record(drivers[j])
        BY <2>2, <2>3, <4>1
      <4>3. Cardinality(table[m].mask) <= Cardinality(table[k].mask)
        BY <2>3, <3>2, <4>1, <4>2
      <4> QED
        BY <2>4, <3>3, <4>1, <4>2, <4>3
    <3> QED
      BY <2>6, <3>4, <3>5 DEF N!NameIsMostSpecific, fits, ident
  <2> QED
    BY <2>5, <2>6
<1> QED
  BY <1>1, NamingIsSound, PTL

--------------------------------------------------------------------------------
(* Text: the reference lexer *)

Known == {"code", "opening", "block", "closing", "line", "quote", "apostrophe",
          "after_quote", "after_apostrophe"}

\* What the lexer is in after a character.
LEMMA EntersIs ==
  ASSUME NEW mode \in Known, NEW ch
  PROVE  /\ T!Enters(mode, ch) \in Known
         /\ mode = "code" \/ (mode = "opening" /\ ch \notin {"star", "slash"}) =>
               T!Enters(mode, ch) = IF ch = "slash" THEN "opening" ELSE IF ch \in T!Quotes THEN ch ELSE "code"
         /\ mode = "opening" /\ ch = "star" => T!Enters(mode, ch) = "block"
         /\ mode = "opening" /\ ch = "slash" => T!Enters(mode, ch) = "line"
         /\ mode \in {"block", "closing"} =>
               T!Enters(mode, ch) = IF ch = "star" THEN "closing"
                                    ELSE IF ch = "slash" /\ mode = "closing" THEN "code" ELSE "block"
         /\ mode = "line" => T!Enters(mode, ch) = IF ch = "newline" THEN "code" ELSE "line"
         /\ mode \in T!Quotes =>
               T!Enters(mode, ch) = IF ch = mode THEN "code"
                                    ELSE IF ch = "backslash" THEN T!Escaped[mode] ELSE mode
         /\ \A q \in T!Quotes : mode = T!Escaped[q] => T!Enters(mode, ch) = q
<1> USE DEF Known, T!Quotes, T!Escaped
<1>1. CASE mode \in {"code", "opening"}
  BY <1>1 DEF T!Enters
<1>2. CASE mode \in {"block", "closing", "line"}
  BY <1>2 DEF T!Enters
<1>3. CASE mode \in {"quote", "apostrophe"}
  BY <1>3 DEF T!Enters
<1>4. CASE mode \in {"after_quote", "after_apostrophe"}
  BY <1>4 DEF T!Enters
<1> QED
  BY <1>1, <1>2, <1>3, <1>4

\* The lexer is in something after every character.
LEMMA ModesAre ==
  ASSUME NEW Ch, NEW s \in Seq(Ch)
  PROVE  /\ T!Modes(s) \in [0..Len(s) -> Known]
         /\ T!Modes(s)[0] = "code"
         /\ \A k \in 1..Len(s) : T!Modes(s)[k] = T!Enters(T!Modes(s)[k - 1], s[k])
<1> DEFINE n == Len(s)
           step == [k \in 1..n |-> [mode \in Known |-> T!Enters(mode, s[k])]]
           Scan(f) == [k \in 0..n |-> IF k = 0 THEN "code" ELSE T!Enters(f[k - 1], s[k])]
           run == CHOOSE f : f = Scan(f)
<1>1. T!Modes(s) = run
  BY DEF T!Modes
<1>2. n \in Nat
  BY LenProperties
<1>3. "code" \in Known
  BY DEF Known
<1>4. step \in [1..n -> [Known -> Known]]
  BY EntersIs
<1> HIDE DEF n
<1>5. PICK f \in [0..n -> Known] : f[0] = "code" /\ \A k \in 1..n : f[k] = step[k][f[k - 1]]
  <2> HIDE DEF step
  <2>1. Runs(n, Known, "code", step) # {}
    BY <1>2, <1>3, <1>4, RunExists
  <2> QED
    BY <2>1 DEF Runs
<1>6. \A k \in 1..n : k - 1 \in 0..n /\ f[k] = T!Enters(f[k - 1], s[k])
  BY <1>2, <1>5
<1>7. f = Scan(f)
  BY <1>2, <1>5, <1>6
<1>8. run = Scan(run)
  BY <1>7
<1> HIDE DEF run
<1>9. \A k \in 0..n : run[k] = IF k = 0 THEN "code" ELSE T!Enters(run[k - 1], s[k])
  BY <1>8
<1>10. run = [k \in 0..n |-> run[k]]
  BY <1>8
<1>11. \A k \in 1..n : k \in 0..n /\ k # 0 /\ (run[k - 1] \in Known => run[k] = step[k][run[k - 1]])
  BY <1>2, <1>9
<1>12. run[0] = "code"
  BY <1>2, <1>9
<1> HIDE DEF step
<1>13. run \in Runs(n, Known, "code", step)
  BY <1>2, <1>3, <1>4, <1>10, <1>11, <1>12, RunIs
<1> QED
  BY <1>1, <1>9, <1>11, <1>12, <1>13 DEF n, Runs

--------------------------------------------------------------------------------
(* Text: where a comment and a literal end *)

\* The least number of a set is the least.
LEMMA LeastIs ==
  ASSUME NEW X \in SUBSET Nat, NEW other
  PROVE  /\ X = {} => T!Least(X, other) = other
         /\ X # {} => T!Least(X, other) \in X /\ \A j \in X : T!Least(X, other) <= j
<1>1. CASE X = {}
  BY <1>1 DEF T!Least
<1>2. CASE X # {}
  <2>1. PICK i \in X : \A j \in X : i <= j
    BY <1>2, LeastNumber
  <2> QED
    BY <1>2, <2>1 DEF T!Least
<1> QED
  BY <1>1, <1>2

\* What the lexer can be in where a piece of the loop begins.
AtPiece(s, i) ==
    \/ T!Modes(s)[i - 1] = "code"
    \/ T!Modes(s)[i - 1] = "opening" /\ s[i] \notin {"star", "slash"}
    \/ T!Modes(s)[i - 1] = "line" /\ s[i] = "newline"

\* A comment is what is in one, and the two characters that open it.
LEMMA CommentIs ==
  ASSUME NEW Ch, NEW s \in Seq(Ch), NEW j \in 1..Len(s)
  PROVE  T!InComment(s, j) <=>
            \/ T!Modes(s)[j - 1] \in {"block", "closing", "line"}
            \/ T!Modes(s)[j - 1] = "opening" /\ T!Modes(s)[j] \in {"block", "line"}
            \/ j < Len(s) /\ T!Modes(s)[j] = "opening" /\ T!Modes(s)[j + 1] \in {"block", "line"}
<1>1. Len(s) \in Nat /\ (j + 1) - 1 = j /\ (j + 1 <= Len(s) <=> j < Len(s)) /\ j <= Len(s)
  BY LenProperties
<1> QED
  BY <1>1 DEF T!InComment

\* Both characters that open a comment are in it.
LEMMA OpensIn ==
  ASSUME NEW Ch, NEW s \in Seq(Ch), NEW i \in 1..Len(s), AtPiece(s, i),
         T!BlockStarts(s, i) \/ T!LineStarts(s, i)
  PROVE  /\ i + 1 \in 1..Len(s)
         /\ T!Modes(s)[i + 1] = IF T!BlockStarts(s, i) THEN "block" ELSE "line"
         /\ T!InComment(s, i) /\ T!InComment(s, i + 1)
<1>1. Len(s) \in Nat
  BY LenProperties
<1>2. i < Len(s) /\ s[i] = "slash" /\ s[i + 1] = IF T!BlockStarts(s, i) THEN "star" ELSE "slash"
  BY DEF T!BlockStarts, T!LineStarts, T!Starts
<1>3. T!Modes(s)[i - 1] = "code"
  BY <1>2 DEF AtPiece
<1>4. i - 1 \in 0..Len(s) /\ i \in 0..Len(s) /\ i + 1 \in 1..Len(s) /\ (i + 1) - 1 = i
  BY <1>1, <1>2
<1>5. T!Modes(s)[i] = "opening"
  BY <1>2, <1>3, <1>4, ModesAre, EntersIs
<1>6. T!Modes(s)[i + 1] = IF T!BlockStarts(s, i) THEN "block" ELSE "line"
  <2>1. T!Modes(s)[i + 1] = T!Enters("opening", s[i + 1]) /\ "opening" \in Known
    BY <1>4, <1>5, ModesAre DEF Known
  <2> QED
    BY <1>2, <2>1, EntersIs
<1> QED
  BY <1>2, <1>4, <1>5, <1>6, CommentIs

\* A comment is one to its end.
LEMMA BlockIs ==
  ASSUME NEW Ch, NEW s \in Seq(Ch), NEW i \in 1..Len(s), AtPiece(s, i), T!BlockStarts(s, i)
  PROVE  /\ T!BlockEnd(s, i) \in i + 1..Len(s) + 1
         /\ T!BlockEnd(s, i) <= Len(s) => T!Modes(s)[T!BlockEnd(s, i) - 1] = "code"
         /\ \A j \in i..T!BlockEnd(s, i) - 1 : T!InComment(s, j)
<1> DEFINE n == Len(s)
           m == T!Modes(s)
           stars == {j \in i + 2..n : T!Starts(s, "star", "slash", j)}
           InBlock(j) == m[j] = IF j # i + 1 /\ s[j] = "star" THEN "closing" ELSE "block"
           Q == {j \in Nat : j \in i + 1..n /\ (\A p \in stars : j <= p) => InBlock(j)}
<1>1. /\ n \in Nat /\ i + 1 \in 1..n /\ m[i + 1] = "block"
      /\ T!InComment(s, i) /\ T!InComment(s, i + 1)
  BY LenProperties, OpensIn
<1>2. \A j \in 0..n : m[j] \in Known
  BY ModesAre
<1>3. \A j \in 1..n : m[j] = T!Enters(m[j - 1], s[j])
  BY ModesAre
<1> HIDE DEF n, m
<1>4. 0 \in Q
  BY <1>1
<1>5. ASSUME NEW j \in Nat, j \in Q PROVE j + 1 \in Q
  <2> SUFFICES ASSUME j + 1 \in i + 1..n, \A p \in stars : j + 1 <= p
               PROVE  InBlock(j + 1)
    OBVIOUS
  <2>1. CASE j = i
    BY <1>1, <2>1
  <2>2. CASE j # i
    <3>1. j \in i + 1..n /\ j + 1 \in 1..n /\ (j + 1) - 1 = j /\ j \in 0..n
      BY <1>1, <2>2
    <3>2. \A p \in stars : p \in Nat /\ j <= p
      BY <1>1, <3>1
    <3>3. InBlock(j)
      BY <1>5, <3>1, <3>2
    <3>4. m[j + 1] = IF s[j + 1] = "star" THEN "closing"
                     ELSE IF s[j + 1] = "slash" /\ m[j] = "closing" THEN "code" ELSE "block"
      BY <1>2, <1>3, <3>1, <3>3, EntersIs
    <3>5. ~(s[j + 1] = "slash" /\ m[j] = "closing")
      <4> SUFFICES ASSUME s[j + 1] = "slash", m[j] = "closing" PROVE FALSE
        OBVIOUS
      <4>1. j # i + 1 /\ s[j] = "star"
        BY <3>3
      <4>2. j \in stars
        BY <1>1, <3>1, <4>1 DEF T!Starts, n
      <4> QED
        BY <3>1, <4>2
    <3> QED
      BY <3>1, <3>4, <3>5
  <2> QED
    BY <2>1, <2>2
<1> HIDE DEF Q, InBlock
<1>6. \A j \in i + 1..n : (\A p \in stars : j <= p) => InBlock(j)
  <2>1. \A j \in Nat : j \in Q
    BY <1>4, <1>5, Induction
  <2> QED
    BY <1>1, <2>1 DEF Q
<1>7. CASE stars = {}
  <2>1. T!BlockEnd(s, i) = n + 1
    BY <1>7 DEF T!BlockEnd, n
  <2>2. \A j \in i + 2..n : m[j - 1] \in {"block", "closing"}
    BY <1>1, <1>6, <1>7 DEF InBlock
  <2>3. \A j \in i + 2..n : T!InComment(s, j)
    BY <1>1, <2>2, CommentIs DEF n, m
  <2>4. \A j \in i..(n + 1) - 1 : j = i \/ j = i + 1 \/ j \in i + 2..n
    BY <1>1
  <2> QED
    BY <1>1, <2>1, <2>3, <2>4 DEF n
<1>8. CASE stars # {}
  <2> DEFINE k == T!Least(stars, 0)
  <2>1. stars \in SUBSET Nat
    BY <1>1
  <2>2. k \in stars /\ \A p \in stars : k <= p
    <3> HIDE DEF stars
    <3> QED
      BY <1>8, <2>1, LeastIs
  <2>3. T!BlockEnd(s, i) = k + 2
    BY <1>8 DEF T!BlockEnd, n
  <2> HIDE DEF k
  <2>4. k \in i + 2..n /\ k < n /\ s[k] = "star" /\ s[k + 1] = "slash"
    BY <2>2 DEF T!Starts, n
  <2>5. \A j \in i + 1..k : InBlock(j)
    BY <1>1, <1>6, <2>1, <2>2, <2>4
  <2>6. m[k] = "closing"
    BY <1>1, <2>4, <2>5 DEF InBlock
  <2>7. m[k + 1] = "code"
    BY <1>1, <1>2, <1>3, <2>4, <2>6, EntersIs
  <2>8. \A j \in i + 2..k + 1 : m[j - 1] \in {"block", "closing"}
    BY <1>1, <2>4, <2>5 DEF InBlock
  <2>9. \A j \in i + 2..k + 1 : T!InComment(s, j)
    BY <1>1, <2>4, <2>8, CommentIs DEF n, m
  <2>10. \A j \in i..(k + 2) - 1 : j = i \/ j = i + 1 \/ j \in i + 2..k + 1
    BY <1>1, <2>4
  <2> QED
    BY <1>1, <2>3, <2>4, <2>7, <2>9, <2>10 DEF n, m
<1> QED
  BY <1>7, <1>8

\* Its line end is not part of a comment that ends with the line.
LEMMA LineCommentIs ==
  ASSUME NEW Ch, NEW s \in Seq(Ch), NEW i \in 1..Len(s), AtPiece(s, i),
         T!LineStarts(s, i), ~T!BlockStarts(s, i)
  PROVE  /\ T!LineEnd(s, i) \in i + 1..Len(s) + 1
         /\ T!LineEnd(s, i) <= Len(s) =>
               T!Modes(s)[T!LineEnd(s, i) - 1] = "line" /\ s[T!LineEnd(s, i)] = "newline"
         /\ \A j \in i..T!LineEnd(s, i) - 1 : T!InComment(s, j) /\ s[j] # "newline"
<1> DEFINE n == Len(s)
           m == T!Modes(s)
           ends == {j \in i..n : s[j] = "newline"}
           k == T!Least(ends, n + 1)
           Q == {j \in Nat : j \in i + 1..k - 1 => m[j] = "line"}
<1>1. /\ n \in Nat /\ i + 1 \in 1..n /\ m[i + 1] = "line"
      /\ T!InComment(s, i) /\ T!InComment(s, i + 1)
      /\ s[i] = "slash" /\ s[i + 1] = "slash"
  BY LenProperties, OpensIn DEF T!LineStarts, T!Starts
<1>2. \A j \in 0..n : m[j] \in Known
  BY ModesAre
<1>3. \A j \in 1..n : m[j] = T!Enters(m[j - 1], s[j])
  BY ModesAre
<1>4. T!LineEnd(s, i) = k
  BY DEF T!LineEnd, n
<1> HIDE DEF n, m
<1>5. /\ k \in i + 2..n + 1
      /\ k <= n => s[k] = "newline"
      /\ \A j \in i..k - 1 : s[j] # "newline"
  <2>1. ends \in SUBSET Nat
    BY <1>1
  <2>2. /\ ends = {} => k = n + 1
        /\ ends # {} => k \in ends /\ \A j \in ends : k <= j
    <3> HIDE DEF ends
    <3> QED
      BY <2>1, LeastIs
  <2>3. k = n + 1 \/ k \in ends
    BY <2>2
  <2> HIDE DEF k
  <2>4. k \in i..n + 1 /\ (k <= n => s[k] = "newline")
    BY <1>1, <2>3
  <2>5. k # i /\ k # i + 1
    BY <1>1, <2>4
  <2>6. ASSUME NEW j \in i..k - 1 PROVE s[j] # "newline"
    <3> SUFFICES ASSUME s[j] = "newline" PROVE FALSE
      OBVIOUS
    <3>1. j \in ends
      BY <1>1, <2>4
    <3> QED
      BY <1>1, <2>2, <2>4, <3>1
  <2> QED
    BY <1>1, <2>4, <2>5, <2>6
<1> HIDE DEF k
<1>6. 0 \in Q
  BY <1>1
<1>7. ASSUME NEW j \in Nat, j \in Q PROVE j + 1 \in Q
  <2> SUFFICES ASSUME j + 1 \in i + 1..k - 1 PROVE m[j + 1] = "line"
    OBVIOUS
  <2>1. CASE j = i
    BY <1>1, <2>1
  <2>2. CASE j # i
    <3>1. j \in i + 1..k - 1 /\ j + 1 \in 1..n /\ (j + 1) - 1 = j /\ j \in 0..n /\ j + 1 \in i..k - 1
      BY <1>1, <1>5, <2>2
    <3>2. m[j] = "line" /\ s[j + 1] # "newline"
      BY <1>5, <1>7, <3>1
    <3> QED
      BY <1>2, <1>3, <3>1, <3>2, EntersIs
  <2> QED
    BY <2>1, <2>2
<1> HIDE DEF Q
<1>8. \A j \in i + 1..k - 1 : m[j] = "line"
  <2>1. \A j \in Nat : j \in Q
    BY <1>6, <1>7, Induction
  <2>2. \A j \in i + 1..k - 1 : j \in Nat
    OBVIOUS
  <2> QED
    BY <2>1, <2>2 DEF Q
<1>9. ASSUME NEW j \in i..k - 1 PROVE T!InComment(s, j)
  <2>1. CASE j \in {i, i + 1}
    BY <1>1, <2>1
  <2>2. CASE j \notin {i, i + 1}
    <3>1. j \in 1..n /\ j - 1 \in i + 1..k - 1
      BY <1>1, <1>5, <2>2
    <3> QED
      BY <1>8, <3>1, CommentIs DEF n, m
  <2> QED
    BY <2>1, <2>2
<1>10. k - 1 \in i + 1..k - 1
  BY <1>5
<1> QED
  BY <1>1, <1>4, <1>5, <1>8, <1>9, <1>10 DEF n, m

\* A literal holds no comment, and ends with its quote.
LEMMA LiteralIs ==
  ASSUME NEW Ch, NEW s \in Seq(Ch), NEW i \in 1..Len(s), AtPiece(s, i), s[i] \in T!Quotes
  PROVE  /\ T!LiteralEnd(s, i) \in Nat /\ T!LiteralEnd(s, i) > i
         /\ T!LiteralEnd(s, i) <= Len(s) => T!Modes(s)[T!LiteralEnd(s, i) - 1] = "code"
         /\ \A j \in i..Len(s) : j < T!LiteralEnd(s, i) => ~T!InComment(s, j)
<1> DEFINE n == Len(s)
           m == T!Modes(s)
           q == s[i]
           Ahead(j) == IF j > n \/ s[j] = s[i] THEN j ELSE IF s[j] = "backslash" THEN j + 2 ELSE j + 1
           step == [k \in 1..n |-> [j \in Nat |-> Ahead(j)]]
           Scan(f) == [k \in 0..n |-> IF k = 0 THEN i + 1 ELSE Ahead(f[k - 1])]
           pos == CHOOSE f : f = Scan(f)
<1>1. T!LiteralEnd(s, i) = pos[n] + 1
  BY DEF T!LiteralEnd
<1>2. n \in Nat /\ i \in Nat /\ i + 1 \in Nat
  BY LenProperties
<1>3. step \in [1..n -> [Nat -> Nat]]
  <2> HIDE DEF n
  <2>1. \A j \in Nat : Ahead(j) \in Nat
    BY <1>2
  <2> QED
    BY <2>1
<1> HIDE DEF n
<1>4. PICK f \in [0..n -> Nat] : f[0] = i + 1 /\ \A k \in 1..n : f[k] = step[k][f[k - 1]]
  <2> HIDE DEF step
  <2>1. Runs(n, Nat, i + 1, step) # {}
    BY <1>2, <1>3, RunExists
  <2> QED
    BY <2>1 DEF Runs
<1>5. \A k \in 1..n : k - 1 \in 0..n /\ f[k - 1] \in Nat /\ f[k] = Ahead(f[k - 1])
  <2> HIDE DEF Ahead
  <2>1. \A k \in 1..n, j \in Nat : step[k][j] = Ahead(j)
    OBVIOUS
  <2> HIDE DEF step
  <2>2. \A k \in 1..n : k - 1 \in 0..n /\ f[k - 1] \in Nat
    BY <1>2, <1>4
  <2> QED
    BY <1>4, <2>1, <2>2
<1>6. f = Scan(f)
  <2> HIDE DEF Ahead, step
  <2> QED
    BY <1>2, <1>4, <1>5
<1>7. pos = Scan(pos)
  BY <1>6
<1> HIDE DEF pos
<1>8. \A k \in 0..n : pos[k] = IF k = 0 THEN i + 1 ELSE Ahead(pos[k - 1])
  BY <1>7
<1>9. pos = [k \in 0..n |-> pos[k]]
  BY <1>7
<1>10. \A k \in 1..n : k \in 0..n /\ k # 0 /\ (pos[k - 1] \in Nat => pos[k] = step[k][pos[k - 1]])
  BY <1>2, <1>8
<1>11. pos[0] = i + 1
  BY <1>2, <1>8
<1>12. pos \in [0..n -> Nat] /\ \A k \in 1..n : pos[k] = Ahead(pos[k - 1])
  <2> HIDE DEF step
  <2>1. pos \in Runs(n, Nat, i + 1, step)
    BY <1>2, <1>3, <1>9, <1>10, <1>11, RunIs
  <2> QED
    BY <1>8, <1>10, <2>1 DEF Runs
<1> HIDE DEF step, Scan
<1>13. \A j \in 0..n : m[j] \in Known
  BY ModesAre DEF n
<1>14. \A j \in 1..n : m[j] = T!Enters(m[j - 1], s[j])
  BY ModesAre DEF n
<1> DEFINE Inside == {q, T!Escaped[q]}
           Held(k) ==
              /\ pos[k] > i /\ (pos[k] > n \/ s[pos[k]] = q \/ pos[k] > i + k)
              /\ pos[k] <= n + 1 => m[pos[k] - 1] = q
              /\ \A j \in i..n : j < pos[k] => m[j] \in Inside
           Q == {k \in Nat : k <= n => Held(k)}
<1> HIDE DEF m, q
<1>15. m[i] = q /\ q \in {"quote", "apostrophe"} /\ q # T!Escaped[q] /\ T!Escaped[q] \notin T!Quotes
  <2>1. m[i - 1] = "code" \/ (m[i - 1] = "opening" /\ q \notin {"star", "slash"})
    BY DEF AtPiece, T!Quotes, m, q
  <2>2. i - 1 \in 0..n /\ i \in 1..n
    BY <1>2 DEF n
  <2>3. T!Enters(m[i - 1], q) = q
    BY <1>13, <2>1, <2>2, EntersIs DEF T!Quotes, q
  <2> QED
    BY <1>14, <2>2, <2>3 DEF q, T!Quotes, T!Escaped
<1>16. 0 \in Q
  <2>1. \A j \in i..n : j < i + 1 => j = i
    BY <1>2
  <2> QED
    BY <1>2, <1>11, <1>15, <2>1
<1>17. ASSUME NEW k \in Nat, k \in Q PROVE k + 1 \in Q
  <2> SUFFICES ASSUME k + 1 <= n PROVE Held(k + 1)
    OBVIOUS
  <2> DEFINE a == pos[k]
             b == pos[k + 1]
  <2>1. k + 1 \in 1..n /\ (k + 1) - 1 = k /\ k \in 0..n /\ Held(k) /\ a \in Nat
    BY <1>2, <1>12, <1>17
  <2>2. b = IF a > n \/ s[a] = s[i] THEN a ELSE IF s[a] = "backslash" THEN a + 2 ELSE a + 1
    BY <1>12, <2>1
  <2>a. /\ a > i /\ (a > n \/ s[a] = q \/ a > i + k)
        /\ a <= n + 1 => m[a - 1] = q
        /\ \A j \in i..n : j < a => m[j] \in Inside
    BY <2>1
  <2> SUFFICES /\ b > i /\ (b > n \/ s[b] = q \/ b > i + (k + 1))
               /\ b <= n + 1 => m[b - 1] = q
               /\ \A j \in i..n : j < b => m[j] \in Inside
    OBVIOUS
  <2> HIDE DEF a, b, Held
  <2>3. CASE a > n \/ s[a] = q
    <3>1. b = a
      BY <2>2, <2>3 DEF q
    <3> QED
      BY <2>a, <2>3, <3>1
  <2>4. CASE a <= n /\ s[a] # q
    <3>1. a \in 1..n /\ a - 1 \in 0..n /\ m[a - 1] = q /\ a > i + k
      BY <1>2, <2>1, <2>a, <2>4
    <3>0. ~(a > n) /\ s[a] # s[i]
      BY <1>2, <2>1, <2>4 DEF q
    <3>2. m[a] = IF s[a] = "backslash" THEN T!Escaped[q] ELSE q
      <4>1. q \in Known /\ q \in T!Quotes
        BY <1>15 DEF T!Quotes, Known
      <4>2. m[a] = T!Enters(q, s[a])
        BY <1>14, <3>1
      <4> QED
        BY <2>4, <4>1, <4>2, EntersIs
    <3>3. CASE s[a] # "backslash"
      <4>1. b = a + 1 /\ (a + 1) - 1 = a
        BY <2>1, <2>2, <3>0, <3>3
      <4>2. \A j \in i..n : j < a + 1 => j < a \/ j = a
        BY <1>2, <2>1
      <4> QED
        BY <1>2, <2>1, <2>a, <3>1, <3>2, <3>3, <4>1, <4>2
    <3>4. CASE s[a] = "backslash"
      <4>1. b = a + 2 /\ (a + 2) - 1 = a + 1
        BY <2>1, <2>2, <3>0, <3>4
      <4>2. a + 1 <= n => m[a + 1] = q
        <5> SUFFICES ASSUME a + 1 <= n PROVE m[a + 1] = q
          OBVIOUS
        <5>1. a + 1 \in 1..n /\ (a + 1) - 1 = a
          BY <1>2, <3>1
        <5>2. m[a + 1] = T!Enters(T!Escaped[q], s[a + 1])
          BY <1>14, <3>2, <3>4, <5>1
        <5>3. T!Escaped[q] \in Known /\ q \in T!Quotes
          BY <1>15 DEF T!Escaped, Known, T!Quotes
        <5> QED
          BY <5>2, <5>3, EntersIs
      <4>3. \A j \in i..n : j < a + 2 => j < a \/ j = a \/ j = a + 1
        BY <1>2, <2>1
      <4>4. a + 2 <= n + 1 <=> a + 1 <= n
        BY <1>2, <2>1
      <4>5. \A j \in i..n : j < b => m[j] \in Inside
        BY <2>a, <3>2, <3>4, <4>1, <4>2, <4>3
      <4>6. b > i /\ b > i + (k + 1)
        BY <1>2, <2>1, <3>1, <4>1
      <4> QED
        BY <4>1, <4>2, <4>4, <4>5, <4>6
    <3> QED
      BY <3>3, <3>4
  <2> QED
    BY <1>2, <2>1, <2>3, <2>4
<1> HIDE DEF Held
<1>18. Held(n)
  <2> HIDE DEF Q
  <2>1. n \in Q
    BY <1>2, <1>16, <1>17, Induction
  <2> QED
    BY <2>1 DEF Q
<1> DEFINE e == pos[n]
<1>19. e \in Nat /\ e > i /\ (e > n \/ s[e] = q) /\ (e <= n + 1 => m[e - 1] = q)
       /\ \A j \in i..n : j < e => m[j] \in Inside
  BY <1>2, <1>12, <1>18 DEF Held
<1> HIDE DEF e
<1>20. e <= n => m[e] = "code"
  <2> SUFFICES ASSUME e <= n PROVE m[e] = "code"
    OBVIOUS
  <2>1. e \in 1..n /\ e - 1 \in 0..n /\ s[e] = q /\ m[e - 1] = q
    BY <1>2, <1>19
  <2> QED
    BY <1>13, <1>14, <1>15, <2>1, EntersIs DEF T!Quotes
<1>21. ASSUME NEW j \in i..n, j < e + 1 PROVE ~T!InComment(s, j)
  <2>1. m[j] \in {q, T!Escaped[q], "code"}
    <3>1. j < e \/ j = e
      BY <1>2, <1>19, <1>21
    <3>2. CASE j < e
      BY <1>19, <3>2
    <3>3. CASE j = e
      <4>1. e <= n
        BY <1>2, <3>3
      <4> QED
        BY <1>20, <3>3, <4>1
    <3> QED
      BY <3>1, <3>2, <3>3
  <2>2. m[j] \notin {"block", "line", "opening"}
    BY <1>15, <2>1 DEF T!Quotes, T!Escaped
  <2>3. m[j - 1] \notin {"block", "closing", "line"}
    <3>1. CASE j = i
      BY <1>15, <3>1 DEF AtPiece, m, q
    <3>2. CASE j # i
      <4>1. m[j - 1] \in Inside
        BY <1>2, <1>19, <1>21, <3>2
      <4> QED
        BY <1>15, <4>1 DEF T!Escaped
    <3> QED
      BY <3>1, <3>2
  <2>4. j \in 1..n
    BY <1>2
  <2> QED
    BY <2>2, <2>3, <2>4, CommentIs DEF n, m
<1> QED
  BY <1>1, <1>2, <1>19, <1>20, <1>21 DEF e, n, m

--------------------------------------------------------------------------------
(* Text: a piece of the loop *)

\* What the reference leaves of a text.
Stays(s, j) == s[j] = "newline" \/ ~T!InComment(s, j)

\* A character that begins neither a comment nor a literal is in neither.
LEMMA CharacterIs ==
  ASSUME NEW Ch, NEW s \in Seq(Ch), NEW i \in 1..Len(s), AtPiece(s, i),
         ~T!BlockStarts(s, i), ~T!LineStarts(s, i), s[i] \notin T!Quotes
  PROVE  /\ i + 1 <= Len(s) => AtPiece(s, i + 1)
         /\ Stays(s, i)
<1> DEFINE n == Len(s)
           m == T!Modes(s)
<1>1. n \in Nat /\ i - 1 \in 0..n /\ i \in 0..n /\ (i + 1) - 1 = i
  BY LenProperties
<1>2. \A j \in 0..n : m[j] \in Known
  BY ModesAre
<1>3. \A j \in 1..n : m[j] = T!Enters(m[j - 1], s[j])
  BY ModesAre
<1>4. /\ m[i - 1] = "code" \/ (m[i - 1] = "opening" /\ s[i] \notin {"star", "slash"})
                           \/ (m[i - 1] = "line" /\ s[i] = "newline")
      /\ i + 1 <= n /\ s[i] = "slash" => s[i + 1] \notin {"star", "slash"}
  BY <1>1 DEF AtPiece, T!BlockStarts, T!LineStarts, T!Starts
<1> HIDE DEF n, m
<1>5. m[i] = IF s[i] = "slash" THEN "opening" ELSE "code"
  <2>1. m[i] = T!Enters(m[i - 1], s[i]) /\ m[i - 1] \in Known
    BY <1>1, <1>2, <1>3 DEF n
  <2>2. CASE m[i - 1] = "line" /\ s[i] = "newline"
    BY <2>1, <2>2, EntersIs
  <2>3. CASE m[i - 1] = "code" \/ (m[i - 1] = "opening" /\ s[i] \notin {"star", "slash"})
    BY <2>1, <2>3, EntersIs
  <2> QED
    BY <1>4, <2>2, <2>3
<1>6. i + 1 <= n => m[i] = "code" \/ (m[i] = "opening" /\ s[i + 1] \notin {"star", "slash"})
  BY <1>4, <1>5
<1>7. i + 1 <= n => m[i + 1] \notin {"block", "line"}
  <2> SUFFICES ASSUME i + 1 <= n PROVE m[i + 1] \notin {"block", "line"}
    OBVIOUS
  <2>1. i + 1 \in 1..n
    BY <1>1
  <2>2. m[i + 1] = T!Enters(m[i], s[i + 1]) /\ m[i] \in Known
    BY <1>1, <1>2, <1>3, <2>1
  <2> QED
    BY <1>6, <2>2, EntersIs DEF T!Quotes
<1>8. m[i - 1] # "line" => ~T!InComment(s, i)
  <2>1. i < n <=> i + 1 <= n
    BY <1>1
  <2> QED
    BY <1>4, <1>5, <1>7, <2>1, CommentIs DEF n, m
<1> QED
  BY <1>1, <1>4, <1>6, <1>8 DEF AtPiece, Stays, n, m

\* A piece is at least a character long, the next one begins where it ends, and
\* what is left of it is what the reference leaves.
LEMMA NextPiece ==
  ASSUME NEW Ch, NEW s \in Seq(Ch), NEW i \in 1..Len(s), AtPiece(s, i)
  PROVE  /\ T!PieceEnd(s, i) \in Nat /\ T!PieceEnd(s, i) > i
         /\ T!PieceEnd(s, i) <= Len(s) => AtPiece(s, T!PieceEnd(s, i))
         /\ T!Left(s, i) = {j \in i..Len(s) : j < T!PieceEnd(s, i) /\ Stays(s, j)}
<1> DEFINE n == Len(s)
           e == T!PieceEnd(s, i)
           Parted == /\ e \in Nat /\ e > i
                     /\ e <= n => AtPiece(s, e)
                     /\ \A j \in i..n : j < e => (Stays(s, j) <=>
                           (T!BlockStarts(s, i) \/ T!LineStarts(s, i) => s[j] = "newline"))
<1>1. n \in Nat
  BY LenProperties
<1>2. ASSUME T!BlockStarts(s, i) PROVE Parted
  <2>1. e = T!BlockEnd(s, i)
    BY <1>2 DEF T!PieceEnd
  <2> HIDE DEF e
  <2>2. e \in i + 1..n + 1 /\ (e <= n => AtPiece(s, e)) /\ \A j \in i..e - 1 : T!InComment(s, j)
    BY <1>2, <2>1, BlockIs DEF AtPiece
  <2>3. \A j \in i..n : j < e => j \in i..e - 1
    BY <1>1, <2>2
  <2> QED
    BY <1>1, <1>2, <2>2, <2>3 DEF Stays
<1>3. ASSUME T!LineStarts(s, i) /\ ~T!BlockStarts(s, i) PROVE Parted
  <2>1. e = T!LineEnd(s, i)
    BY <1>3 DEF T!PieceEnd
  <2> HIDE DEF e
  <2>2. e \in i + 1..n + 1 /\ (e <= n => AtPiece(s, e)) /\ \A j \in i..e - 1 : T!InComment(s, j)
    BY <1>3, <2>1, LineCommentIs DEF AtPiece
  <2>3. \A j \in i..n : j < e => j \in i..e - 1
    BY <1>1, <2>2
  <2> QED
    BY <1>1, <1>3, <2>2, <2>3 DEF Stays
<1>4. ASSUME ~T!LineStarts(s, i) /\ ~T!BlockStarts(s, i) /\ s[i] \in T!Quotes PROVE Parted
  <2>1. e = T!LiteralEnd(s, i)
    BY <1>4 DEF T!PieceEnd
  <2> HIDE DEF e
  <2>2. /\ e \in Nat /\ e > i /\ (e <= n => AtPiece(s, e))
        /\ \A j \in i..n : j < e => ~T!InComment(s, j)
    BY <1>4, <2>1, LiteralIs DEF AtPiece
  <2> QED
    BY <1>1, <1>4, <2>2 DEF Stays
<1>5. ASSUME ~T!LineStarts(s, i) /\ ~T!BlockStarts(s, i) /\ s[i] \notin T!Quotes PROVE Parted
  <2>1. e = i + 1
    BY <1>5 DEF T!PieceEnd
  <2> HIDE DEF e
  <2>2. (i + 1 <= n => AtPiece(s, i + 1)) /\ Stays(s, i)
    BY <1>5, CharacterIs
  <2>3. \A j \in i..n : j < i + 1 => j = i
    BY <1>1
  <2> QED
    BY <1>1, <1>5, <2>1, <2>2, <2>3
<1>6. Parted
  BY <1>2, <1>3, <1>4, <1>5
<1>7. T!Left(s, i) = {j \in i..e - 1 : j <= n /\ (T!BlockStarts(s, i) \/ T!LineStarts(s, i) => s[j] = "newline")}
  BY DEF T!Left
<1> HIDE DEF e, n
<1>8. \A j : j \in i..e - 1 /\ j <= n <=> j \in i..n /\ j < e
  BY <1>1, <1>6
<1>9. T!Left(s, i) = {j \in i..n : j < e /\ Stays(s, j)}
  BY <1>6, <1>7, <1>8
<1> QED
  BY <1>6, <1>9 DEF e, n

\* What is left of a text is what the reference leaves of it.
LEMMA StripIs ==
  ASSUME NEW Ch, NEW s \in Seq(Ch)
  PROVE  T!StripComments(s) = {j \in 1..Len(s) : Stays(s, j)}
<1> DEFINE n == Len(s)
           Ahead(j) == IF j > n THEN j ELSE T!PieceEnd(s, j)
           S == {j \in Nat : j >= 1 /\ (j <= n => AtPiece(s, j))}
           step == [k \in 1..n |-> [j \in S |-> Ahead(j)]]
           Scan(f) == [k \in 0..n |-> IF k = 0 THEN 1 ELSE Ahead(f[k - 1])]
           pos == CHOOSE f : f = Scan(f)
<1>1. T!StripComments(s) = UNION {T!Left(s, pos[k]) : k \in {x \in 0..n : pos[x] <= n}}
  BY DEF T!StripComments
<1>2. n \in Nat
  BY LenProperties
<1>3. \A j \in S : Ahead(j) \in S /\ (j <= n => Ahead(j) > j)
  <2> SUFFICES ASSUME NEW j \in S PROVE Ahead(j) \in S /\ (j <= n => Ahead(j) > j)
    OBVIOUS
  <2>1. CASE j > n
    BY <1>2, <2>1
  <2>2. CASE ~(j > n)
    <3>1. j \in 1..n /\ AtPiece(s, j)
      BY <1>2, <2>2
    <3> QED
      BY <1>2, <2>2, <3>1, NextPiece
  <2> QED
    BY <2>1, <2>2
<1>4. 1 \in S
  <2>1. n >= 1 => AtPiece(s, 1)
    BY <1>2, ModesAre DEF AtPiece
  <2> QED
    BY <2>1
<1> HIDE DEF n, Ahead, S
<1>5. step \in [1..n -> [S -> S]]
  BY <1>3
<1>6. PICK f \in [0..n -> S] : f[0] = 1 /\ \A k \in 1..n : f[k] = step[k][f[k - 1]]
  <2> HIDE DEF step
  <2>1. Runs(n, S, 1, step) # {}
    BY <1>2, <1>4, <1>5, RunExists
  <2> QED
    BY <2>1 DEF Runs
<1>7. \A k \in 1..n : k - 1 \in 0..n /\ f[k - 1] \in S /\ f[k] = Ahead(f[k - 1])
  <2>1. \A k \in 1..n, j \in S : step[k][j] = Ahead(j)
    OBVIOUS
  <2> HIDE DEF step
  <2>2. \A k \in 1..n : k - 1 \in 0..n /\ f[k - 1] \in S
    BY <1>2, <1>6
  <2> QED
    BY <1>6, <2>1, <2>2
<1>8. f = Scan(f)
  <2> HIDE DEF step
  <2> QED
    BY <1>2, <1>6, <1>7
<1>9. pos = Scan(pos)
  BY <1>8
<1> HIDE DEF pos
<1>10. \A k \in 0..n : pos[k] = IF k = 0 THEN 1 ELSE Ahead(pos[k - 1])
  BY <1>9
<1>11. pos = [k \in 0..n |-> pos[k]]
  BY <1>9
<1>12. \A k \in 1..n : k \in 0..n /\ k # 0 /\ (pos[k - 1] \in S => pos[k] = step[k][pos[k - 1]])
  BY <1>2, <1>10
<1>13. pos[0] = 1
  BY <1>2, <1>10
<1>14. pos \in [0..n -> S] /\ \A k \in 1..n : pos[k] = Ahead(pos[k - 1])
  <2> HIDE DEF step
  <2>1. pos \in Runs(n, S, 1, step)
    BY <1>2, <1>4, <1>5, <1>11, <1>12, <1>13, RunIs
  <2> QED
    BY <1>10, <1>12, <2>1 DEF Runs
<1> HIDE DEF step, Scan
<1> DEFINE Kept(k) == UNION {T!Left(s, pos[x]) : x \in {y \in 0..k - 1 : pos[y] <= n}}
           Found(k) == /\ pos[k] > k
                      /\ \A j : j \in Kept(k) <=> j \in 1..n /\ j < pos[k] /\ Stays(s, j)
           Q == {k \in Nat : k <= n => Found(k)}
<1>15. 0 \in Q
  <2>1. \A j : j \notin Kept(0)
    OBVIOUS
  <2>2. \A j \in 1..n : ~(j < 1)
    BY <1>2
  <2> HIDE DEF Kept
  <2> QED
    BY <1>13, <2>1, <2>2
<1>16. ASSUME NEW k \in Nat, k + 1 <= n, Found(k)
       PROVE  /\ pos[k] <= n => T!Left(s, pos[k]) = {j \in pos[k]..n : j < pos[k + 1] /\ Stays(s, j)}
              /\ pos[k + 1] > k + 1 /\ pos[k + 1] \in Nat /\ pos[k] \in Nat /\ pos[k] >= 1
              /\ pos[k + 1] >= pos[k] /\ (pos[k] > n => pos[k + 1] = pos[k])
  <2>1. k + 1 \in 1..n /\ (k + 1) - 1 = k /\ k \in 0..n
    BY <1>2, <1>16
  <2>2. pos[k] \in S /\ pos[k + 1] \in S /\ pos[k + 1] = Ahead(pos[k]) /\ pos[k] > k
    BY <1>14, <1>16, <2>1
  <2>3. pos[k] \in Nat /\ pos[k] >= 1 /\ pos[k + 1] \in Nat /\ (pos[k] <= n => AtPiece(s, pos[k]))
    BY <2>2 DEF S
  <2>4. CASE pos[k] > n
    <3>1. pos[k + 1] = pos[k]
      BY <2>2, <2>4 DEF Ahead
    <3> QED
      BY <1>2, <1>16, <2>3, <2>4, <3>1
  <2>5. CASE pos[k] <= n
    <3>1. pos[k] \in 1..n /\ ~(pos[k] > n)
      BY <1>2, <2>3, <2>5
    <3>2. pos[k + 1] = T!PieceEnd(s, pos[k])
      BY <2>2, <3>1 DEF Ahead
    <3>3. T!Left(s, pos[k]) = {j \in pos[k]..n : j < pos[k + 1] /\ Stays(s, j)} /\ pos[k + 1] > pos[k]
      BY <2>3, <2>5, <3>1, <3>2, NextPiece DEF n
    <3> QED
      BY <1>2, <2>2, <2>3, <3>1, <3>3
  <2> QED
    BY <1>2, <2>3, <2>4, <2>5
<1>17. ASSUME NEW k \in Nat, k \in Q PROVE k + 1 \in Q
  <2> SUFFICES ASSUME k + 1 <= n PROVE Found(k + 1)
    OBVIOUS
  <2> DEFINE a == pos[k]
             b == pos[k + 1]
  <2>1. Found(k)
    BY <1>2, <1>17
  <2>2. /\ a <= n => T!Left(s, a) = {j \in a..n : j < b /\ Stays(s, j)}
        /\ b > k + 1 /\ b \in Nat /\ a \in Nat /\ a >= 1 /\ b >= a /\ (a > n => b = a)
    BY <1>16, <2>1
  <2>3. \A j : j \in Kept(k + 1) <=> j \in Kept(k) \/ (a <= n /\ j \in T!Left(s, a))
    <3>1. \A y : y \in 0..(k + 1) - 1 <=> y \in 0..k - 1 \/ y = k
      OBVIOUS
    <3> QED
      BY <3>1
  <2>4. \A j : j \in Kept(k) <=> j \in 1..n /\ j < a /\ Stays(s, j)
    BY <2>1
  <2> HIDE DEF Kept, a, b
  <2>5. \A j : j \in Kept(k + 1) <=> j \in 1..n /\ j < b /\ Stays(s, j)
    <3>1. CASE a > n
      <4>1. \A j : j \in Kept(k + 1) <=> j \in Kept(k)
        BY <1>2, <2>2, <2>3, <3>1
      <4> QED
        BY <2>2, <2>4, <3>1, <4>1
    <3>2. CASE ~(a > n)
      <4>1. a <= n
        BY <1>2, <2>2, <3>2
      <4>2. \A j : j \in 1..n /\ j < b <=> (j \in 1..n /\ j < a) \/ (j \in a..n /\ j < b)
        BY <1>2, <2>2, <4>1
      <4> QED
        BY <2>2, <2>3, <2>4, <4>1, <4>2
    <3> QED
      BY <3>1, <3>2
  <2> QED
    BY <2>2, <2>5 DEF b
<1>18. Found(n)
  <2> HIDE DEF Q
  <2>1. n \in Q
    BY <1>2, <1>15, <1>17, Induction
  <2> HIDE DEF Found
  <2> QED
    BY <1>2, <2>1 DEF Q
<1>19. \A j : j \in T!StripComments(s) <=> j \in Kept(n) \/ (pos[n] <= n /\ j \in T!Left(s, pos[n]))
  <2>1. \A y : y \in 0..n <=> y \in 0..n - 1 \/ y = n
    BY <1>2
  <2> QED
    BY <1>1, <2>1
<1>20. n \in 0..n /\ pos[n] \in Nat
  BY <1>2, <1>14 DEF S
<1> HIDE DEF Kept
<1>21. \A j : j \in T!StripComments(s) <=> j \in 1..n /\ Stays(s, j)
  BY <1>2, <1>18, <1>19, <1>20
<1> QED
  BY <1>21 DEF n

--------------------------------------------------------------------------------
(* Text: the pieces of an initialiser *)

\* Counting goes up by one where there is something to count.
LEMMA CountStep ==
  ASSUME NEW s, NEW kinds
  PROVE  /\ T!Count(s, kinds, 1) = 0
         /\ \A k \in Nat \ {0} :
               /\ T!Count(s, kinds, k) \in Nat
               /\ T!Count(s, kinds, k + 1) = T!Count(s, kinds, k) + IF s[k] \in kinds THEN 1 ELSE 0
<1>1. \A S : T!Cardinality(S) = Cardinality(S)
  BY DEF T!Cardinality, Cardinality
<1> DEFINE Seen(k) == {j \in 1..k - 1 : s[j] \in kinds}
<1>2. \A k : T!Count(s, kinds, k) = Cardinality(Seen(k))
  BY <1>1 DEF T!Count
<1>3. Cardinality(Seen(1)) = 0
  <2>1. Seen(1) = {}
    OBVIOUS
  <2> QED
    BY <2>1, FS_EmptySet
<1>4. ASSUME NEW k \in Nat \ {0}
      PROVE  /\ Cardinality(Seen(k)) \in Nat
             /\ Cardinality(Seen(k + 1)) = Cardinality(Seen(k)) + IF s[k] \in kinds THEN 1 ELSE 0
  <2>1. IsFiniteSet(1..k - 1) /\ Seen(k) \subseteq 1..k - 1
    BY FS_Interval
  <2>2. IsFiniteSet(Seen(k))
    BY <2>1, FS_Subset
  <2>3. k \notin Seen(k)
    OBVIOUS
  <2>4. Seen(k + 1) = IF s[k] \in kinds THEN Seen(k) \cup {k} ELSE Seen(k)
    <3>1. \A j : j \in 1..(k + 1) - 1 <=> j \in 1..k - 1 \/ j = k
      OBVIOUS
    <3> QED
      BY <3>1
  <2> HIDE DEF Seen
  <2>5. Cardinality(Seen(k)) \in Nat
    BY <2>2, FS_CardinalityType
  <2>6. s[k] \in kinds => Cardinality(Seen(k + 1)) = Cardinality(Seen(k)) + 1
    BY <2>2, <2>3, <2>4, FS_AddElement
  <2> QED
    BY <2>4, <2>5, <2>6
<1> HIDE DEF Seen
<1> QED
  BY <1>2, <1>3, <1>4

\* What splitting knows after some of the text.
SplitStates == [depth : Int, start : Nat, args : SUBSET (Nat \X Nat)]

\* Splitting takes a character at a time.
LEMMA ArgsRun ==
  ASSUME NEW Ch, NEW s \in Seq(Ch)
  PROVE  \E run \in [0..Len(s) -> SplitStates] :
            /\ run[0] = [depth |-> 0, start |-> 1, args |-> {}]
            /\ \A k \in 1..Len(s) :
                  /\ run[k].depth = run[k - 1].depth
                                       + (IF s[k] \in T!Opening THEN 1 ELSE 0)
                                       - (IF s[k] \in T!Closing THEN 1 ELSE 0)
                  /\ IF s[k] = "comma" /\ run[k - 1].depth = 0
                     THEN /\ run[k].start = k + 1
                          /\ run[k].args = run[k - 1].args \cup {<<run[k - 1].start, k - 1>>}
                     ELSE run[k].start = run[k - 1].start /\ run[k].args = run[k - 1].args
            /\ T!SplitArgs(s) = run[Len(s)].args \cup {<<run[Len(s)].start, Len(s)>>}
<1> DEFINE n == Len(s)
           S == SplitStates
           b == [depth |-> 0, start |-> 1, args |-> {}]
           Goes(st, k) ==
              CASE s[k] \in T!Opening -> [st EXCEPT !.depth = @ + 1]
                [] s[k] \in T!Closing -> [st EXCEPT !.depth = @ - 1]
                [] s[k] = "comma" /\ st.depth = 0 ->
                      [st EXCEPT !.start = k + 1, !.args = @ \cup {<<st.start, k - 1>>}]
                [] OTHER -> st
           step == [k \in 1..n |-> [st \in S |-> Goes(st, k)]]
           Scan(f) == [k \in 0..n |-> IF k = 0 THEN b ELSE Goes(f[k - 1], k)]
           run == CHOOSE f : f = Scan(f)
<1>1. T!SplitArgs(s) = run[n].args \cup {<<run[n].start, n>>}
  BY DEF T!SplitArgs
<1>2. n \in Nat
  BY LenProperties
<1>3. b \in S
  BY DEF SplitStates
<1> HIDE DEF n
<1>4. ASSUME NEW st \in S, NEW k \in 1..n
      PROVE  /\ Goes(st, k) \in S
             /\ Goes(st, k).depth = st.depth + (IF s[k] \in T!Opening THEN 1 ELSE 0)
                                             - (IF s[k] \in T!Closing THEN 1 ELSE 0)
             /\ IF s[k] = "comma" /\ st.depth = 0
                THEN Goes(st, k).start = k + 1 /\ Goes(st, k).args = st.args \cup {<<st.start, k - 1>>}
                ELSE Goes(st, k).start = st.start /\ Goes(st, k).args = st.args
  <2> USE DEF SplitStates
  <2>1. st.depth \in Int /\ st.start \in Nat /\ st.args \in SUBSET (Nat \X Nat)
    OBVIOUS
  <2>2. k \in Nat /\ k + 1 \in Nat /\ k - 1 \in Nat
    BY <1>2
  <2>3. CASE s[k] \in T!Opening
    <3>1. s[k] \notin T!Closing /\ s[k] # "comma"
      BY <2>3 DEF T!Opening, T!Closing
    <3>2. Goes(st, k) = [st EXCEPT !.depth = @ + 1]
      BY <2>3, <3>1
    <3> HIDE DEF Goes
    <3> QED
      BY <2>1, <2>3, <3>1, <3>2
  <2>4. CASE s[k] \in T!Closing
    <3>1. s[k] \notin T!Opening /\ s[k] # "comma"
      BY <2>4 DEF T!Opening, T!Closing
    <3>2. Goes(st, k) = [st EXCEPT !.depth = @ - 1]
      BY <2>4, <3>1
    <3> HIDE DEF Goes
    <3> QED
      BY <2>1, <2>4, <3>1, <3>2
  <2>5. CASE s[k] = "comma" /\ st.depth = 0
    <3>1. s[k] \notin T!Opening /\ s[k] \notin T!Closing
      BY <2>5 DEF T!Opening, T!Closing
    <3>2. Goes(st, k) = [st EXCEPT !.start = k + 1, !.args = @ \cup {<<st.start, k - 1>>}]
      BY <2>5, <3>1
    <3> HIDE DEF Goes
    <3>3. st.args \cup {<<st.start, k - 1>>} \in SUBSET (Nat \X Nat)
      BY <2>1, <2>2
    <3>4. Goes(st, k) = [depth |-> st.depth, start |-> k + 1, args |-> st.args \cup {<<st.start, k - 1>>}]
      BY <3>2
    <3> QED
      BY <2>1, <2>2, <2>5, <3>1, <3>3, <3>4
  <2>6. CASE s[k] \notin T!Opening /\ s[k] \notin T!Closing /\ ~(s[k] = "comma" /\ st.depth = 0)
    <3>1. Goes(st, k) = st
      BY <2>6
    <3> HIDE DEF Goes
    <3> QED
      BY <2>1, <2>6, <3>1
  <2> QED
    BY <2>3, <2>4, <2>5, <2>6
<1> HIDE DEF Goes, b, S
<1>5. step \in [1..n -> [S -> S]]
  BY <1>4
<1>6. PICK f \in [0..n -> S] : f[0] = b /\ \A k \in 1..n : f[k] = step[k][f[k - 1]]
  <2> HIDE DEF step
  <2>1. Runs(n, S, b, step) # {}
    BY <1>2, <1>3, <1>5, RunExists
  <2> QED
    BY <2>1 DEF Runs
<1>7. \A k \in 1..n : k - 1 \in 0..n /\ f[k - 1] \in S /\ f[k] = Goes(f[k - 1], k)
  <2>1. \A k \in 1..n, st \in S : step[k][st] = Goes(st, k)
    OBVIOUS
  <2> HIDE DEF step
  <2>2. \A k \in 1..n : k - 1 \in 0..n /\ f[k - 1] \in S
    BY <1>2, <1>6
  <2> QED
    BY <1>6, <2>1, <2>2
<1>8. f = Scan(f)
  <2> HIDE DEF step
  <2> QED
    BY <1>2, <1>6, <1>7
<1>9. run = Scan(run)
  BY <1>8
<1> HIDE DEF run
<1>10. \A k \in 0..n : run[k] = IF k = 0 THEN b ELSE Goes(run[k - 1], k)
  BY <1>9
<1>11. run = [k \in 0..n |-> run[k]]
  BY <1>9
<1>12. \A k \in 1..n : k \in 0..n /\ k # 0 /\ (run[k - 1] \in S => run[k] = step[k][run[k - 1]])
  BY <1>2, <1>10
<1>13. run[0] = b
  BY <1>2, <1>10
<1> HIDE DEF step
<1>14. run \in Runs(n, S, b, step)
  BY <1>2, <1>3, <1>5, <1>11, <1>12, <1>13, RunIs
<1>15. run \in [0..n -> S]
  BY <1>14 DEF Runs
<1>16. \A k \in 1..n : run[k - 1] \in S /\ run[k] = Goes(run[k - 1], k)
  BY <1>2, <1>10, <1>12, <1>15
<1>17. run[0] = [depth |-> 0, start |-> 1, args |-> {}]
  BY <1>13 DEF b
<1>18. \A k \in 1..n :
          /\ run[k].depth = run[k - 1].depth
                               + (IF s[k] \in T!Opening THEN 1 ELSE 0)
                               - (IF s[k] \in T!Closing THEN 1 ELSE 0)
          /\ IF s[k] = "comma" /\ run[k - 1].depth = 0
             THEN /\ run[k].start = k + 1
                  /\ run[k].args = run[k - 1].args \cup {<<run[k - 1].start, k - 1>>}
             ELSE run[k].start = run[k - 1].start /\ run[k].args = run[k - 1].args
  BY <1>4, <1>16
<1> HIDE DEF run
<1> QED
  BY <1>1, <1>15, <1>17, <1>18 DEF n, S

\* A place between two commas at depth 0, or an end of the text and one of them.
Place(s, a) ==
    /\ a[1] \in 1..a[2] + 1
    /\ a[1] = 1 \/ a[1] - 1 \in T!TopCommas(s)
    /\ \A i \in T!TopCommas(s) : ~(a[1] <= i /\ i <= a[2])

\* Splitting finds just the places.
LEMMA ArgsAre ==
  ASSUME NEW Ch, NEW s \in Seq(Ch)
  PROVE  \A a : a \in T!SplitArgs(s) <=>
            /\ a \in Nat \X Nat
            /\ Place(s, a)
            /\ a[2] = Len(s) \/ a[2] + 1 \in T!TopCommas(s)
<1> DEFINE n == Len(s)
           tops == T!TopCommas(s)
           opens(k) == T!Count(s, T!Opening, k)
           closes(k) == T!Count(s, T!Closing, k)
<1>1. n \in Nat
  BY LenProperties
<1>2. PICK run \in [0..n -> SplitStates] :
         /\ run[0] = [depth |-> 0, start |-> 1, args |-> {}]
         /\ \A k \in 1..n :
               /\ run[k].depth = run[k - 1].depth
                                    + (IF s[k] \in T!Opening THEN 1 ELSE 0)
                                    - (IF s[k] \in T!Closing THEN 1 ELSE 0)
               /\ IF s[k] = "comma" /\ run[k - 1].depth = 0
                  THEN /\ run[k].start = k + 1
                       /\ run[k].args = run[k - 1].args \cup {<<run[k - 1].start, k - 1>>}
                  ELSE run[k].start = run[k - 1].start /\ run[k].args = run[k - 1].args
         /\ T!SplitArgs(s) = run[n].args \cup {<<run[n].start, n>>}
  BY ArgsRun
<1>3. \A i : i \in tops <=> i \in 1..n /\ s[i] = "comma" /\ opens(i) = closes(i)
  BY LenProperties DEF T!TopCommas
<1>4. /\ opens(1) = 0 /\ closes(1) = 0
      /\ \A k \in Nat \ {0} :
            /\ opens(k) \in Nat /\ closes(k) \in Nat
            /\ opens(k + 1) = opens(k) + IF s[k] \in T!Opening THEN 1 ELSE 0
            /\ closes(k + 1) = closes(k) + IF s[k] \in T!Closing THEN 1 ELSE 0
  <2>1. /\ opens(1) = 0
        /\ \A k \in Nat \ {0} :
              opens(k) \in Nat /\ opens(k + 1) = opens(k) + IF s[k] \in T!Opening THEN 1 ELSE 0
    BY CountStep
  <2>2. /\ closes(1) = 0
        /\ \A k \in Nat \ {0} :
              closes(k) \in Nat /\ closes(k + 1) = closes(k) + IF s[k] \in T!Closing THEN 1 ELSE 0
    BY CountStep
  <2> QED
    BY <2>1, <2>2
<1> HIDE DEF n, tops, opens, closes
<1> DEFINE Started(k) ==
              /\ run[k].start \in 1..k + 1
              /\ run[k].start = 1 \/ run[k].start - 1 \in tops
              /\ \A i \in tops : i <= k => i < run[k].start
           Ended(k) ==
              \A a : a \in run[k].args <=>
                 a \in Nat \X Nat /\ Place(s, a) /\ a[2] + 1 \in tops /\ a[2] + 1 <= k
           Q == {k \in Nat : k <= n => run[k].depth = opens(k + 1) - closes(k + 1) /\ Started(k) /\ Ended(k)}
<1>5. 0 \in Q
  <2>1. \A i \in tops : ~(i <= 0)
    BY <1>1, <1>3
  <2>2. run[0].depth = 0 /\ run[0].start = 1 /\ run[0].args = {}
    BY <1>2
  <2>3. \A a \in Nat \X Nat : ~(a[2] + 1 <= 0)
    OBVIOUS
  <2>4. opens(0 + 1) = 0 /\ closes(0 + 1) = 0
    BY <1>4
  <2> QED
    BY <2>1, <2>2, <2>3, <2>4
<1>6. ASSUME NEW k \in Nat, k \in Q PROVE k + 1 \in Q
  <2> SUFFICES ASSUME k + 1 <= n
               PROVE  run[k + 1].depth = opens((k + 1) + 1) - closes((k + 1) + 1) /\ Started(k + 1) /\ Ended(k + 1)
    OBVIOUS
  <2> DEFINE j == k + 1
  <2>1. j \in 1..n /\ j - 1 = k /\ k \in 0..n /\ j \in 0..n /\ j \in Nat \ {0}
    BY <1>1
  <2>2. run[k].depth = opens(j) - closes(j) /\ Started(k) /\ Ended(k)
    BY <1>1, <1>6
  <2>3. run[k] \in SplitStates /\ run[j] \in SplitStates
    BY <1>2, <2>1
  <2>4. run[k].depth \in Int /\ run[k].start \in Nat /\ run[j].start \in Nat
    BY <2>3 DEF SplitStates
  <2>5. /\ run[j].depth = run[k].depth
                             + (IF s[j] \in T!Opening THEN 1 ELSE 0)
                             - (IF s[j] \in T!Closing THEN 1 ELSE 0)
        /\ IF s[j] = "comma" /\ run[k].depth = 0
           THEN run[j].start = j + 1 /\ run[j].args = run[k].args \cup {<<run[k].start, k>>}
           ELSE run[j].start = run[k].start /\ run[j].args = run[k].args
    BY <1>2, <2>1
  <2>6. j \in tops <=> s[j] = "comma" /\ run[k].depth = 0
    BY <1>3, <1>4, <2>1, <2>2
  <2>7. run[j].depth = opens(j + 1) - closes(j + 1)
    <3>1. /\ opens(j) \in Nat /\ closes(j) \in Nat
          /\ opens(j + 1) = opens(j) + IF s[j] \in T!Opening THEN 1 ELSE 0
          /\ closes(j + 1) = closes(j) + IF s[j] \in T!Closing THEN 1 ELSE 0
      BY <1>4, <2>1
    <3>2. run[k].depth = opens(j) - closes(j)
      BY <2>2
    <3> HIDE DEF j
    <3> QED
      BY <2>5, <3>1, <3>2
  <2>8. \A i \in tops : i \in Nat /\ (i <= j <=> i <= k \/ i = j)
    BY <1>1, <1>3
  <2>9. j \in Nat /\ j = k + 1
    OBVIOUS
  <2> HIDE DEF j
  <2>10. CASE j \notin tops
    <3>1. run[j].start = run[k].start /\ run[j].args = run[k].args
      BY <2>5, <2>6, <2>10
    <3>2. Started(j)
      BY <2>2, <2>4, <2>8, <2>9, <2>10, <3>1
    <3>3. \A a \in Nat \X Nat : a[2] + 1 \in tops => (a[2] + 1 <= j <=> a[2] + 1 <= k)
      BY <2>8, <2>10
    <3>4. Ended(j)
      BY <2>2, <3>1, <3>3
    <3> QED
      BY <2>7, <3>2, <3>4 DEF j
  <2>11. CASE j \in tops
    <3> DEFINE x == run[k].start
               new == <<x, k>>
    <3>1. run[j].start = j + 1 /\ run[j].args = run[k].args \cup {new}
      BY <2>5, <2>6, <2>11
    <3>2. /\ x \in 1..k + 1 /\ (x = 1 \/ x - 1 \in tops)
          /\ \A i \in tops : i <= k => i < x
      BY <2>2
    <3> HIDE DEF x
    <3>3. Started(j)
      <4>1. (j + 1) - 1 = j /\ j + 1 \in 1..j + 1
        BY <2>9
      <4>2. \A i \in tops : i <= j => i < j + 1
        BY <2>8, <2>9
      <4> HIDE DEF new
      <4> QED
        BY <2>11, <3>1, <4>1, <4>2
    <3>4. new \in Nat \X Nat /\ new[1] = x /\ new[2] = k
      BY <2>9, <3>2
    <3> HIDE DEF new
    <3>5. Place(s, new)
      <4>1. \A i \in tops : ~(x <= i /\ i <= k)
        BY <2>8, <3>2
      <4> QED
        BY <3>2, <3>4, <4>1 DEF Place, tops
    <3>6. ASSUME NEW a \in Nat \X Nat, Place(s, a), a[2] + 1 = j PROVE a = new
      <4>1. a[1] \in Nat /\ a[2] \in Nat /\ a = <<a[1], a[2]>> /\ a[2] = k
        BY <2>9, <3>6
      <4>2. /\ a[1] \in 1..k + 1 /\ (a[1] = 1 \/ a[1] - 1 \in tops)
            /\ \A i \in tops : ~(a[1] <= i /\ i <= k)
        BY <3>6, <4>1 DEF Place, tops
      <4>3. ~(a[1] < x)
        <5> SUFFICES ASSUME a[1] < x PROVE FALSE
          OBVIOUS
        <5>1. x - 1 \in tops /\ a[1] <= x - 1 /\ x - 1 <= k
          BY <3>2, <4>1, <4>2
        <5> QED
          BY <4>2, <5>1
      <4>4. ~(x < a[1])
        <5> SUFFICES ASSUME x < a[1] PROVE FALSE
          OBVIOUS
        <5>1. a[1] - 1 \in tops /\ a[1] - 1 <= k
          BY <3>2, <4>1, <4>2
        <5>2. a[1] - 1 < x
          BY <3>2, <5>1
        <5> QED
          BY <3>2, <4>1, <5>2
      <4>5. a[1] = x
        BY <3>2, <4>1, <4>3, <4>4
      <4>6. new = <<new[1], new[2]>>
        BY <3>4
      <4> QED
        BY <3>4, <4>1, <4>5, <4>6
    <3>7. \A a \in Nat \X Nat : a[2] + 1 \in tops => (a[2] + 1 <= j <=> a[2] + 1 <= k \/ a[2] + 1 = j)
      BY <2>8
    <3>8. new[2] + 1 = j /\ j <= j
      BY <2>9, <3>4
    <3>9. Ended(j)
      <4>1. \A a : a \in run[j].args <=> a \in run[k].args \/ a = new
        BY <3>1
      <4>2. \A a : a \in run[k].args <=>
               a \in Nat \X Nat /\ Place(s, a) /\ a[2] + 1 \in tops /\ a[2] + 1 <= k
        BY <2>2
      <4> QED
        BY <2>11, <3>4, <3>5, <3>6, <3>7, <3>8, <4>1, <4>2
    <3> QED
      BY <2>7, <3>3, <3>9 DEF j
  <2> QED
    BY <2>10, <2>11
<1>7. Started(n) /\ Ended(n)
  <2> HIDE DEF Q
  <2>1. n \in Q
    BY <1>1, <1>5, <1>6, Induction
  <2> HIDE DEF Started, Ended
  <2> QED
    BY <1>1, <2>1 DEF Q
<1> HIDE DEF Q
<1> DEFINE x == run[n].start
           new == <<x, n>>
<1>8. /\ x \in 1..n + 1 /\ (x = 1 \/ x - 1 \in tops)
      /\ \A i \in tops : i < x
  <2>1. \A i \in tops : i <= n
    BY <1>1, <1>3
  <2> QED
    BY <1>7, <2>1
<1> HIDE DEF x
<1>9. new \in Nat \X Nat /\ new[1] = x /\ new[2] = n
  BY <1>1, <1>8
<1>10. T!SplitArgs(s) = run[n].args \cup {new}
  BY <1>2 DEF x
<1> HIDE DEF new
<1>11. Place(s, new)
  <2>1. \A i \in tops : i \in Nat /\ ~(x <= i /\ i <= n)
    BY <1>1, <1>3, <1>8
  <2> QED
    BY <1>8, <1>9, <2>1 DEF Place, tops
<1>12. ASSUME NEW a \in Nat \X Nat, Place(s, a), a[2] = n PROVE a = new
  <2>1. a[1] \in Nat /\ a = <<a[1], n>>
    BY <1>12
  <2>2. /\ a[1] \in 1..n + 1 /\ (a[1] = 1 \/ a[1] - 1 \in tops)
        /\ \A i \in tops : ~(a[1] <= i /\ i <= n)
    BY <1>12 DEF Place, tops
  <2>3. ~(a[1] < x)
    <3> SUFFICES ASSUME a[1] < x PROVE FALSE
      OBVIOUS
    <3>1. x - 1 \in tops /\ a[1] <= x - 1 /\ x - 1 <= n
      BY <1>1, <1>8, <2>1, <2>2
    <3> QED
      BY <2>2, <3>1
  <2>4. ~(x < a[1])
    <3> SUFFICES ASSUME x < a[1] PROVE FALSE
      OBVIOUS
    <3>1. a[1] - 1 \in tops
      BY <1>8, <2>1, <2>2
    <3>2. a[1] - 1 < x
      BY <1>8, <3>1
    <3> QED
      BY <1>8, <2>1, <3>2
  <2>5. a[1] = x
    BY <1>8, <2>1, <2>3, <2>4
  <2>6. new = <<new[1], new[2]>>
    BY <1>9
  <2> QED
    BY <1>9, <2>1, <2>5, <2>6
<1>13. \A a \in Nat \X Nat : a[2] + 1 \in tops => a[2] + 1 <= n
  BY <1>1, <1>3
<1>14. \A a : a \in T!SplitArgs(s) <=> a \in Nat \X Nat /\ Place(s, a) /\ (a[2] = n \/ a[2] + 1 \in tops)
  <2>1. \A a : a \in run[n].args <=>
           a \in Nat \X Nat /\ Place(s, a) /\ a[2] + 1 \in tops /\ a[2] + 1 <= n
    BY <1>7
  <2> QED
    BY <1>9, <1>10, <1>11, <1>12, <1>13, <2>1
<1> QED
  BY <1>14 DEF n, tops

\* A place starts at the start and after each comma at depth 0.
LEMMA PlaceStarts ==
  ASSUME NEW Ch, NEW s \in Seq(Ch), NEW x \in 1..Len(s) + 1, x = 1 \/ x - 1 \in T!TopCommas(s)
  PROVE  \E a \in T!SplitArgs(s) : a[1] = x
<1> DEFINE n == Len(s)
           tops == T!TopCommas(s)
           E == {y \in x - 1..n : y = n \/ y + 1 \in tops}
<1>1. n \in Nat /\ x \in 1..n + 1
  BY LenProperties
<1>2. \A i \in tops : i \in 1..n
  BY LenProperties DEF T!TopCommas
<1> HIDE DEF n, tops
<1>3. E \in SUBSET Nat /\ E # {}
  <2>1. n \in E
    BY <1>1
  <2>2. \A y \in x - 1..n : y \in Nat
    BY <1>1
  <2> QED
    BY <2>1, <2>2
<1>4. PICK y \in E : \A z \in E : y <= z
  <2> HIDE DEF E
  <2> QED
    BY <1>3, LeastNumber
<1>5. y \in x - 1..n /\ y \in Nat /\ (y = n \/ y + 1 \in tops)
  BY <1>3, <1>4
<1>6. ASSUME NEW i \in tops, x <= i, i <= y PROVE FALSE
  <2>1. i - 1 \in x - 1..n /\ (i - 1) + 1 = i /\ i - 1 < y
    BY <1>1, <1>2, <1>5, <1>6
  <2>2. i - 1 \in E
    BY <2>1
  <2> QED
    BY <1>2, <1>4, <1>5, <2>1, <2>2
<1> DEFINE a == <<x, y>>
<1>7. a \in Nat \X Nat /\ a[1] = x /\ a[2] = y
  BY <1>1, <1>5
<1> HIDE DEF a
<1>8. Place(s, a)
  <2>1. x \in 1..y + 1
    BY <1>1, <1>5
  <2> QED
    BY <1>6, <1>7, <2>1 DEF Place, tops
<1> QED
  BY <1>5, <1>7, <1>8, ArgsAre DEF n, tops

\* A place ends at the end and before each comma at depth 0.
LEMMA PlaceEnds ==
  ASSUME NEW Ch, NEW s \in Seq(Ch), NEW y \in 0..Len(s), y = Len(s) \/ y + 1 \in T!TopCommas(s)
  PROVE  \E a \in T!SplitArgs(s) : a[2] = y
<1> DEFINE n == Len(s)
           tops == T!TopCommas(s)
           D == {d \in 0..y : d = y \/ y - d \in tops}
<1>1. n \in Nat /\ y \in 0..n
  BY LenProperties
<1>2. \A i \in tops : i \in 1..n
  BY LenProperties DEF T!TopCommas
<1> HIDE DEF n, tops
<1>3. D \in SUBSET Nat /\ D # {}
  <2>1. y \in D
    BY <1>1
  <2>2. \A d \in 0..y : d \in Nat
    BY <1>1
  <2> QED
    BY <2>1, <2>2
<1>4. PICK d \in D : \A z \in D : d <= z
  <2> HIDE DEF D
  <2> QED
    BY <1>3, LeastNumber
<1>5. d \in 0..y /\ d \in Nat /\ (d = y \/ y - d \in tops)
  BY <1>3, <1>4
<1> DEFINE x == (y - d) + 1
<1>6. ASSUME NEW i \in tops, x <= i, i <= y PROVE FALSE
  <2>1. y - i \in 0..y /\ y - (y - i) = i /\ y - i < d
    BY <1>1, <1>2, <1>5, <1>6
  <2>2. y - i \in D
    BY <2>1
  <2> QED
    BY <1>1, <1>2, <1>4, <1>5, <2>1, <2>2
<1>7. x \in 1..y + 1 /\ (x = 1 \/ x - 1 \in tops)
  <2>1. x \in 1..y + 1 /\ x - 1 = y - d /\ (d = y => x = 1)
    BY <1>1, <1>5
  <2> QED
    BY <1>5, <2>1
<1> HIDE DEF x
<1> DEFINE a == <<x, y>>
<1>8. a \in Nat \X Nat /\ a[1] = x /\ a[2] = y
  BY <1>1, <1>7
<1> HIDE DEF a
<1>9. Place(s, a)
  BY <1>6, <1>7, <1>8 DEF Place, tops
<1> QED
  BY <1>8, <1>9, ArgsAre DEF n, tops

\* Two places are one, or one is before the other.
LEMMA PlacesApart ==
  ASSUME NEW Ch, NEW s \in Seq(Ch), NEW a \in T!SplitArgs(s), NEW b \in T!SplitArgs(s), a # b
  PROVE  a[2] < b[1] \/ b[2] < a[1]
<1> DEFINE n == Len(s)
           tops == T!TopCommas(s)
<1>1. n \in Nat
  BY LenProperties
<1>2. \A i \in tops : i \in 1..n
  BY LenProperties DEF T!TopCommas
<1>3. /\ a \in Nat \X Nat /\ Place(s, a) /\ (a[2] = n \/ a[2] + 1 \in tops)
      /\ b \in Nat \X Nat /\ Place(s, b) /\ (b[2] = n \/ b[2] + 1 \in tops)
  BY ArgsAre
<1> HIDE DEF n, tops
<1>4. \E x, y, u, v \in Nat : a = <<x, y>> /\ b = <<u, v>>
  BY <1>3
<1>5. PICK x \in Nat, y \in Nat, u \in Nat, v \in Nat : a = <<x, y>> /\ b = <<u, v>>
  BY <1>4
<1>6. a[1] = x /\ a[2] = y /\ b[1] = u /\ b[2] = v
  BY <1>5
<1>7. /\ x \in 1..y + 1 /\ (x = 1 \/ x - 1 \in tops) /\ (y = n \/ y + 1 \in tops)
      /\ \A i \in tops : ~(x <= i /\ i <= y)
  BY <1>3, <1>6 DEF Place, tops
<1>8. /\ u \in 1..v + 1 /\ (u = 1 \/ u - 1 \in tops) /\ (v = n \/ v + 1 \in tops)
      /\ \A i \in tops : ~(u <= i /\ i <= v)
  BY <1>3, <1>6 DEF Place, tops
<1>9. y <= n /\ v <= n
  BY <1>1, <1>2, <1>7, <1>8
<1> SUFFICES ASSUME ~(y < u), ~(v < x) PROVE FALSE
  BY <1>6
<1>10. ~(y < v)
  <2> SUFFICES ASSUME y < v PROVE FALSE
    OBVIOUS
  <2>1. y + 1 \in tops
    BY <1>1, <1>7, <1>9
  <2>2. u <= y + 1 /\ y + 1 <= v
    OBVIOUS
  <2> QED
    BY <1>8, <2>1, <2>2
<1>11. ~(v < y)
  <2> SUFFICES ASSUME v < y PROVE FALSE
    OBVIOUS
  <2>1. v + 1 \in tops
    BY <1>1, <1>8, <1>9
  <2>2. x <= v + 1 /\ v + 1 <= y
    OBVIOUS
  <2> QED
    BY <1>7, <2>1, <2>2
<1>12. y = v
  BY <1>10, <1>11
<1>13. ~(x < u)
  <2> SUFFICES ASSUME x < u PROVE FALSE
    OBVIOUS
  <2>1. u - 1 \in tops /\ x <= u - 1 /\ u - 1 <= y
    BY <1>7, <1>8, <1>12
  <2> QED
    BY <1>7, <2>1
<1>14. ~(u < x)
  <2> SUFFICES ASSUME u < x PROVE FALSE
    OBVIOUS
  <2>1. x - 1 \in tops /\ u <= x - 1 /\ x - 1 <= v
    BY <1>7, <1>8, <1>12
  <2> QED
    BY <1>8, <2>1
<1>15. x = u
  BY <1>13, <1>14
<1> QED
  BY <1>5, <1>12, <1>15

\* What is not a comma at depth 0 is in a place.
LEMMA PlacesCover ==
  ASSUME NEW Ch, NEW s \in Seq(Ch), NEW i \in 1..Len(s), i \notin T!TopCommas(s)
  PROVE  \E a \in T!SplitArgs(s) : i \in a[1]..a[2]
<1> DEFINE n == Len(s)
           tops == T!TopCommas(s)
           E == {y \in i..n : y = n \/ y + 1 \in tops}
<1>1. n \in Nat /\ i \in 1..n
  BY LenProperties
<1>2. \A j \in tops : j \in 1..n
  BY LenProperties DEF T!TopCommas
<1>3. i \notin tops
  OBVIOUS
<1> HIDE DEF n, tops
<1>4. E \in SUBSET Nat /\ E # {}
  <2>1. n \in E
    BY <1>1
  <2>2. \A y \in i..n : y \in Nat
    BY <1>1
  <2> QED
    BY <2>1, <2>2
<1>5. PICK y \in E : \A z \in E : y <= z
  <2> HIDE DEF E
  <2> QED
    BY <1>4, LeastNumber
<1>6. y \in i..n /\ y \in 0..n /\ (y = n \/ y + 1 \in tops)
  BY <1>1, <1>4, <1>5
<1>7. PICK a \in T!SplitArgs(s) : a[2] = y
  BY <1>6, PlaceEnds DEF n, tops
<1>8. a \in Nat \X Nat /\ Place(s, a)
  BY ArgsAre
<1>9. a[1] \in Nat /\ a[1] \in 1..y + 1 /\ (a[1] = 1 \/ a[1] - 1 \in tops)
  BY <1>7, <1>8 DEF Place, tops
<1>10. ~(i < a[1])
  <2> SUFFICES ASSUME i < a[1] PROVE FALSE
    OBVIOUS
  <2> DEFINE j == a[1] - 1
  <2>1. j \in tops /\ i <= j /\ j <= y
    BY <1>1, <1>6, <1>9
  <2>2. j # i
    BY <1>3, <2>1
  <2>3. j - 1 \in i..n /\ (j - 1) + 1 = j /\ j - 1 < y
    BY <1>1, <1>2, <1>6, <2>1, <2>2
  <2> HIDE DEF j
  <2>4. j - 1 \in E
    BY <2>1, <2>3
  <2> QED
    BY <1>1, <1>2, <1>5, <1>6, <2>1, <2>3, <2>4
<1> QED
  BY <1>1, <1>6, <1>7, <1>9, <1>10

\* What is left of a place is in it, with all in it that is not blank.
LEMMA ArgIs ==
  ASSUME NEW Ch, NEW s \in Seq(Ch), NEW a \in T!SplitArgs(s)
  PROVE  /\ T!Arg(s, a) \subseteq a[1]..a[2]
         /\ \A i \in a[1]..a[2] : s[i] # "space" => i \in T!Arg(s, a)
<1>1. a[1] \in Nat /\ a[2] \in Nat
  BY ArgsAre
<1>2. T!Arg(s, a) = {i \in a[1]..a[2] : /\ \E j \in a[1]..i : s[j] # "space"
                                        /\ \E j \in i..a[2] : s[j] # "space"}
  BY DEF T!Arg, T!Stripped
<1>3. \A i \in a[1]..a[2] : i \in a[1]..i /\ i \in i..a[2]
  BY <1>1
<1> QED
  BY <1>2, <1>3

\* The pieces are whole.
LEMMA PiecesAre ==
  ASSUME NEW Ch, text \in Seq(Ch)
  PROVE  T!PiecesAreWhole
<1> DEFINE n == Len(text)
           args == T!SplitArgs(text)
           tops == T!TopCommas(text)
           ink == {i \in DOMAIN text : text[i] # "space"}
           all == UNION {T!Arg(text, a) : a \in T!SplitElements(text)}
<1>1. n \in Nat /\ DOMAIN text = 1..n
  BY LenProperties
<1>2. \A i \in tops : i \in 1..n
  BY <1>1 DEF T!TopCommas
<1>3. \A a \in args : /\ a \in Nat \X Nat /\ a[1] \in Nat /\ a[2] \in Nat
                      /\ Place(text, a) /\ (a[2] = n \/ a[2] + 1 \in tops)
  <2>1. \A a \in args : a \in Nat \X Nat /\ Place(text, a) /\ (a[2] = n \/ a[2] + 1 \in tops)
    BY ArgsAre
  <2> HIDE DEF args, n, tops
  <2> QED
    BY <2>1
<1>4. \A a \in args : T!Arg(text, a) \subseteq a[1]..a[2]
                      /\ \A i \in a[1]..a[2] : text[i] # "space" => i \in T!Arg(text, a)
  BY ArgIs
<1>5. \A x \in 1..n + 1 : x = 1 \/ x - 1 \in tops => \E a \in args : a[1] = x
  BY PlaceStarts
<1>6. \A y \in 0..n : y = n \/ y + 1 \in tops => \E a \in args : a[2] = y
  BY PlaceEnds
<1>7. \A a, b \in args : a # b => a[2] < b[1] \/ b[2] < a[1]
  BY PlacesApart
<1>8. \A i \in 1..n : i \notin tops => \E a \in args : i \in a[1]..a[2]
  BY PlacesCover
<1>9. T!SplitElements(text) = {a \in args : T!Arg(text, a) # {}}
  BY DEF T!SplitElements
<1>10. T!PiecesAreWhole <=>
         /\ {a[1] : a \in args} = {1} \cup {i + 1 : i \in tops}
         /\ {a[2] : a \in args} = {n} \cup {i - 1 : i \in tops}
         /\ \A a \in args : a[1]..a[2] \cap tops = {}
         /\ \A a, b \in args : a # b => a[2] < b[1] \/ b[2] < a[1]
         /\ all \cap ink = ink \ tops
  BY DEF T!PiecesAreWhole
<1>11. \A i : i \in all <=> \E a \in args : i \in T!Arg(text, a)
  BY <1>9
<1> HIDE DEF n, args, tops, all
<1>12. \A a \in args : /\ a[1] \in 1..a[2] + 1 /\ (a[1] = 1 \/ a[1] - 1 \in tops)
                       /\ \A i \in tops : ~(a[1] <= i /\ i <= a[2])
  BY <1>3 DEF Place, tops
<1>13. {a[1] : a \in args} = {1} \cup {i + 1 : i \in tops}
  <2>1. ASSUME NEW a \in args PROVE a[1] \in {1} \cup {i + 1 : i \in tops}
    <3>1. a[1] = (a[1] - 1) + 1
      BY <1>3
    <3> QED
      BY <1>12, <3>1
  <2>2. \E a \in args : a[1] = 1
    BY <1>1, <1>5
  <2>3. ASSUME NEW i \in tops PROVE \E a \in args : a[1] = i + 1
    <3>1. i + 1 \in 1..n + 1 /\ (i + 1) - 1 = i
      BY <1>1, <1>2
    <3> QED
      BY <1>5, <3>1
  <2> QED
    BY <2>1, <2>2, <2>3
<1>14. {a[2] : a \in args} = {n} \cup {i - 1 : i \in tops}
  <2>1. ASSUME NEW a \in args PROVE a[2] \in {n} \cup {i - 1 : i \in tops}
    <3>1. a[2] = (a[2] + 1) - 1
      BY <1>3
    <3> QED
      BY <1>3, <3>1
  <2>2. \E a \in args : a[2] = n
    BY <1>1, <1>6
  <2>3. ASSUME NEW i \in tops PROVE \E a \in args : a[2] = i - 1
    <3>1. i - 1 \in 0..n /\ (i - 1) + 1 = i
      BY <1>1, <1>2
    <3> QED
      BY <1>6, <3>1
  <2> QED
    BY <2>1, <2>2, <2>3
<1>15. \A a \in args : a[1]..a[2] \cap tops = {}
  BY <1>1, <1>2, <1>3, <1>12
<1>16. all \cap ink = ink \ tops
  <2>1. ASSUME NEW i \in ink, NEW a \in args, i \in T!Arg(text, a) PROVE i \notin tops
    BY <1>1, <1>4, <1>15, <2>1
  <2>2. ASSUME NEW i \in ink, i \notin tops PROVE \E a \in args : i \in T!Arg(text, a)
    BY <1>1, <1>4, <1>8, <2>2
  <2> HIDE DEF ink
  <2> QED
    BY <1>11, <2>1, <2>2
<1> QED
  BY <1>7, <1>10, <1>13, <1>14, <1>15, <1>16

--------------------------------------------------------------------------------
(* Text: the quotes of a command line *)

Open == {"none"} \cup T!Quotes

\* A quote opens a stretch and closes it, and a stretch ends with the quote it
\* began with.
LEMMA QuotesAre ==
  ASSUME NEW Ch, NEW s \in Seq(Ch)
  PROVE  /\ T!QuoteAt(s) \in [0..Len(s) -> Open]
         /\ T!QuoteAt(s)[0] = "none"
         /\ \A k \in 1..Len(s) :
               T!QuoteAt(s)[k] = IF T!QuoteAt(s)[k - 1] = "none" /\ s[k] \in T!Quotes THEN s[k]
                                 ELSE IF s[k] = T!QuoteAt(s)[k - 1] THEN "none" ELSE T!QuoteAt(s)[k - 1]
<1> DEFINE n == Len(s)
           Turns(quote, ch) ==
              IF quote = "none" /\ ch \in T!Quotes THEN ch
              ELSE IF ch = quote THEN "none" ELSE quote
           step == [k \in 1..n |-> [quote \in Open |-> Turns(quote, s[k])]]
           Scan(f) == [k \in 0..n |-> IF k = 0 THEN "none" ELSE Turns(f[k - 1], s[k])]
           run == CHOOSE f : f = Scan(f)
<1>1. T!QuoteAt(s) = run
  BY DEF T!QuoteAt
<1>2. n \in Nat
  BY LenProperties
<1>3. "none" \in Open
  BY DEF Open
<1> HIDE DEF n
<1>4. step \in [1..n -> [Open -> Open]]
  <2>1. \A quote \in Open : \A ch : Turns(quote, ch) \in Open
    BY DEF Open
  <2> HIDE DEF Turns
  <2> QED
    BY <2>1
<1>5. PICK f \in [0..n -> Open] : f[0] = "none" /\ \A k \in 1..n : f[k] = step[k][f[k - 1]]
  <2> HIDE DEF step
  <2>1. Runs(n, Open, "none", step) # {}
    BY <1>2, <1>3, <1>4, RunExists
  <2> QED
    BY <2>1 DEF Runs
<1>6. \A k \in 1..n : k - 1 \in 0..n /\ f[k - 1] \in Open /\ f[k] = Turns(f[k - 1], s[k])
  <2> HIDE DEF Turns
  <2>1. \A k \in 1..n, quote \in Open : step[k][quote] = Turns(quote, s[k])
    OBVIOUS
  <2> HIDE DEF step
  <2>2. \A k \in 1..n : k - 1 \in 0..n /\ f[k - 1] \in Open
    BY <1>2, <1>5
  <2> QED
    BY <1>5, <2>1, <2>2
<1>7. f = Scan(f)
  <2> HIDE DEF Turns, step
  <2> QED
    BY <1>2, <1>5, <1>6
<1>8. run = Scan(run)
  BY <1>7
<1> HIDE DEF run, Turns
<1>9. \A k \in 0..n : run[k] = IF k = 0 THEN "none" ELSE Turns(run[k - 1], s[k])
  BY <1>8
<1>10. run = [k \in 0..n |-> run[k]]
  BY <1>8
<1>11. \A k \in 1..n : k \in 0..n /\ k # 0 /\ (run[k - 1] \in Open => run[k] = step[k][run[k - 1]])
  BY <1>2, <1>9
<1>12. run[0] = "none"
  BY <1>2, <1>9
<1> HIDE DEF step
<1>13. run \in Runs(n, Open, "none", step)
  BY <1>2, <1>3, <1>4, <1>10, <1>11, <1>12, RunIs
<1>14. run \in [0..n -> Open]
  BY <1>13 DEF Runs
<1>15. \A k \in 1..n : run[k] = Turns(run[k - 1], s[k])
  BY <1>9, <1>11
<1> QED
  BY <1>1, <1>12, <1>14, <1>15 DEF n, Turns

Uniform(s) == \A i, j \in 1..Len(s) : s[i] \in T!Quotes /\ s[j] \in T!Quotes => s[i] = s[j]

\* What is inside quotes, by counting them.
Within(s, i) == T!Count(s, T!Quotes, i) % 2 = 1

\* In a line with one kind of quotes, one is inside them after an odd number.
LEMMA WithinIs ==
  ASSUME NEW Ch, NEW s \in Seq(Ch), Uniform(s)
  PROVE  /\ \A k \in 0..Len(s) : T!QuoteAt(s)[k] # "none" <=> Within(s, k + 1)
         /\ \A k \in 1..Len(s) : T!QuoteAt(s)[k] # T!QuoteAt(s)[k - 1] <=> s[k] \in T!Quotes
<1> DEFINE n == Len(s)
           quote == T!QuoteAt(s)
           c(k) == T!Count(s, T!Quotes, k)
           Right(k) == /\ quote[k] # "none" <=> c(k + 1) % 2 = 1
                       /\ quote[k] # "none" => \E i \in 1..k : s[i] = quote[k] /\ s[i] \in T!Quotes
           Q == {k \in Nat : k <= n => Right(k)}
<1>1. n \in Nat
  BY LenProperties
<1>2. /\ quote \in [0..n -> Open] /\ quote[0] = "none"
      /\ \A k \in 1..n : quote[k] = IF quote[k - 1] = "none" /\ s[k] \in T!Quotes THEN s[k]
                                 ELSE IF s[k] = quote[k - 1] THEN "none" ELSE quote[k - 1]
  BY QuotesAre
<1>3. /\ c(1) = 0
      /\ \A k \in Nat \ {0} : c(k) \in Nat /\ c(k + 1) = c(k) + IF s[k] \in T!Quotes THEN 1 ELSE 0
  BY CountStep
<1>4. \A i, j \in 1..n : s[i] \in T!Quotes /\ s[j] \in T!Quotes => s[i] = s[j]
  BY DEF Uniform
<1>5. "none" \notin T!Quotes
  BY DEF T!Quotes
<1> HIDE DEF n, quote, c
<1>6. ASSUME NEW k \in 1..n, quote[k - 1] # "none" => \E i \in 1..k - 1 : s[i] = quote[k - 1] /\ s[i] \in T!Quotes
      PROVE  /\ s[k] \in T!Quotes => quote[k] = IF quote[k - 1] = "none" THEN s[k] ELSE "none"
             /\ s[k] \notin T!Quotes => quote[k] = quote[k - 1]
             /\ quote[k] # quote[k - 1] <=> s[k] \in T!Quotes
  <2>1. quote[k] = IF quote[k - 1] = "none" /\ s[k] \in T!Quotes THEN s[k]
                ELSE IF s[k] = quote[k - 1] THEN "none" ELSE quote[k - 1]
    BY <1>2
  <2>2. CASE quote[k - 1] = "none"
    BY <1>5, <2>1, <2>2
  <2>3. CASE quote[k - 1] # "none"
    <3>1. PICK i \in 1..k - 1 : s[i] = quote[k - 1] /\ s[i] \in T!Quotes
      BY <1>6, <2>3
    <3>2. i \in 1..n
      BY <1>1
    <3>3. s[k] \in T!Quotes => s[k] = quote[k - 1]
      BY <1>4, <3>1, <3>2
    <3> QED
      BY <2>1, <2>3, <3>1, <3>3
  <2> QED
    BY <2>2, <2>3
<1>7. 0 \in Q
  <2>1. c(0 + 1) = 0 /\ 0 % 2 # 1
    BY <1>3
  <2> QED
    BY <1>2, <2>1
<1>8. ASSUME NEW k \in Nat, k \in Q PROVE k + 1 \in Q
  <2> SUFFICES ASSUME k + 1 <= n PROVE Right(k + 1)
    OBVIOUS
  <2> DEFINE j == k + 1
  <2>1. j \in 1..n /\ j - 1 = k /\ j \in Nat \ {0}
    BY <1>1
  <2>2. Right(k)
    BY <1>1, <1>8
  <2>3. /\ quote[k] # "none" <=> c(j) % 2 = 1
        /\ quote[k] # "none" => \E i \in 1..k : s[i] = quote[k] /\ s[i] \in T!Quotes
    BY <2>2
  <2>4. c(j) \in Nat /\ c(j + 1) = c(j) + IF s[j] \in T!Quotes THEN 1 ELSE 0
    BY <1>3, <2>1
  <2>5. \A i \in 1..k : i \in 1..j
    OBVIOUS
  <2> HIDE DEF j
  <2>6. /\ s[j] \in T!Quotes => quote[j] = IF quote[k] = "none" THEN s[j] ELSE "none"
        /\ s[j] \notin T!Quotes => quote[j] = quote[k]
    BY <1>6, <2>1, <2>3
  <2>7. quote[j] # "none" <=> c(j + 1) % 2 = 1
    <3>1. CASE s[j] \in T!Quotes
      <4>1. c(j + 1) = c(j) + 1
        BY <2>4, <3>1
      <4>2. c(j + 1) % 2 = 1 <=> ~(c(j) % 2 = 1)
        BY <2>4, <4>1
      <4> QED
        BY <1>5, <2>3, <2>6, <3>1, <4>2
    <3>2. CASE s[j] \notin T!Quotes
      <4>1. c(j + 1) = c(j)
        BY <2>4, <3>2
      <4> QED
        BY <2>3, <2>6, <3>2, <4>1
    <3> QED
      BY <3>1, <3>2
  <2>8. quote[j] # "none" => \E i \in 1..j : s[i] = quote[j] /\ s[i] \in T!Quotes
    <3>1. j \in 1..j
      BY <2>1
    <3>2. CASE s[j] \in T!Quotes
      BY <2>6, <3>1, <3>2
    <3>3. CASE s[j] \notin T!Quotes
      BY <2>3, <2>5, <2>6, <3>3
    <3> QED
      BY <3>2, <3>3
  <2> QED
    BY <2>7, <2>8 DEF j
<1> HIDE DEF Right
<1>9. \A k \in 0..n : Right(k)
  <2> HIDE DEF Q
  <2>1. \A k \in Nat : k \in Q
    BY <1>7, <1>8, Induction
  <2>2. \A k \in 0..n : k \in Nat /\ k <= n
    BY <1>1
  <2> QED
    BY <2>1, <2>2 DEF Q
<1>10. \A k \in 0..n : quote[k] # "none" <=> c(k + 1) % 2 = 1
  BY <1>9 DEF Right
<1>11. ASSUME NEW k \in 1..n PROVE quote[k] # quote[k - 1] <=> s[k] \in T!Quotes
  <2>1. k - 1 \in 0..n
    BY <1>1
  <2>2. Right(k - 1)
    BY <1>9, <2>1
  <2> QED
    BY <1>6, <2>2 DEF Right
<1> QED
  BY <1>10, <1>11 DEF n, quote, c, Within

--------------------------------------------------------------------------------
(* Text: where a line's output goes, and its words *)

\* A line goes to a file just for an arrow outside quotes, and none is left in it.
LEMMA RedirectIs ==
  ASSUME NEW Ch, NEW s \in Seq(Ch), Uniform(s)
  PROVE  /\ T!SplitRedirect(s).to = "screen" <=>
               \A i \in 1..Len(s) : s[i] = "arrow" => Within(s, i)
         /\ \A i \in T!SplitRedirect(s).line : s[i] = "arrow" => Within(s, i)
<1> DEFINE n == Len(s)
           arrows == T!Arrows(s)
           first == T!Least(arrows, 0)
           split == T!SplitRedirect(s)
<1>1. n \in Nat /\ DOMAIN s = 1..n
  BY LenProperties
<1>2. \A i : i \in arrows <=> i \in 1..n /\ s[i] = "arrow" /\ ~Within(s, i)
  <2>1. \A i \in 1..n : i - 1 \in 0..n /\ (i - 1) + 1 = i
    BY <1>1
  <2>2. \A i \in 1..n : T!QuoteAt(s)[i - 1] # "none" <=> Within(s, i)
    BY <2>1, WithinIs
  <2> QED
    BY <1>1, <2>2 DEF T!Arrows
<1>3. /\ arrows = {} => first = 0
      /\ arrows # {} => first \in arrows /\ \A j \in arrows : first <= j
  <2>1. arrows \in SUBSET Nat
    BY <1>1, <1>2
  <2> HIDE DEF arrows
  <2> QED
    BY <2>1, LeastIs
<1>4. /\ first = 0 => split.line = 1..n /\ split.to = "screen"
      /\ first # 0 => split.line \subseteq 1..first - 1 /\ split.to # "screen"
  BY <1>1 DEF T!SplitRedirect, T!Stripped
<1> HIDE DEF n, first, split, arrows
<1>5. CASE arrows = {}
  BY <1>2, <1>3, <1>4, <1>5 DEF n, split
<1>6. CASE arrows # {}
  <2>1. first \in 1..n /\ first # 0 /\ s[first] = "arrow" /\ ~Within(s, first)
    BY <1>1, <1>2, <1>3, <1>6
  <2>2. \A i \in 1..first - 1 : i \in 1..n /\ ~(first <= i)
    BY <1>1, <2>1
  <2>3. \A i \in 1..first - 1 : s[i] = "arrow" => Within(s, i)
    BY <1>2, <1>3, <1>6, <2>2
  <2> QED
    BY <1>4, <2>1, <2>3 DEF n, split
<1> QED
  BY <1>5, <1>6

\* A space outside quotes.
Apart(s, i) == s[i] = "space" /\ ~Within(s, i)

\* Words and the word that is being read, as far as they hold the positions K:
\* a word has no space outside quotes in it, and between two there is one.
Parted(s, words, word, K) ==
    /\ \A i : (i \in word \/ \E n \in 1..Len(words) : i \in words[n]) <=> i \in K
    /\ \A i, j \in word : \A x \in i..j : ~Apart(s, x)
    /\ \A n \in 1..Len(words) : \A i, j \in words[n] : \A x \in i..j : ~Apart(s, x)
    /\ \A n \in 1..Len(words) : \A i \in words[n], j \in word : \E x \in i..j : Apart(s, x)
    /\ \A n, m \in 1..Len(words) :
          n < m => \A i \in words[n], j \in words[m] : \E x \in i..j : Apart(s, x)

\* The word that was read is one of the words.
LEMMA NextWord ==
  ASSUME NEW s, NEW K, NEW words \in Seq(SUBSET Nat), NEW word \in SUBSET Nat, Parted(s, words, word, K)
  PROVE  /\ Append(words, word) \in Seq(SUBSET Nat)
         /\ Parted(s, Append(words, word), {}, K)
         /\ \A n \in 1..Len(Append(words, word)) :
               Append(words, word)[n] = word \/ \E m \in 1..Len(words) : Append(words, word)[n] = words[m]
<1> DEFINE l == Len(words)
           new == Append(words, word)
<1>1. /\ new \in Seq(SUBSET Nat) /\ Len(new) = l + 1 /\ l \in Nat /\ new[l + 1] = word
      /\ \A n \in 1..l : new[n] = words[n]
  BY AppendProperties, LenProperties
<1>2. \A n : n \in 1..l + 1 <=> n \in 1..l \/ n = l + 1
  BY <1>1
<1>3. /\ \A i : (i \in word \/ \E n \in 1..l : i \in words[n]) <=> i \in K
      /\ \A i, j \in word : \A x \in i..j : ~Apart(s, x)
      /\ \A n \in 1..l : \A i, j \in words[n] : \A x \in i..j : ~Apart(s, x)
      /\ \A n \in 1..l : \A i \in words[n], j \in word : \E x \in i..j : Apart(s, x)
      /\ \A n, m \in 1..l :
            n < m => \A i \in words[n], j \in words[m] : \E x \in i..j : Apart(s, x)
  BY DEF Parted
<1> HIDE DEF l, new
<1>4. \A i : (i \in {} \/ \E n \in 1..Len(new) : i \in new[n]) <=> i \in K
  BY <1>1, <1>2, <1>3
<1>5. \A n \in 1..Len(new) : \A i, j \in new[n] : \A x \in i..j : ~Apart(s, x)
  BY <1>1, <1>2, <1>3
<1>6. ASSUME NEW n \in 1..Len(new), NEW m \in 1..Len(new), n < m, NEW i \in new[n], NEW j \in new[m]
      PROVE  \E x \in i..j : Apart(s, x)
  <2>1. n \in 1..l /\ new[n] = words[n]
    BY <1>1, <1>6
  <2>2. CASE m \in 1..l
    BY <1>1, <1>3, <1>6, <2>1, <2>2
  <2>3. CASE m = l + 1
    BY <1>1, <1>3, <1>6, <2>1, <2>3
  <2> QED
    BY <1>1, <1>2, <2>2, <2>3
<1>7. Parted(s, new, {}, K)
  BY <1>4, <1>5, <1>6 DEF Parted
<1>8. \A n \in 1..Len(new) : new[n] = word \/ \E m \in 1..l : new[n] = words[m]
  BY <1>1, <1>2
<1> QED
  BY <1>1, <1>7, <1>8 DEF new, l

\* What reading words knows after some of the line.
WordStates == [words : Seq(SUBSET Nat), word : SUBSET Nat, have : BOOLEAN]

\* Reading words takes a character at a time.
LEMMA WordsRun ==
  ASSUME NEW Ch, NEW s \in Seq(Ch)
  PROVE  \E run \in [0..Len(s) -> WordStates] :
            /\ run[0] = [words |-> <<>>, word |-> {}, have |-> FALSE]
            /\ \A k \in 1..Len(s) :
                  LET quote == T!QuoteAt(s)
                      st    == run[k - 1]
                  IN run[k] = IF quote[k] # quote[k - 1] THEN [st EXCEPT !.have = TRUE]
                              ELSE IF s[k] # "space" \/ quote[k] # "none" THEN [st EXCEPT !.word = @ \cup {k}]
                              ELSE IF st.have \/ st.word # {}
                                   THEN [words |-> Append(st.words, st.word), word |-> {}, have |-> FALSE]
                              ELSE st
            /\ T!Tokenize(s).closed <=> T!QuoteAt(s)[Len(s)] = "none"
            /\ LET last == run[Len(s)]
               IN T!Tokenize(s).words = IF last.have \/ last.word # {} THEN Append(last.words, last.word)
                                        ELSE last.words
<1> DEFINE n == Len(s)
           S == WordStates
           b == [words |-> <<>>, word |-> {}, have |-> FALSE]
           quote == T!QuoteAt(s)
           Goes(st, k) ==
              IF quote[k] # quote[k - 1] THEN [st EXCEPT !.have = TRUE]
              ELSE IF s[k] # "space" \/ quote[k] # "none" THEN [st EXCEPT !.word = @ \cup {k}]
              ELSE IF st.have \/ st.word # {}
                   THEN [words |-> Append(st.words, st.word), word |-> {}, have |-> FALSE]
              ELSE st
           step == [k \in 1..n |-> [st \in S |-> Goes(st, k)]]
           Scan(f) == [k \in 0..n |-> IF k = 0 THEN b ELSE Goes(f[k - 1], k)]
           run == CHOOSE f : f = Scan(f)
<1>1. /\ T!Tokenize(s).closed <=> quote[n] = "none"
      /\ T!Tokenize(s).words = IF run[n].have \/ run[n].word # {} THEN Append(run[n].words, run[n].word)
                               ELSE run[n].words
  BY DEF T!Tokenize
<1>2. n \in Nat
  BY LenProperties
<1>3. b \in S
  BY DEF WordStates
<1> HIDE DEF n, quote
<1>4. ASSUME NEW st \in S, NEW k \in 1..n PROVE Goes(st, k) \in S
  <2>1. st.words \in Seq(SUBSET Nat) /\ st.word \in SUBSET Nat /\ st.have \in BOOLEAN
    BY DEF WordStates
  <2>2. Append(st.words, st.word) \in Seq(SUBSET Nat)
    BY <2>1, AppendProperties
  <2>3. st.word \cup {k} \in SUBSET Nat
    BY <1>2, <2>1
  <2>4. [st EXCEPT !.have = TRUE] \in S
    BY DEF WordStates
  <2>5. [st EXCEPT !.word = @ \cup {k}] \in S
    BY <2>3 DEF WordStates
  <2>6. [words |-> Append(st.words, st.word), word |-> {}, have |-> FALSE] \in S
    BY <2>2 DEF WordStates
  <2> HIDE DEF S
  <2> QED
    BY <2>4, <2>5, <2>6
<1> HIDE DEF Goes, b, S
<1>5. step \in [1..n -> [S -> S]]
  BY <1>4
<1>6. PICK f \in [0..n -> S] : f[0] = b /\ \A k \in 1..n : f[k] = step[k][f[k - 1]]
  <2> HIDE DEF step
  <2>1. Runs(n, S, b, step) # {}
    BY <1>2, <1>3, <1>5, RunExists
  <2> QED
    BY <2>1 DEF Runs
<1>7. \A k \in 1..n : k - 1 \in 0..n /\ f[k - 1] \in S /\ f[k] = Goes(f[k - 1], k)
  <2>1. \A k \in 1..n, st \in S : step[k][st] = Goes(st, k)
    OBVIOUS
  <2> HIDE DEF step
  <2>2. \A k \in 1..n : k - 1 \in 0..n /\ f[k - 1] \in S
    BY <1>2, <1>6
  <2> QED
    BY <1>6, <2>1, <2>2
<1>8. f = Scan(f)
  <2> HIDE DEF step
  <2> QED
    BY <1>2, <1>6, <1>7
<1>9. run = Scan(run)
  BY <1>8
<1> HIDE DEF run
<1>10. \A k \in 0..n : run[k] = IF k = 0 THEN b ELSE Goes(run[k - 1], k)
  BY <1>9
<1>11. run = [k \in 0..n |-> run[k]]
  BY <1>9
<1>12. \A k \in 1..n : k \in 0..n /\ k # 0 /\ (run[k - 1] \in S => run[k] = step[k][run[k - 1]])
  BY <1>2, <1>10
<1>13. run[0] = b
  BY <1>2, <1>10
<1> HIDE DEF step
<1>14. run \in Runs(n, S, b, step)
  BY <1>2, <1>3, <1>5, <1>11, <1>12, <1>13, RunIs
<1>15. run \in [0..n -> S]
  BY <1>14 DEF Runs
<1>16. \A k \in 1..n : run[k] = Goes(run[k - 1], k)
  BY <1>10, <1>12
<1> QED
  BY <1>1, <1>13, <1>15, <1>16 DEF n, S, b, quote, Goes

\* The words of a line with one kind of quotes are its text without the quotes,
\* apart where there is a space outside them.
LEMMA WordsAre ==
  ASSUME NEW Ch, NEW s \in Seq(Ch), Uniform(s)
  PROVE  /\ T!Tokenize(s).closed <=> ~Within(s, Len(s) + 1)
         /\ T!Tokenize(s).words \in Seq(SUBSET Nat)
         /\ Parted(s, T!Tokenize(s).words, {},
                   {i \in 1..Len(s) : s[i] \notin T!Quotes /\ ~Apart(s, i)})
<1> DEFINE n == Len(s)
           quote == T!QuoteAt(s)
           K(k) == {i \in 1..k : s[i] \notin T!Quotes /\ ~Apart(s, i)}
           tokens == T!Tokenize(s)
<1>1. n \in Nat
  BY LenProperties
<1>2. PICK run \in [0..n -> WordStates] :
         /\ run[0] = [words |-> <<>>, word |-> {}, have |-> FALSE]
         /\ \A k \in 1..n :
               run[k] = IF quote[k] # quote[k - 1] THEN [run[k - 1] EXCEPT !.have = TRUE]
                        ELSE IF s[k] # "space" \/ quote[k] # "none" THEN [run[k - 1] EXCEPT !.word = @ \cup {k}]
                        ELSE IF run[k - 1].have \/ run[k - 1].word # {}
                             THEN [words |-> Append(run[k - 1].words, run[k - 1].word), word |-> {}, have |-> FALSE]
                        ELSE run[k - 1]
         /\ tokens.closed <=> quote[n] = "none"
         /\ tokens.words = IF run[n].have \/ run[n].word # {} THEN Append(run[n].words, run[n].word)
                           ELSE run[n].words
  BY WordsRun
<1>3. /\ \A k \in 0..n : quote[k] # "none" <=> Within(s, k + 1)
      /\ \A k \in 1..n : quote[k] # quote[k - 1] <=> s[k] \in T!Quotes
  BY WithinIs
<1> HIDE DEF n, quote, tokens
<1>4. "space" \notin T!Quotes
  BY DEF T!Quotes
<1>5. \A k \in 0..n : /\ run[k].words \in Seq(SUBSET Nat) /\ run[k].word \in SUBSET Nat
                      /\ run[k].have \in BOOLEAN
  BY <1>2 DEF WordStates
<1> DEFINE Read(k) ==
              /\ Parted(s, run[k].words, run[k].word, K(k))
              /\ \A i \in run[k].word : i <= k /\ \A x \in i..k : ~Apart(s, x)
              /\ \A m \in 1..Len(run[k].words) : \A i \in run[k].words[m] : i <= k /\ \E x \in i..k : Apart(s, x)
           Q == {k \in Nat : k <= n => Read(k)}
<1>6. 0 \in Q
  <2>1. run[0].words = <<>> /\ run[0].word = {}
    BY <1>2
  <2>2. Len(<<>>) = 0 /\ 1..0 = {} /\ K(0) = {}
    OBVIOUS
  <2>3. Parted(s, <<>>, {}, {})
    BY <2>2 DEF Parted
  <2> HIDE DEF K
  <2> QED
    BY <2>1, <2>2, <2>3
<1>7. ASSUME NEW k \in Nat, k \in Q PROVE k + 1 \in Q
  <2> SUFFICES ASSUME k + 1 <= n PROVE Read(k + 1)
    OBVIOUS
  <2> DEFINE j == k + 1
             words == run[k].words
             word == run[k].word
  <2>1. j \in 1..n /\ j - 1 = k /\ k \in 0..n /\ j \in 0..n
    BY <1>1
  <2>2. Read(k)
    BY <1>1, <1>7
  <2>3. /\ Parted(s, words, word, K(k))
        /\ \A i \in word : i <= k /\ \A x \in i..k : ~Apart(s, x)
        /\ \A m \in 1..Len(words) : \A i \in words[m] : i <= k /\ \E x \in i..k : Apart(s, x)
    BY <2>2
  <2>4. words \in Seq(SUBSET Nat) /\ word \in SUBSET Nat /\ run[k].have \in BOOLEAN
    BY <1>5, <2>1
  <2>5. /\ s[j] \in T!Quotes => run[j].words = words /\ run[j].word = word
        /\ s[j] \notin T!Quotes /\ ~Apart(s, j) => run[j].words = words /\ run[j].word = word \cup {j}
        /\ Apart(s, j) => \/ run[j].words = Append(words, word) /\ run[j].word = {}
                          \/ run[j].words = words /\ run[j].word = word /\ word = {}
    <3>1. /\ quote[j] # quote[k] <=> s[j] \in T!Quotes
          /\ quote[k] # "none" <=> Within(s, j)
      BY <1>3, <2>1
    <3>2. run[j] = IF quote[j] # quote[k] THEN [run[k] EXCEPT !.have = TRUE]
                   ELSE IF s[j] # "space" \/ quote[j] # "none" THEN [run[k] EXCEPT !.word = @ \cup {j}]
                   ELSE IF run[k].have \/ run[k].word # {}
                        THEN [words |-> Append(run[k].words, run[k].word), word |-> {}, have |-> FALSE]
                   ELSE run[k]
      BY <1>2, <2>1
    <3>3. run[k] \in WordStates
      BY <1>2, <2>1
    <3>4. /\ [run[k] EXCEPT !.have = TRUE].words = words /\ [run[k] EXCEPT !.have = TRUE].word = word
          /\ [run[k] EXCEPT !.word = @ \cup {j}].words = words
          /\ [run[k] EXCEPT !.word = @ \cup {j}].word = word \cup {j}
      BY <3>3 DEF WordStates
    <3> HIDE DEF j
    <3>5. CASE s[j] \in T!Quotes
      BY <1>4, <3>1, <3>2, <3>4, <3>5 DEF Apart
    <3>6. CASE s[j] \notin T!Quotes /\ ~Apart(s, j)
      BY <3>1, <3>2, <3>4, <3>6 DEF Apart
    <3>7. CASE Apart(s, j)
      <4>1. s[j] = "space" /\ s[j] \notin T!Quotes /\ quote[j] = "none" /\ quote[j] = quote[k]
        BY <1>4, <3>1, <3>7 DEF Apart
      <4>2. run[j] = IF run[k].have \/ word # {}
                     THEN [words |-> Append(words, word), word |-> {}, have |-> FALSE]
                     ELSE run[k]
        BY <3>2, <4>1
      <4> QED
        BY <3>7, <4>1, <4>2
    <3> QED
      BY <3>5, <3>6, <3>7
  <2>6. \A i : i \in K(j) <=> i \in K(k) \/ (i = j /\ s[j] \notin T!Quotes /\ ~Apart(s, j))
    <3>1. \A i : i \in 1..j <=> i \in 1..k \/ i = j
      BY <2>1
    <3> HIDE DEF j
    <3> QED
      BY <3>1
  <2>7. j \in Nat /\ j = k + 1
    OBVIOUS
  <2> SUFFICES /\ Parted(s, run[j].words, run[j].word, K(j))
               /\ \A i \in run[j].word : i <= j /\ \A x \in i..j : ~Apart(s, x)
               /\ \A m \in 1..Len(run[j].words) : \A i \in run[j].words[m] : i <= j /\ \E x \in i..j : Apart(s, x)
    OBVIOUS
  <2> HIDE DEF j, words, word, K, Read, Q
  <2>8. \A i \in Nat : i <= k => i <= j /\ \A x : x \in i..j <=> x \in i..k \/ x = j
    BY <2>7
  <2>9. \A m \in 1..Len(words) : \A i \in words[m] : i \in Nat
    <3>1. \A m \in 1..Len(words) : words[m] \in SUBSET Nat
      BY <2>4, ElementOfSeq
    <3> QED
      BY <3>1
  <2>10. \A m \in 1..Len(words) : \A i \in words[m] : i <= j /\ \E x \in i..j : Apart(s, x)
    BY <2>3, <2>8, <2>9
  <2>11. CASE s[j] \in T!Quotes
    <3>1. run[j].words = words /\ run[j].word = word /\ ~Apart(s, j)
      BY <1>4, <2>5, <2>11 DEF Apart
    <3>2. K(j) = K(k)
      BY <2>6, <2>11
    <3>3. \A i \in word : i <= j /\ \A x \in i..j : ~Apart(s, x)
      BY <2>3, <2>4, <2>8, <3>1
    <3> QED
      BY <2>3, <2>10, <3>1, <3>2, <3>3
  <2>12. CASE s[j] \notin T!Quotes /\ ~Apart(s, j)
    <3> DEFINE new == word \cup {j}
    <3>1. run[j].words = words /\ run[j].word = new
      BY <2>5, <2>12
    <3>2. \A i \in new : i <= j /\ \A x \in i..j : ~Apart(s, x)
      <4>1. \A x \in j..j : x = j
        BY <2>7
      <4>2. \A i \in word : i <= j /\ \A x \in i..j : ~Apart(s, x)
        BY <2>3, <2>4, <2>8, <2>12
      <4> QED
        BY <2>7, <2>12, <4>1, <4>2
    <3>3. Parted(s, words, new, K(j))
      <4>1. /\ \A i : (i \in word \/ \E m \in 1..Len(words) : i \in words[m]) <=> i \in K(k)
            /\ \A m \in 1..Len(words) : \A i, y \in words[m] : \A x \in i..y : ~Apart(s, x)
            /\ \A m \in 1..Len(words) : \A i \in words[m], y \in word : \E x \in i..y : Apart(s, x)
            /\ \A m, l \in 1..Len(words) :
                  m < l => \A i \in words[m], y \in words[l] : \E x \in i..y : Apart(s, x)
        BY <2>3 DEF Parted
      <4>2. \A i : (i \in new \/ \E m \in 1..Len(words) : i \in words[m]) <=> i \in K(j)
        BY <2>6, <2>12, <4>1
      <4>3. \A i, y \in new : \A x \in i..y : ~Apart(s, x)
        <5>1. \A i, y \in new : i \in Nat /\ y \in Nat /\ y <= j
          BY <2>4, <2>7, <3>2
        <5>2. \A i, y \in new : \A x \in i..y : x \in i..j
          BY <2>7, <5>1
        <5> HIDE DEF new
        <5> QED
          BY <3>2, <5>2
      <4>4. \A m \in 1..Len(words) : \A i \in words[m], y \in new : \E x \in i..y : Apart(s, x)
        BY <2>10, <4>1
      <4> HIDE DEF new
      <4> QED
        BY <4>1, <4>2, <4>3, <4>4 DEF Parted
    <3> HIDE DEF new
    <3> QED
      BY <2>10, <3>1, <3>2, <3>3
  <2>13. CASE Apart(s, j)
    <3>1. K(j) = K(k)
      BY <2>6, <2>13
    <3>2. CASE run[j].words = words /\ run[j].word = word /\ word = {}
      BY <2>3, <2>10, <3>1, <3>2
    <3>3. CASE run[j].words = Append(words, word) /\ run[j].word = {}
      <4>1. /\ Parted(s, Append(words, word), {}, K(k))
            /\ \A l \in 1..Len(Append(words, word)) :
                  Append(words, word)[l] = word \/ \E m \in 1..Len(words) : Append(words, word)[l] = words[m]
        BY <2>3, <2>4, NextWord
      <4>2. \A i \in word : i <= j /\ \E x \in i..j : Apart(s, x)
        <5>1. \A i \in word : i \in Nat /\ i <= k
          BY <2>3, <2>4
        <5>2. \A i \in word : i <= j /\ j \in i..j
          BY <2>7, <5>1
        <5> QED
          BY <2>13, <5>2
      <4>3. \A l \in 1..Len(Append(words, word)) : \A i \in Append(words, word)[l] :
               i <= j /\ \E x \in i..j : Apart(s, x)
        BY <2>10, <4>1, <4>2
      <4> QED
        BY <3>1, <3>3, <4>1, <4>3
    <3> QED
      BY <2>5, <2>13, <3>2, <3>3
  <2> QED
    BY <2>11, <2>12, <2>13
<1> HIDE DEF Read
<1>8. Read(n)
  <2> HIDE DEF Q
  <2>1. n \in Q
    BY <1>1, <1>6, <1>7, Induction
  <2> QED
    BY <1>1, <2>1 DEF Q
<1> HIDE DEF Q, K
<1>9. /\ Parted(s, run[n].words, run[n].word, K(n))
      /\ run[n].words \in Seq(SUBSET Nat) /\ run[n].word \in SUBSET Nat
  BY <1>1, <1>5, <1>8 DEF Read
<1>10. tokens.words \in Seq(SUBSET Nat) /\ Parted(s, tokens.words, {}, K(n))
  <2>1. CASE run[n].have \/ run[n].word # {}
    <3>1. tokens.words = Append(run[n].words, run[n].word)
      BY <1>2, <2>1
    <3>2. /\ Append(run[n].words, run[n].word) \in Seq(SUBSET Nat)
          /\ Parted(s, Append(run[n].words, run[n].word), {}, K(n))
      BY <1>9, NextWord
    <3> QED
      BY <3>1, <3>2
  <2>2. CASE ~(run[n].have \/ run[n].word # {})
    <3>1. tokens.words = run[n].words /\ run[n].word = {}
      BY <1>2, <2>2
    <3> QED
      BY <1>9, <3>1
  <2> QED
    BY <2>1, <2>2
<1>11. tokens.closed <=> ~Within(s, n + 1)
  BY <1>1, <1>2, <1>3
<1> QED
  BY <1>10, <1>11 DEF n, tokens, K

\* A redirect and the words of a line go by the quotes.
LEMMA RedirectsAre ==
  ASSUME NEW Ch, text \in Seq(Ch)
  PROVE  T!RedirectIsOutsideQuotes
<1> DEFINE n == Len(text)
           quotes == {i \in DOMAIN text : text[i] \in T!Quotes}
           split == T!SplitRedirect(text)
           tokens == T!Tokenize(text)
           words == tokens.words
           Inside(i) == T!Count(text, T!Quotes, i) % 2 = 1
           Between(i) == text[i] = "space" /\ ~Inside(i)
<1>1. n \in Nat /\ DOMAIN text = 1..n
  BY LenProperties
<1> SUFFICES ASSUME \A i, j \in quotes : text[i] = text[j]
             PROVE  /\ split.to = "screen" <=> \A i \in DOMAIN text : text[i] = "arrow" => Inside(i)
                    /\ \A i \in split.line : text[i] = "arrow" => Inside(i)
                    /\ tokens.closed <=> ~Inside(n + 1)
                    /\ UNION {words[l] : l \in DOMAIN words} = {i \in DOMAIN text : i \notin quotes /\ ~Between(i)}
                    /\ \A l, m \in DOMAIN words : \A i \in words[l], j \in words[m] :
                          i < j => (l # m <=> \E k \in i..j : Between(k))
  BY DEF T!RedirectIsOutsideQuotes
<1>2. Uniform(text)
  BY <1>1 DEF Uniform
<1>3. \A i : (Inside(i) <=> Within(text, i)) /\ (Between(i) <=> Apart(text, i))
  BY DEF Within, Apart
<1>4. /\ split.to = "screen" <=> \A i \in 1..n : text[i] = "arrow" => Within(text, i)
      /\ \A i \in split.line : text[i] = "arrow" => Within(text, i)
  BY <1>2, RedirectIs
<1>5. /\ tokens.closed <=> ~Within(text, n + 1)
      /\ words \in Seq(SUBSET Nat)
      /\ Parted(text, words, {}, {i \in 1..n : text[i] \notin T!Quotes /\ ~Apart(text, i)})
  BY <1>2, WordsAre
<1>6. \A i \in 1..n : i \in quotes <=> text[i] \in T!Quotes
  BY <1>1
<1> HIDE DEF n, quotes, split, tokens, words, Inside, Between
<1>7. DOMAIN words = 1..Len(words) /\ Len(words) \in Nat /\ \A l \in 1..Len(words) : words[l] \in SUBSET Nat
  BY <1>5, LenProperties, ElementOfSeq
<1>8. /\ \A i : (\E l \in 1..Len(words) : i \in words[l])
                   <=> i \in {x \in 1..n : text[x] \notin T!Quotes /\ ~Apart(text, x)}
      /\ \A l \in 1..Len(words) : \A i, j \in words[l] : \A x \in i..j : ~Apart(text, x)
      /\ \A l, m \in 1..Len(words) :
            l < m => \A i \in words[l], j \in words[m] : \E x \in i..j : Apart(text, x)
  BY <1>5 DEF Parted
<1>9. UNION {words[l] : l \in DOMAIN words} = {i \in DOMAIN text : i \notin quotes /\ ~Between(i)}
  <2>1. \A i : i \in UNION {words[l] : l \in DOMAIN words} <=> \E l \in 1..Len(words) : i \in words[l]
    BY <1>7
  <2> QED
    BY <1>1, <1>3, <1>6, <1>8, <2>1
<1>10. ASSUME NEW l \in DOMAIN words, NEW m \in DOMAIN words, NEW i \in words[l], NEW j \in words[m], i < j
       PROVE  l # m <=> \E k \in i..j : Between(k)
  <2>1. l \in 1..Len(words) /\ m \in 1..Len(words) /\ i \in Nat /\ j \in Nat
    BY <1>7
  <2>2. CASE l = m
    BY <1>3, <1>8, <2>1, <2>2
  <2>3. CASE l < m
    BY <1>3, <1>8, <2>1, <2>3
  <2>4. CASE m < l
    <3>1. \E x \in j..i : Apart(text, x)
      BY <1>8, <2>1, <2>4
    <3>2. j..i = {}
      BY <1>10, <2>1
    <3> QED
      BY <3>1, <3>2
  <2> QED
    BY <1>7, <2>1, <2>2, <2>3, <2>4
<1> QED
  BY <1>1, <1>3, <1>4, <1>5, <1>9, <1>10

--------------------------------------------------------------------------------
(* Text: the invariant *)

\* A text is a sequence of characters.
TextInv == text \in Seq(UNION Alphabets)

\* A text is a sequence of characters throughout.
LEMMA TextIsSound == T!Spec => [](TextInv /\ alphabet \in Alphabets)
<1>1. T!Init => TextInv /\ alphabet \in Alphabets
  BY DEF T!Init, TextInv
<1>2. TextInv /\ alphabet \in Alphabets /\ [T!Next]_(T!vars) => (TextInv /\ alphabet \in Alphabets)'
  <2> SUFFICES ASSUME TextInv, alphabet \in Alphabets, [T!Next]_(T!vars)
               PROVE  TextInv' /\ alphabet' \in Alphabets
    OBVIOUS
  <2>1. CASE T!Next
    <3>1. PICK ch \in alphabet : text' = Append(text, ch)
      BY <2>1 DEF T!Next
    <3>2. ch \in UNION Alphabets
      OBVIOUS
    <3> QED
      BY <2>1, <3>1, <3>2, AppendProperties DEF T!Next, TextInv
  <2>2. CASE UNCHANGED T!vars
    BY <2>2 DEF T!vars, TextInv
  <2> QED
    BY <2>1, <2>2
<1> QED
  BY <1>1, <1>2, PTL DEF T!Spec

\* Comments are stripped where a lexer finds them, an initialiser comes apart at
\* its own commas, and a redirection is taken from outside quotes only, in a text
\* of any length and any characters. (gen_chipdb.py strip_comments, split_args,
\* split_elements; parser.py split_redirect, tokenize)
THEOREM TextsComeApart == T!Spec => []TextIsTakenApart
<1> DEFINE Ch == UNION Alphabets
<1>1. ASSUME TextInv PROVE T!StripIsALexer
  <2>1. T!StripComments(text) = {j \in 1..Len(text) : Stays(text, j)}
    BY <1>1, StripIs DEF TextInv
  <2>2. DOMAIN text = 1..Len(text)
    BY <1>1, LenProperties DEF TextInv
  <2> QED
    BY <2>1, <2>2 DEF T!StripIsALexer, Stays
<1>2. TextInv => TextIsTakenApart
  BY <1>1, PiecesAre, RedirectsAre DEF TextInv, TextIsTakenApart
<1> QED
  BY <1>2, TextIsSound, PTL

===============================================================================
