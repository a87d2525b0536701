------------------------------- MODULE Families -------------------------------
(***************************************************************************)
(* What differs between the three Link Street families: the tables at the  *)
(* head of scripts/lib/mv6321.py, mv6240.py and mv6390.py, and what each   *)
(* checks before it lets a port operation run.                             *)
(***************************************************************************)
EXTENDS Integers, Sequences

\* Where a port's link comes from, by its mode; the pair is for PHYDetect
\* clear and set (mvport's "Interface Configuration Matrix").
Both(s)  == <<s, s>>
Reserved == Both("none")     \* Ports.mode() of an entry that is None
Xmii     == <<"px_enable", "ppu">>

Common == [c \in 0..15 |->
    CASE c \in {0, 1}        -> Both("px_enable")
      [] c \in {2, 3, 4, 5, 7} -> Xmii
      [] c = 9               -> Both("serdes")
      [] c = 10              -> Both("serdes+ppu")
      [] c = 15              -> Both("phy")
      [] OTHER               -> Reserved]

Cmode6321 == [Common EXCEPT ![8] = Both("serdes")]
Cmode6240 == [Common EXCEPT ![0] = Reserved, ![8] = Both("serdes")]
Cmode6390 == [Common EXCEPT ![3] = Both("cpu"), ![11] = Both("serdes"),
                            ![12] = Both("serdes"), ![13] = Both("serdes")]

WantsPhy    == {"phy", "ppu", "serdes+ppu"}
WantsSerdes == {"serdes", "serdes+ppu"}

Mv6321 == [name |-> "mv6321", count |-> 7, cmode |-> Cmode6321,
    internal |-> {3, 4}, external |-> {0, 1, 2, 5, 6}, serdes |-> {0, 1}, rgmii |-> {2, 5, 6},
    paged |-> FALSE,        \* the SERDES comes up on its fibre page
    functions |-> FALSE,    \* one window for both buses
    needsPpu |-> TRUE,      \* _ports() looks before up, down, auto and rgmii
    needsInit |-> TRUE,     \* ... and before detect
    extbus |-> {"on", "off", "solo"}]

Mv6240 == [name |-> "mv6240", count |-> 7, cmode |-> Cmode6240,
    internal |-> 0..4, external |-> {5, 6}, serdes |-> {4, 5}, rgmii |-> {5, 6},
    paged |-> TRUE, functions |-> FALSE, needsPpu |-> FALSE, needsInit |-> FALSE,
    extbus |-> {}]

Mv6390 == [name |-> "mv6390", count |-> 11, cmode |-> Cmode6390,
    internal |-> 1..8, external |-> {0, 9, 10}, serdes |-> {9, 10}, rgmii |-> {0},
    paged |-> FALSE, functions |-> TRUE, needsPpu |-> FALSE, needsInit |-> TRUE,
    extbus |-> {"on", "off"}]

All == {Mv6321, Mv6240, Mv6390}

\* The window lies instead of failing while the PPU is stopped; only a part
\* whose PPU can be stopped has a state in which it does.
PpuStops(f) == f.name # "mv6240"

\* refuse_broadcast(): a PHY at address 0 of the external bus.
Broadcast(f, n) == n = 0 /\ n \in f.external
=============================================================================
