-------------------------------- MODULE Ports --------------------------------
(***************************************************************************)
(* Port operations on a Link Street switch (cli/mvport.py, with the parts  *)
(* each helper in scripts/lib supplies).                                   *)
(*                                                                         *)
(* One port of one switch, and a command at a time against it, one access  *)
(* to a register after the other; a list of ports is that command once for *)
(* each.  An access can fail as the transport fails (OSError) or as a busy *)
(* window does (CommandError), and a write behind the window that failed   *)
(* may have arrived (module Smi).  What a register holds besides the bits  *)
(* these operations are about stays as it is, and is left out.             *)
(***************************************************************************)
EXTENDS Families

CONSTANTS
    Studied,   \* <<family, port>> pairs looked at
    Codes      \* values of C_Mode looked at

PortsAssumption == Studied \subseteq All \X Nat

VARIABLES
    family, n, cmode, nocpu,           \* the part, the port, its straps
    outside,                           \* on the external bus a PHY that is not the
                                       \* port's answers at the port's number
    detect,                            \* PHYDetect
    force,                             \* ForcedLink and LinkValue
    delay,                             \* the RGMII delay bits
    state,                             \* PortState
    phydown, serdesdown,               \* BMCR power-down of the PHY, the SERDES
    otherdown,                         \* ... and of that other PHY
    page,                              \* register 22 of the SERDES
    ppu, normal,                       \* PPU enable; the NormalSMI bit
    cmd, pc, outcome,
    source, parts, missing,            \* as in Ports.link(), _parts()
    powered,                           \* history: parts given power or deprived of it
    func,                              \* SMI function the PHY was found on
    erred,                             \* history: the read of the port's own PHY failed
    torn                               \* history: a write of register 22 failed

port == <<detect, force, delay, state>>
ends == <<phydown, otherdown, serdesdown, page>>
search == <<func, erred>>
glob == <<ppu, normal>>
strap == <<family, n, cmode, nocpu, outside>>
vars == <<family, n, cmode, nocpu, detect, force, delay, state, phydown, serdesdown,
          page, ppu, normal, cmd, pc, outcome, source, parts, missing, powered, torn,
          outside, otherdown, func, erred>>

-----------------------------------------------------------------------------
\* _routed(): what NormalSMI means depends on a strap.
Routed == normal = nocpu

Windows == ppu \/ ~PpuStops(family)     \* the window answers truthfully

Within  == n \in family.internal
Without == Routed /\ (n \in family.external \/ outside)

PhyAnswers == Windows /\ (Within \/ (n \in family.external /\ Routed))
SerdesAnswers == Windows /\ n \in family.serdes

Mode(d) == family.cmode[cmode][IF d THEN 2 ELSE 1]

LinkVerbs == {"up", "down", "auto"}
Verbs == LinkVerbs \cup {"on", "off", "forwarding", "disabled", "both", "none",
                         "bus on", "bus off", "bus solo", "reset", "probe"}
Busses == [on |-> "bus on", off |-> "bus off", solo |-> "bus solo"]

Fresh ==
    /\ cmd = "auto" /\ pc = "idle" /\ outcome = "ok"
    /\ source = "none" /\ parts = {} /\ missing = {} /\ powered = {} /\ torn = FALSE
    /\ func = "internal" /\ erred = FALSE

TypeOK ==
    /\ <<family, n>> \in Studied /\ cmode \in Codes
    /\ {nocpu, detect, delay, phydown, serdesdown, ppu, normal, torn, outside, otherdown,
        erred} \subseteq BOOLEAN
    /\ func \in {"internal", "external"}
    /\ force \in {"none", "up", "down"} /\ state \in {"disabled", "forwarding"}
    /\ page \in {"copper", "fibre"} /\ cmd \in Verbs
    /\ outcome \in {"ok", "refused", "failed"}
    /\ parts \subseteq {"serdes", "phy"} /\ missing \subseteq {"serdes", "phy"}
    /\ powered \subseteq {"serdes", "phy"}

\* A board with a CPU comes up with its ports disabled and its PHYs and SERDES
\* powered down, for the CPU to see to.
Asleep  == ~nocpu
AtReset == IF nocpu THEN "forwarding" ELSE "disabled"

\* Out of a hardware reset.
Init ==
    /\ \E s \in Studied : family = s[1] /\ n = s[2]
    /\ cmode \in Codes /\ nocpu \in BOOLEAN /\ detect \in BOOLEAN
    /\ force = "none" /\ delay = FALSE /\ page = "copper" /\ ppu = TRUE
    /\ phydown = Asleep /\ serdesdown = Asleep /\ state = AtReset
    /\ normal \in (IF family.extbus = {} THEN BOOLEAN ELSE {~nocpu})
    /\ outside \in (IF family.functions /\ Within THEN BOOLEAN ELSE {FALSE})
    /\ otherdown = FALSE
    /\ Fresh

-----------------------------------------------------------------------------
Goes(p) == pc' = p /\ UNCHANGED outcome
Ends(how) == pc' = "idle" /\ outcome' = how

First(verb) ==
    CASE verb \in LinkVerbs               -> "status"
      [] verb \in {"on", "off"}           -> "detect"
      [] verb \in {"forwarding", "disabled"} -> "state"
      [] verb \in {"both", "none"}        -> "rgmii"
      [] verb \in {"bus on", "bus off", "bus solo"} -> "pins"
      [] verb = "reset"                   -> "reset"
      [] verb = "probe"                   -> "fibre"

Offered == (Verbs \ {"bus on", "bus off", "bus solo"}) \cup {Busses[b] : b \in family.extbus}

Begin ==
    /\ pc = "idle"
    /\ cmd' \in Offered
    /\ Goes("checks")
    /\ source' = "none" /\ parts' = {} /\ missing' = {} /\ powered' = {}
    /\ func' = "internal" /\ erred' = FALSE
    /\ UNCHANGED <<strap, port, ends, glob, torn>>

\* mutant of PpuChecked: the 88E6321's port commands do not ask for the PPU
PpuUnchecked == family.name = "mv6390" /\ cmd = "probe"

\* _switch(), and what the helper's _ports() or _probe() asks of the switch
\* before it lets the command through.
PpuChecked == \/ family.needsPpu /\ cmd \in LinkVerbs \cup {"both", "none", "probe"}
              \/ family.name = "mv6390" /\ cmd = "probe"
Checks ==
    /\ pc = "checks"
    /\ \/ PpuChecked /\ ~ppu /\ Ends("refused")
       \/ cmd \in {"on", "off"} /\ family.needsInit /\ Ends("refused")   \* still initialising
       \/ ~(PpuChecked /\ ~ppu) /\ Goes(First(cmd))
    /\ UNCHANGED <<strap, port, ends, glob, cmd, source, parts, missing, powered, torn, search>>

-----------------------------------------------------------------------------
\* Ports.link()

Status ==
    /\ pc = "status"
    /\ source' = Mode(detect)
    /\ Goes(IF source' \in WantsSerdes THEN "serdes"
            ELSE IF source' \in WantsPhy THEN "phy" ELSE "control")
    /\ UNCHANGED <<strap, port, ends, glob, cmd, parts, missing, powered, torn, search>>

\* _serdes_at(): on the 88E6240 page 1 is selected around the read.
SerdesPage == pc \in {"serdes", "putserdes", "fibre"} /\ family.paged /\ n \in family.serdes
SerdesRead == pc = "serdes" /\ (~SerdesPage \/ page = "fibre")

AfterSerdes == IF source \in WantsPhy THEN "phy" ELSE "put"

SerdesFound ==
    /\ SerdesRead
    /\ IF SerdesAnswers THEN parts' = parts \cup {"serdes"} /\ UNCHANGED missing
       ELSE missing' = missing \cup {"serdes"} /\ UNCHANGED parts
    /\ Goes(IF family.paged /\ n \in family.serdes THEN "unpage" ELSE AfterSerdes)
    /\ UNCHANGED <<strap, port, ends, glob, cmd, source, powered, torn, search>>

\* _serdes_page(): register 22 to page 1 ...
PageSelected ==
    /\ SerdesPage /\ page = "copper"
    /\ page' = "fibre"
    /\ UNCHANGED <<strap, port, phydown, otherdown, serdesdown, glob, cmd, pc, outcome, source,
                   parts, missing, powered, torn, search>>

\* ... and in its finally clause back to 0.
PageBack ==
    /\ pc \in {"unpage", "unpageput", "unpagefailed", "unpageprobe"}
    /\ page' = "copper"
    /\ CASE pc = "unpage"       -> Goes(AfterSerdes)
         [] pc = "unpageput"    -> Goes("put")
         [] pc = "unpageprobe"  -> Ends("ok")
         [] pc = "unpagefailed" -> Ends("failed")
    /\ UNCHANGED <<strap, port, phydown, otherdown, serdesdown, glob, cmd, source, parts, missing,
                   powered, torn, search>>

\* _phy_at().  The 88E6390 has a window for each of its two buses: the internal
\* one is searched first, and if nothing answers there, the external one at the
\* same address.  The others have one window for both.
Answers == Windows /\ IF ~family.functions THEN Within \/ Without
                      ELSE IF pc = "phy" THEN Within ELSE Without

NoPhy == IF family.functions /\ pc = "phy" THEN Goes("phyext") /\ UNCHANGED missing
         ELSE Goes("put") /\ missing' = missing \cup {"phy"}

PhyFound ==
    /\ pc \in {"phy", "phyext"}
    /\ \/ ~Answers /\ NoPhy /\ UNCHANGED <<parts, func>>
       \/ Answers /\ Broadcast(family, n) /\ Ends("refused") /\ UNCHANGED <<parts, missing, func>>
       \/ /\ Answers /\ ~Broadcast(family, n)
          /\ parts' = parts \cup {"phy"} /\ Goes("put") /\ UNCHANGED missing
          /\ func' = IF pc = "phyext" THEN "external" ELSE "internal"
    /\ UNCHANGED <<strap, port, ends, glob, cmd, source, powered, torn, erred>>

\* What was found is not the port's own PHY.
Astray == func = "external" /\ Within

\* mutant of Puts: the parts found are not all powered, only the first
PutsFirst ==
    /\ pc = "put"
    /\ Goes(IF powered # {} THEN "control"
            ELSE IF "serdes" \in parts THEN "putserdes"
            ELSE IF "phy" \in parts THEN "putphy" ELSE "control")
    /\ UNCHANGED <<strap, port, ends, glob, cmd, source, parts, missing, powered, torn, search>>

\* The SERDES first, then the PHY behind it.
Puts ==
    /\ pc = "put"
    /\ Goes(IF "serdes" \in parts \ powered THEN "putserdes"
            ELSE IF "phy" \in parts \ powered THEN "putphy" ELSE "control")
    /\ UNCHANGED <<strap, port, ends, glob, cmd, source, parts, missing, powered, torn, search>>

SerdesWritten ==
    /\ pc = "putserdes" /\ (family.paged => page = "fibre")
    /\ serdesdown' = (cmd = "down")
    /\ powered' = powered \cup {"serdes"}
    /\ Goes(IF family.paged THEN "unpageput" ELSE "put")
    /\ UNCHANGED <<strap, port, phydown, otherdown, page, glob, cmd, source, parts, missing,
                   torn, search>>

\* BMCR of the PHY that was found.
PutPhy == IF Astray THEN otherdown' = (cmd = "down") /\ UNCHANGED phydown
          ELSE phydown' = (cmd = "down") /\ UNCHANGED otherdown

PhyWritten ==
    /\ pc = "putphy"
    /\ PutPhy
    /\ powered' = powered \cup {"phy"}
    /\ Goes("put")
    /\ UNCHANGED <<strap, port, serdesdown, page, glob, cmd, source, parts, missing, torn, search>>

\* The last part of link(): Physical Control, read and perhaps written.
Forces == parts = {} \/ cmd = "auto"
Wanted == IF cmd = "auto" THEN "none" ELSE cmd

Control ==
    /\ pc = "control"
    /\ IF Forces /\ force # Wanted THEN Goes("force") ELSE Ends("ok")
    /\ UNCHANGED <<strap, port, ends, glob, cmd, source, parts, missing, powered, torn, search>>

Force ==
    /\ pc = "force"
    /\ force' = Wanted
    /\ Ends("ok")
    /\ UNCHANGED <<strap, detect, delay, state, ends, glob, cmd, source, parts, missing,
                   powered, torn, search>>

-----------------------------------------------------------------------------
\* Ports.state(), Ports.rgmii() and the helpers' `detect`: one register read,
\* changed and written back.

State ==
    /\ pc = "state"
    /\ state' = cmd /\ Ends("ok")
    /\ UNCHANGED <<strap, detect, force, delay, ends, glob, cmd, source, parts, missing,
                   powered, torn, search>>

\* Not a port with such an interface, or its link is up.
RgmiiRefused ==
    /\ pc = "rgmii"
    /\ Ends("refused")
    /\ UNCHANGED <<strap, port, ends, glob, cmd, source, parts, missing, powered, torn, search>>

Rgmii ==
    /\ pc = "rgmii" /\ n \in family.rgmii
    /\ delay' = (cmd = "both") /\ Ends("ok")
    /\ UNCHANGED <<strap, detect, force, state, ends, glob, cmd, source, parts, missing,
                   powered, torn, search>>

Detect ==
    /\ pc = "detect"
    /\ detect' = (cmd = "on") /\ Ends("ok")
    /\ UNCHANGED <<strap, force, delay, state, ends, glob, cmd, source, parts, missing,
                   powered, torn, search>>

-----------------------------------------------------------------------------
\* _extbus(): the pins first, then the PPU.  The bit to write depends on the
\* strap.
Pins ==
    /\ pc = "pins"
    /\ normal' = ((cmd # "bus off") = nocpu)
    /\ IF family.needsPpu THEN Goes("polling") ELSE Ends("ok")
    /\ UNCHANGED <<strap, port, ends, ppu, cmd, source, parts, missing, powered, torn, search>>

Polling ==
    /\ pc = "polling"
    /\ ppu' = (cmd # "bus solo") /\ Ends("ok")
    /\ UNCHANGED <<strap, port, ends, normal, cmd, source, parts, missing, powered, torn, search>>

\* _reset(): on the 88E6321 a pulse on PHY_RST, then the software reset, which
\* switches the PPU on.  The other two only reset the datapath.
Reset ==
    /\ pc = "reset"
    /\ IF family.needsPpu
       THEN /\ Goes("restart")
            /\ normal' = ~nocpu /\ ppu' = TRUE /\ page' = "copper"
            /\ force' = "none" /\ delay' = FALSE
            /\ phydown' = Asleep /\ serdesdown' = Asleep /\ state' = AtReset
            /\ detect' \in BOOLEAN /\ UNCHANGED otherdown
       ELSE Goes("restart") /\ UNCHANGED <<port, ends, glob>>
    /\ UNCHANGED <<strap, cmd, source, parts, missing, powered, torn, search>>

Restart ==
    /\ pc = "restart"
    /\ IF family.needsPpu THEN ppu' = TRUE /\ detect' \in BOOLEAN ELSE UNCHANGED <<ppu, detect>>
    /\ Ends("ok")
    /\ UNCHANGED <<strap, force, delay, state, ends, normal, cmd, source, parts, missing,
                   powered, torn, search>>

\* _probe(): reads, except for _probe_fiber() of the 88E6240.
Probe ==
    /\ pc = "fibre" /\ (SerdesPage => page = "fibre")
    /\ IF SerdesPage THEN Goes("unpageprobe") \/ Goes("unpagefailed") ELSE Ends("ok")
    /\ UNCHANGED <<strap, port, ends, glob, cmd, source, parts, missing, powered, torn, search>>

-----------------------------------------------------------------------------
\* Failures.

\* A read that finds out what is there: _phy_at() and _serdes_at() take an
\* OSError for an absence, on the 88E6390 a CommandError as well, and go on as
\* if nothing had answered.
PhyLookupFails ==
    /\ pc \in {"phy", "phyext"}
    /\ \/ NoPhy
       \/ ~family.functions /\ Ends("failed") /\ UNCHANGED missing    \* the window stayed busy
    /\ erred' = (erred \/ pc = "phy")
    /\ UNCHANGED <<strap, port, ends, glob, cmd, source, parts, powered, torn, func>>

SerdesLookupFails ==
    /\ SerdesRead
    /\ \/ /\ missing' = missing \cup {"serdes"}
          /\ Goes(IF SerdesPage THEN "unpage" ELSE AfterSerdes)
       \/ /\ ~family.functions /\ UNCHANGED missing
          /\ IF SerdesPage THEN Goes("unpagefailed") ELSE Ends("failed")
    /\ UNCHANGED <<strap, port, ends, glob, cmd, source, parts, powered, torn, search>>

\* A write of register 22 fails.  Selecting is not covered by the finally of
\* _serdes_page(), but it is by that of _probe_fiber().
PageFails ==
    /\ torn' = TRUE
    /\ \/ /\ SerdesPage /\ page = "copper"
          /\ page' \in {"copper", "fibre"}
          /\ \/ /\ pc = "serdes" /\ missing' = missing \cup {"serdes"} /\ Goes(AfterSerdes)
             \/ /\ pc \in {"serdes", "putserdes"} /\ Ends("failed") /\ UNCHANGED missing
             \/ /\ pc = "fibre" /\ Goes("unpagefailed") /\ UNCHANGED missing
       \/ /\ pc \in {"unpage", "unpageput", "unpagefailed", "unpageprobe"}
          /\ page' \in {"copper", page}
          /\ \/ /\ pc = "unpage" /\ missing' = missing \cup {"serdes"} /\ Goes(AfterSerdes)
             \/ /\ Ends("failed") /\ UNCHANGED missing
    /\ parts' = parts \ missing'
    /\ UNCHANGED <<strap, port, phydown, otherdown, serdesdown, glob, cmd, source, powered, search>>

\* mutant of PutFails: no finally clause around the write
PutFailsPaged ==
    /\ \/ /\ pc = "putserdes" /\ (family.paged => page = "fibre")
          /\ serdesdown' \in {serdesdown, cmd = "down"} /\ UNCHANGED <<phydown, otherdown>>
       \/ /\ pc = "putphy" /\ UNCHANGED serdesdown
          /\ PutPhy \/ UNCHANGED <<phydown, otherdown>>
    /\ Ends("failed")
    /\ UNCHANGED <<strap, port, page, glob, cmd, source, parts, missing, powered, torn, search>>

\* A power write fails; it may have arrived.
PutFails ==
    /\ \/ /\ pc = "putserdes" /\ (family.paged => page = "fibre")
          /\ serdesdown' \in {serdesdown, cmd = "down"} /\ UNCHANGED <<phydown, otherdown>>
          /\ IF family.paged THEN Goes("unpagefailed") ELSE Ends("failed")
       \/ /\ pc = "putphy" /\ UNCHANGED serdesdown
          /\ PutPhy \/ UNCHANGED <<phydown, otherdown>>
          /\ Ends("failed")
    /\ UNCHANGED <<strap, port, page, glob, cmd, source, parts, missing, powered, torn, search>>

\* Any other access fails and ends the command; a write to a register of the
\* switch may have arrived.
AccessFails ==
    /\ pc \in {"checks", "status", "control", "force", "state", "rgmii", "detect", "pins",
               "polling", "reset", "restart"}
    /\ Ends("failed")
    /\ force' \in (IF pc = "force" THEN {force, Wanted} ELSE {force})
    /\ normal' \in (IF pc = "pins" THEN {normal, (cmd # "bus off") = nocpu} ELSE {normal})
    /\ ppu' \in (IF pc = "polling" THEN {ppu, cmd # "bus solo"} ELSE {ppu})
    /\ UNCHANGED <<strap, detect, delay, state, ends, cmd, source, parts, missing, powered,
                   torn, search>>

Next ==
    \/ Begin \/ Checks
    \/ Status \/ PageSelected \/ SerdesFound \/ PageBack \/ PhyFound
    \/ Puts \/ SerdesWritten \/ PhyWritten \/ Control \/ Force
    \/ State \/ RgmiiRefused \/ Rgmii \/ Detect
    \/ Pins \/ Polling \/ Reset \/ Restart \/ Probe
    \/ PhyLookupFails \/ SerdesLookupFails \/ PageFails \/ PutFails \/ AccessFails

Spec == Init /\ [][Next]_vars

-----------------------------------------------------------------------------
Path == (IF source \in WantsSerdes THEN {"serdes"} ELSE {})
        \cup (IF source \in WantsPhy THEN {"phy"} ELSE {})

\* `up` and `down` that end well, with nothing reported missing, have brought
\* everything in the port's path to that state, and forced the MAC's link where
\* there is nothing in it; `auto` leaves nothing forced (Ports.link).  With one
\* exception: where the read of an 88E6390's internal PHY fails and a PHY of the
\* external bus answers at its address, it is that one (_phy_at).
LinkDoesWhatItSays ==
    pc = "idle" /\ outcome = "ok" =>
        /\ cmd \in {"up", "down"} /\ missing = {} =>
             /\ "serdes" \in Path => serdesdown = (cmd = "down")
             /\ "phy" \in Path =>
                  IF erred /\ outside THEN otherdown = (cmd = "down")
                  ELSE phydown = (cmd = "down")
             /\ Path = {} => force = cmd
        /\ cmd = "auto" => force = "none"

\* Between commands the 88E6240's SERDES is on page 0, so that a plain read of
\* it means what it says: whatever else fails, its page is put back, unless
\* that very write, or the one that selects the page, was among the failures
\* (_serdes_page, _probe_fiber).
SerdesPageIsBack == pc = "idle" /\ ~torn => page = "copper"

\* One command acts on one layer.  It never forces the MAC's link of a port
\* whose PHY or SERDES it has just written, and forces one only while silence
\* means that there is nothing: not with the PPU stopped, when the window
\* answers all ones for a PHY that is there.  It never writes to a PHY that the
\* port does not take its link from, or to one at the broadcast address of the
\* external bus; and to the PHY of another port only on an 88E6390, where the
\* read of the port's own has failed before in the same command (Ports.link,
\* the helpers' _ports and _phy_at, refuse_broadcast).
OneLayer ==
    [][/\ pc = "force" /\ force' # force /\ cmd # "auto" => powered = {} /\ Windows
       /\ <<phydown, otherdown>>' # <<phydown, otherdown>> /\ pc = "putphy"
             => "phy" \in Path /\ ~Broadcast(family, n)
       /\ otherdown' # otherdown => erred /\ family.functions /\ pc = "putphy"
       /\ pc = "putserdes" /\ serdesdown' # serdesdown => "serdes" \in Path]_vars

\* What _phy_at of the 88E6390 says it returns, and `up` and `down` then write to: the
\* PHY that belongs to the port, which for ports 1-8 is an internal one.
PhyBelongsToThePort == "phy" \in parts => ~Astray

\* What the comment of Ports.link says: on a port that has a PHY or a SERDES
\* in its path a force is only ever cleared, never added.
Has == {part \in Path : IF part = "phy" THEN PhyAnswers ELSE SerdesAnswers}
ForceIsNeverAdded ==
    [][pc = "force" /\ force' # force /\ cmd # "auto" => Has = {}]_vars
=============================================================================
