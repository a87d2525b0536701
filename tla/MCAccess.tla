------------------------------- MODULE MCAccess -------------------------------
\* Three layers of register access, each on its own: the switch's two units
\* (Smi; calls of both clauses, and calls of one clause among accesses of the
\* scratch space), the addressing modes on top of any bus (Modes), and the
\* operations of a port that are made of such accesses (Ports).
EXTENDS Smi

CONSTANTS Numbers, Studied, Codes

VARIABLES layer, maker, behind, page, ext, devad, address, dataport, command, next, reached,
          failed, spoilt,
          family, number, cmode, nocpu, detect, force, delay, state, phydown, serdesdown, side,
          ppu, normal, verb, pc, outcome, source, parts, missing, powered, torn,
          outside, otherdown, func, erred

mvars == <<maker, behind, page, ext, devad, address, dataport, command, next, reached,
           failed, spoilt>>
pvars == <<family, number, cmode, nocpu, detect, force, delay, state, phydown, serdesdown,
           side, ppu, normal, verb, pc, outcome, source, parts, missing, powered, torn,
           outside, otherdown, func, erred>>

M == INSTANCE Modes WITH kind <- maker, cmd <- command, at <- next
P == INSTANCE Ports WITH n <- number, page <- side, cmd <- verb

F == INSTANCE Families

\* The ports of each family that differ in what can be in their path, and one
\* C_Mode of each kind.
MCStudied ==
    {<<F!Mv6321, 0>>, <<F!Mv6321, 3>>, <<F!Mv6321, 5>>,
     <<F!Mv6240, 0>>, <<F!Mv6240, 4>>, <<F!Mv6240, 5>>,
     <<F!Mv6390, 0>>, <<F!Mv6390, 3>>, <<F!Mv6390, 9>>}
MCCodes == {7, 9, 10, 15}

Some(S) == CHOOSE x \in S : TRUE

ASSUME ModesFit == M!ModesAssumption
ASSUME PortsFit == P!PortsAssumption

ScratchOps == {"scratch_read", "scratch_write"}

\* Whichever layer is not looked at stays as it starts.
MCInit ==
    /\ layer \in {"window", "scratch", "modes", "ports"}
    /\ layer \in {"modes", "ports"} => multi = FALSE /\ latch = Some(Serdes)
    /\ Init
    /\ layer # "modes" =>
          /\ maker = "realtek" /\ behind = FALSE /\ ext = Some(Numbers)
          /\ devad = ext /\ address = ext /\ command = [mode |-> "plain", n |-> ext, r |-> ext]
    /\ M!Init
    /\ layer # "ports" =>
          /\ family = Some(Studied)[1] /\ number = Some(Studied)[2] /\ cmode = Some(Codes)
          /\ nocpu = FALSE /\ detect = FALSE /\ normal = TRUE /\ outside = FALSE
    /\ P!Init

MCUnits ==
    /\ layer \in {"window", "scratch"}
    /\ Next /\ UNCHANGED <<layer, mvars, pvars>>
    /\ call' \in [window  |-> {c \in Calls : c.op \notin ScratchOps} \cup {call},
                  scratch |-> {c \in Calls : c.op \in ScratchOps \cup {"phy_read", "phy_write"}}][layer]

MCModes == layer = "modes" /\ M!Next /\ UNCHANGED <<layer, vars, pvars>>
MCPorts == layer = "ports" /\ P!Next /\ UNCHANGED <<layer, vars, mvars>>

MCNext == MCUnits \/ MCModes \/ MCPorts

MCSpec == MCInit /\ [][MCNext]_<<layer, vars, mvars, pvars>>

\* As in Modes: an access comes out at the register its command names, an MMD
\* access if no page was left selected, and a failed access does not leave the
\* extension space open.
IndirectAccessIsExact == M!IndirectAccessIsExact
ExtensionIsClosed     == M!ExtensionIsClosed

\* As in Ports: a command that ends well did what it says, on one layer, and a
\* SERDES page is put back.
LinkDoesWhatItSays == P!LinkDoesWhatItSays
SerdesPageIsBack   == P!SerdesPageIsBack
OneLayer           == P!OneLayer
PhyBelongsToThePort == P!PhyBelongsToThePort
===============================================================================
