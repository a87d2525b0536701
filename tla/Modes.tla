-------------------------------- MODULE Modes --------------------------------
(***************************************************************************)
(* The addressing modes of cli/access.py: registers of a PHY that are not  *)
(* reached by their number, each mode a short sequence of ordinary         *)
(* accesses on a bus that is given.                                        *)
(*                                                                         *)
(* A mode leaves the part's selectors where its last write put them, and   *)
(* the next command, in whatever mode, starts from there.  An access of    *)
(* the bus can fail; behind a switch a write that failed may have arrived  *)
(* all the same (module Smi).  What is checked is which register an access *)
(* came out at, so registers have no values here.                          *)
(***************************************************************************)
EXTENDS Integers, Sequences

CONSTANTS Numbers   \* of registers, pages but 0 and 7, device addresses

Kinds  == {"realtek", "marvell", "broadcom"}
Schemes == [realtek  |-> {"plain", "page", "extpage", "mmd"},
            marvell  |-> {"plain", "mvpage", "mmd"},
            broadcom |-> {"plain", "window", "mmd"}]
Extension == "extension"    \* page 7, ExtPage.EXTENSION
NoPage    == "none"         \* page 0: the registers as they are without pages
MmdData   == "0x0E"         \* Mmd.DATA

ModesAssumption == Numbers \cap {Extension, NoPage} = {}

Cell(space, n, r) == <<space, n, r>>

VARIABLES
    kind,      \* whose part it is
    behind,    \* the bus goes through a switch
    page,      \* register 0x1F, or 22 on a Marvell part
    ext,       \* register 0x1E
    devad, address, dataport,   \* what 0x0D and 0x0E were given
    cmd,       \* the command being carried out
    at,        \* its next access, 0 between commands
    reached,   \* the register its last data access came out at
    failed,    \* a data access of it failed
    spoilt     \* history: an extpage access lost a write of its own, or the
               \* caller asked for page 7 by its number, since 0x1F was last
               \* written otherwise

part == <<page, ext, devad, address, dataport>>
vars == <<kind, behind, page, ext, devad, address, dataport, cmd, at, reached,
          failed, spoilt>>

-----------------------------------------------------------------------------
\* Accesses of the bus: a write to one of the selecting registers, or the
\* access the command is about.
Set(what, v) == [set |-> what, v |-> v]
Data         == [set |-> "data", v |-> NoPage]

\* What each mode sends before and including its data access.
Paged(p)   == <<Set("page", p), Data>>
ExtPage(p) == <<Set("page", Extension), Set("ext", p), Data>>

\* mutant of Mmd: the device address is not written first, so that 0x0E may
\* still be the data port
MmdShort(d, r) == <<Set("address", r), Set("dataport", d), Data>>

Mmd(d, r)  == <<Set("devad", d), Set("address", r), Set("dataport", d), Data>>
Window(r)  == <<Set("ext", r), Data>>

Wrap(c) == [plain |-> <<Data>>, page |-> Paged(c.n), mvpage |-> Paged(c.n),
            extpage |-> ExtPage(c.n), mmd |-> Mmd(c.n, c.r), window |-> Window(c.r)][c.mode]

\* mutant of Releases: no finally clause
ReleasesNever(c) == FALSE

\* ExtPage._release(), the write in its finally clause.
Releases(c) == c.mode = "extpage"

\* What register 0x1F selects at one of its values, ext being that of 0x1E.
Selected(p, r) == IF p = NoPage THEN Cell("plain", NoPage, r)
                  ELSE IF p = Extension THEN Cell("extpage", ext, r)
                  ELSE Cell("page", p, r)

\* The register a command means.
Wanted(c) == IF c.mode \in {"page", "mvpage"} THEN Selected(c.n, c.r)
             ELSE Cell(c.mode, IF c.mode \in {"plain", "window"} THEN NoPage ELSE c.n, c.r)

\* 0x0D and 0x0E are ordinary registers: while a page is selected, or the
\* extension space, other registers answer at their numbers.
Unpaged == page = NoPage

\* The register its data access comes out at, by the part's selectors.
Reaches(c) ==
    IF c.mode = "mmd" THEN
        IF ~Unpaged THEN Selected(page, MmdData)
        ELSE IF dataport THEN Cell("mmd", devad, address) ELSE Cell("latch", NoPage, address)
    ELSE IF c.mode = "window" THEN Cell("window", NoPage, ext)
    ELSE Selected(page, c.r)

Applied(a) ==
    /\ page' = IF a.set = "page" THEN a.v ELSE page
    /\ ext' = IF a.set = "ext" THEN a.v ELSE ext
    /\ devad' = IF Unpaged /\ a.set \in {"devad", "dataport"} THEN a.v ELSE devad
    /\ address' = IF Unpaged /\ a.set = "address" /\ ~dataport THEN a.v ELSE address
    /\ dataport' = IF Unpaged /\ a.set = "devad" THEN FALSE
                   ELSE IF Unpaged /\ a.set = "dataport" THEN TRUE ELSE dataport

Closes(a) == a.set = "page" /\ a.v # Extension

Commands == [mode : Schemes[kind], n : Numbers, r : Numbers]
    \cup [mode : Schemes[kind] \cap {"page", "mvpage"}, n : {NoPage}, r : Numbers]
    \cup [mode : Schemes[kind] \cap {"page"}, n : {Extension}, r : Numbers]

TypeOK ==
    /\ kind \in Kinds /\ behind \in BOOLEAN
    /\ page \in Numbers \cup {NoPage, Extension}
    /\ ext \in Numbers /\ devad \in Numbers /\ address \in Numbers
    /\ dataport \in BOOLEAN /\ failed \in BOOLEAN /\ spoilt \in BOOLEAN
    /\ cmd \in Commands
    /\ at \in 0..5

Init ==
    /\ kind \in Kinds /\ behind \in BOOLEAN
    /\ page = NoPage /\ ext \in Numbers /\ devad \in Numbers /\ address \in Numbers
    /\ dataport = FALSE /\ failed = FALSE /\ spoilt = FALSE
    /\ cmd \in [mode : {"plain"}, n : Numbers, r : Numbers]
    /\ at = 0 /\ reached = Wanted(cmd)

-----------------------------------------------------------------------------
Starts ==
    /\ at = 0
    /\ \E c \in Commands : cmd' = c
    /\ at' = 1 /\ failed' = FALSE
    /\ UNCHANGED <<kind, behind, part, reached, spoilt>>

Current == Wrap(cmd)[at]
Armed   == at = Len(Wrap(cmd))

\* A selecting write arrives.
Selects ==
    /\ at \in 1..Len(Wrap(cmd)) /\ ~Armed
    /\ Applied(Current)
    /\ spoilt' = ((spoilt /\ ~Closes(Current)) \/ cmd.n = Extension)
    /\ at' = at + 1
    /\ UNCHANGED <<kind, behind, cmd, reached, failed>>

\* The access the command is about; then the finally clause, if it has one.
Accesses ==
    /\ at \in 1..Len(Wrap(cmd)) /\ Armed
    /\ \/ reached' = Reaches(cmd) /\ failed' = FALSE
       \/ reached' = reached /\ failed' = TRUE
    /\ at' = IF Releases(cmd) THEN at + 1 ELSE 0
    /\ UNCHANGED <<kind, behind, part, cmd, spoilt>>

\* An OSError out of a selecting write: nothing of the mode catches it there.
SelectFails ==
    /\ at \in 1..Len(Wrap(cmd)) /\ ~Armed
    /\ \/ behind /\ Applied(Current)
       \/ UNCHANGED part
    /\ spoilt' = (spoilt \/ cmd.mode = "extpage" \/ cmd.n = Extension)
    /\ at' = 0 /\ failed' = TRUE
    /\ UNCHANGED <<kind, behind, cmd, reached>>

\* The release; one that fails is passed over in silence.
Release ==
    /\ at > Len(Wrap(cmd))
    /\ \/ Applied(Set("page", NoPage)) /\ spoilt' = FALSE
       \/ UNCHANGED part /\ spoilt' = TRUE
    /\ at' = 0
    /\ UNCHANGED <<kind, behind, cmd, reached, failed>>

Next == Starts \/ Selects \/ Accesses \/ SelectFails \/ Release
Spec == Init /\ [][Next]_vars

-----------------------------------------------------------------------------
\* A data access in any indirect mode comes out at the register the command
\* names, whichever mode was used before it and wherever that one broke off;
\* but an MMD access only where no page and no extension space was left
\* selected: Mmd, unlike the other modes, does not write 0x1F itself.
IndirectAccessIsExact ==
    [][reached' # reached /\ cmd.mode # "plain" /\ (cmd.mode = "mmd" => Unpaged)
          => reached' = Wanted(cmd)]_vars

\* A plain access never comes out in the extension space, unless the caller
\* selected that as a page, or an extpage access before it lost one of its own
\* writes: a data access that fails does not leave the space selected (the
\* finally of ExtPage.read and write).
ExtensionIsClosed == at = 0 /\ page = Extension => spoilt

\* What the comment of ExtPage says, without that exception: it puts 0x1F
\* back to 0 afterwards.
ExtPageIsPutBack == at = 0 => page # Extension
=============================================================================
