------------------------------- MODULE Identify -------------------------------
(* Naming what answers on the bus: the table scripts/gen_chipdb.py makes of the *)
(* kernel's PHY drivers, the lookups in it, and the reading of an identifier by *)
(* the chip helpers, by `probe` and by `probe mmd` while the target's rail      *)
(* blinks. A number is the set of its bits; register 2 has the upper half of an *)
(* identifier's, register 3 the lower one.                                      *)
EXTENDS Integers, Sequences, FiniteSetsExt, Functions

CONSTANTS
    Width,              \* bits of an identifier
    Half, Model, Vendor,\* the lowest bit of register 2, of a model, of a vendor
    Sources,            \* what the kernel may be: sequences of driver elements
    Idents              \* identifiers of parts

VARIABLES
    drivers,    \* the kernel's driver elements, in source order
    table,      \* what the generator makes of them: chipdb().PHY
    asking,     \* who asks: "identify" (a helper), "probe" or "mmd"
    part,       \* what is at the address
    rail,       \* the target's rail is known
    at,         \* "reg2" "reg3" "sleep" "reg0" "done"
    tries,      \* identify()'s
    high,       \* register 2 as read
    answer      \* what is said of the address

vars == <<drivers, table, asking, part, rail, at, tries, high, answer>>

Ones    == 0..Width - 1
None    == {-1}     \* a number that did not resolve
NoName  == -1       \* names are numbers for their place in the order of names

\* A part that answers, one that answers register 0 only (a switch in multi-chip
\* mode), one whose page reads as zeros, an idle address that reads as ones, and
\* one where every read fails.
Parts == [kind : {"phy"}, id : Idents] \cup [kind : {"mute", "paged", "idle", "dead"}, id : {{}}]

\* An element of a driver table: the macro it matches by, or "own" and a mask of
\* its own; its identifier; its name. Any of these may not be there, or not resolve.
Numbers  == (SUBSET Ones) \cup {None}
Elements == [by : {"EXACT", "MODEL", "VENDOR", "own"}, mask : Numbers, id : Numbers, name : Nat \cup {NoName}]

\* No part has an identifier of nothing but ones, or nothing but zeros.
IdentifyAssumption ==
    /\ {Width, Model, Vendor} \subseteq Nat /\ Half \in 0..Width
    /\ Sources \subseteq Seq(Elements) /\ Idents \subseteq (SUBSET Ones) \ {{}, Ones}

--------------------------------------------------------------------------------
(* The table *)

Masks == [EXACT |-> Ones, MODEL |-> Model..Width - 1, VENDOR |-> Vendor..Width - 1]

MaskOf(e) == IF e.by = "own" THEN e.mask ELSE Masks[e.by]

\* parse_phy_element(): elements without an identifier, a mask or a name are
\* left out, and so is the one that stands for no part.
Recorded(e) ==
    /\ e.id # None /\ MaskOf(e) # None /\ e.name # NoName
    /\ ~(e.id = Ones /\ MaskOf(e) = Ones)

Record(e) == [id |-> e.id, mask |-> MaskOf(e), name |-> e.name]

\* write_module(): sorted by identifier, mask and name.
Below(m, n) == \E b \in n \ m : \A c \in m \ n : c < b

Earlier(e, f) ==
    \/ Below(e.id, f.id)
    \/ e.id = f.id /\ Below(e.mask, f.mask)
    \/ e.id = f.id /\ e.mask = f.mask /\ e.name < f.name

Tables ==
    LET known == {i \in DOMAIN drivers : Recorded(drivers[i])}
        size  == Cardinality(known)
        IsSorted(t) == \A j, k \in 1..size : j < k => ~Earlier(t[k], t[j])
    IN {t \in {[k \in 1..size |-> Record(drivers[p[k]])] : p \in Bijection(1..size, known)} : IsSorted(t)}

Fits(ident, e) == SymDiff(ident, e.id) \cap e.mask = {}

Nobody == [id |-> {}, mask |-> None, name |-> NoName]
MaskBits(e) == IF e = Nobody THEN -1 ELSE Cardinality(e.mask)

Better(e, best) == MaskBits(e) > MaskBits(best)

\* lookup_phy(): the first of the records that fit with the most bits.
LookupPhy(ident) ==
    LET best[k \in 0..Len(table)] ==
            IF k = 0 THEN Nobody
            ELSE IF Fits(ident, table[k]) /\ Better(table[k], best[k - 1]) THEN table[k]
            ELSE best[k - 1]
    IN best[Len(table)].name

--------------------------------------------------------------------------------
(* Reading registers 2, 3 and 0 *)

\* What a read fails with, if it fails, and what it reads if it does not.
Error(reg) ==
    CASE ~rail -> "no_rail"
      [] rail /\ (part.kind = "dead" \/ (part.kind = "mute" /\ reg # 0)) -> "no_answer"
      [] OTHER -> "none"

Fails(reg) == Error(reg) # "none"

Field(reg) == IF reg = 2 THEN Half..Width - 1 ELSE 0..Half - 1
Reads(reg) ==
    CASE part.kind = "idle"           -> Field(reg)
      [] part.kind = "phy" /\ reg # 0 -> part.id \cap Field(reg)
      [] OTHER                        -> {}

Plain(what)  == [what |-> what, id |-> {}, name |-> NoName]
Named(ident) == [what |-> "part", id |-> ident, name |-> LookupPhy(ident)]

Init ==
    /\ drivers \in Sources /\ table \in Tables /\ asking \in {"identify", "probe", "mmd"}
    /\ part \in Parts /\ rail = TRUE
    /\ at = "reg2" /\ tries = 3 /\ high = {} /\ answer = Plain("nothing")

Steps(to) == at' = to /\ UNCHANGED <<drivers, table, asking, part, rail, tries, high, answer>>
Says(a)   == at' = "done" /\ answer' = a /\ UNCHANGED <<drivers, table, asking, part, rail, tries, high>>

Patient(error) == error = "no_rail" /\ tries > 1

Waits ==
    /\ at' = "sleep" /\ tries' = tries - 1
    /\ UNCHANGED <<drivers, table, asking, part, rail, high, answer>>

\* identify(): the rail blinks under one's own traffic, so that is waited for,
\* twice; any other error is the caller's. read_identity() takes any for silence,
\* and register 0 tells which; _mmd() goes on to the next device.
Errs(error) ==
    CASE asking = "identify" -> IF Patient(error) THEN Waits ELSE Says(Plain(error))
      [] asking = "probe"    -> Steps("reg0")
      [] asking = "mmd"      -> Says(Plain("silent"))

Reg2 ==
    /\ at = "reg2"
    /\ IF Fails(2) THEN Errs(Error(2))
       ELSE /\ at' = "reg3" /\ high' = Reads(2)
            /\ UNCHANGED <<drivers, table, asking, part, rail, tries, answer>>

\* Both registers are there. All ones are an idle bus; that all zeros are no part
\* either is not known to read_identity().
Reg3 ==
    /\ at = "reg3"
    /\ LET ident == high \cup Reads(3)
       IN IF Fails(3) THEN Errs(Error(3))
          ELSE IF asking = "probe"
               THEN IF ident = Ones THEN Steps("reg0") ELSE Says(Named(ident))
               ELSE Says(IF ident \in {{}, Ones} THEN Plain("silent") ELSE Named(ident))

\* _sweep(), _detail(): an address without an identifier that answers register 0.
Reg0 == at = "reg0" /\ Says(Plain(IF Fails(0) \/ Reads(0) = Field(0) THEN "silent" ELSE "mute"))

\* mutant of Wakes: what was read before the wait is not read again
WakesHalfWay == at = "sleep" /\ Steps("reg3")

\* 250 ms later both registers are read, from the start.
Wakes == at = "sleep" /\ Steps("reg2")

--------------------------------------------------------------------------------
(* The target *)

Blinks ==
    /\ at # "done" /\ rail' = ~rail
    /\ UNCHANGED <<drivers, table, asking, part, at, tries, high, answer>>

\* The rail may be away because the target is, and another one may come.
Swapped ==
    /\ at = "sleep" /\ ~rail /\ part' \in Parts
    /\ UNCHANGED <<drivers, table, asking, rail, at, tries, high, answer>>

Over == at = "done"

Next == Reg2 \/ Reg3 \/ Reg0 \/ Wakes \/ Blinks \/ Swapped

Spec == Init /\ [][Next]_vars

--------------------------------------------------------------------------------
(* Properties *)

IsNamed == Over /\ answer.what = "part"

\* A part is given the name of the driver that says most about it: one that fits
\* and than which no other that fits looks at more bits. It has none only if none
\* fits. Elements that name no part do not count, wherever they stand.
\* (cmd_probe.py lookup_phy; gen_chipdb.py parse_phy_element, write_module)
NameIsMostSpecific ==
    IsNamed =>
        LET fits == {i \in DOMAIN drivers :
                       /\ drivers[i].name # NoName /\ None \notin {drivers[i].id, MaskOf(drivers[i])}
                       /\ answer.id \cap MaskOf(drivers[i]) = drivers[i].id \cap MaskOf(drivers[i])}
            bits(i) == Cardinality(MaskOf(drivers[i]))
        IN IF fits = {} THEN answer.name = NoName
           ELSE \E i \in fits : answer.name = drivers[i].name /\ \A j \in fits : bits(j) <= bits(i)

\* What identify() tells a helper is true of what is there: an identifier is that
\* of one part, both halves of it, whatever came and went during the waits;
\* silence is what was read, never an error of the probe's; and a missing rail is
\* an error only after two waits. (cmd_probe.py identify)
IdentifyIsHonest ==
    (Over /\ asking = "identify") =>
        /\ IsNamed => part.kind = "phy" /\ answer.id = part.id
        /\ answer.what = "silent" => part.kind \in {"paged", "idle"}
        /\ answer.what = "no_answer" => part.kind \in {"mute", "dead"}
        /\ answer.what = "no_rail" => tries = 1
===============================================================================
