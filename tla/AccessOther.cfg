SPECIFICATION MCSpec
CONSTANTS
    Phys = {p}
    Serdes = {s1}
    Indices = {i1}
    Bits = {b1, b2}
    Given = {{b2}}
    Mask = {b1}
    Tries = 2
    Numbers = {n1}
    Studied <- MCStudied
    Codes <- MCCodes
INVARIANT PhyBelongsToThePort
