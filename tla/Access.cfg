SPECIFICATION MCSpec
CONSTANTS
    Phys = {p}
    Serdes = {s1, s2}
    Indices = {i1}
    Bits = {b1, b2}
    Given = {{b2}}
    Mask = {b1}
    Tries = 2
    Numbers = {n1, n2}
    Studied <- MCStudied
    Codes <- MCCodes
INVARIANTS AnswersAreOurs ExtensionIsClosed LinkDoesWhatItSays SerdesPageIsBack
PROPERTIES NothingIsOverrun WritesAreAsked IndirectAccessIsExact OneLayer
