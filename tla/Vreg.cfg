SPECIFICATION Spec
CONSTANTS
    MinMv = 4
    RegMaxMv = 6
    MaxMv = 8
    VrefMv = 8
    CodeMax = 4
    GateOff = 2
    AccOne = 2
    GainOne = 2
    Word = 8
    Step = 1
    ScTicks = 2
    SatMargin = 0
    MarginDfl = 2
    KiDfl = 1
    KpDfl = 1
    Overshoot = 4
    Requests = {3, 6, 7}
    Margins = {2, 9}
    Nums = {1, 4}
    Dens = {2}
INVARIANTS StaysInStep
PROPERTIES TripNeedsAFullRun ShortIsLatched KeepsSupplyPromise
