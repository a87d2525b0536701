SPECIFICATION Spec
CONSTANTS
    MinMv = 1800
    RegMaxMv = 3000
    MaxMv = 3300
    Rails = {1800, 3300}
    Requests = {1000, 2500, 3100}
    SettlePolls = 4
    RampPolls = 2
INVARIANTS ThresholdMatchesSupply SupplyIsAwaited FaultIsKept WireIsOwned
