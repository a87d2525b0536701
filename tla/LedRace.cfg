SPECIFICATION Spec
CONSTANTS
    Hold = 2
    FastHalf = 1
    SlowHalf = 2
    Word = 16
    Idle = 3
    MaxDepth = 1
INVARIANT StaticIsTruthful
