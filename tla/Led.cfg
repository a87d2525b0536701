SPECIFICATION Spec
CONSTANTS
    Hold = 2
    FastHalf = 1
    SlowHalf = 2
    Word = 16
    Idle = 1
    MaxDepth = 2
PROPERTIES TailIsVisible ShowsTheTruth StreamBlinks
