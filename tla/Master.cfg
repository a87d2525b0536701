SPECIFICATION Spec
CONSTANTS
    Linger = 4
    Settle = 1
    TrimRounds = 2
INVARIANTS FrameIsBuffered BufferIsAccounted OnePersonality
PROPERTIES SeriesKeepsTheBuffer CallsReturn
