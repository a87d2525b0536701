SPECIFICATION Spec
CONSTANTS
    Slots = 4
    MaxBytes = 20
    MaxTorn = 1
    Slack = 8
    Counts = {0, 2}
    Timeouts = {2}
    Overrides = {2}
    Lookalikes = TRUE
PROPERTIES FramesAreOfAPiece NothingIsReplayed ScanLocksOnAFrame NextReturns
