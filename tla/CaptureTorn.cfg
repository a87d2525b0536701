SPECIFICATION Spec
CONSTANTS
    Slots = 4
    MaxBytes = 20
    MaxTorn = 1
    Slack = 8
    Counts = {0}
    Timeouts = {2}
    Overrides = {}
    Lookalikes = FALSE
PROPERTY LockedReadsAreFrames
