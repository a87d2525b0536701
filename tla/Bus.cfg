SPECIFICATION Spec
CONSTANTS
    Levels = {0, 1800, 2100, 3300}
    Total = 4
    MaxSpoilt = 2
INVARIANTS SettledPresence
PROPERTIES PresenceIsDebounced StaleRailIsReplaced LedFollowsDetector
