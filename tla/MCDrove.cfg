SPECIFICATION Spec
CONSTANTS
    v = v
    w = w
    Wakes = {v, w}
    Target <- MCTarget
    Runs = {1, 2}
    MaxRuns = 1
    Nothing = Nothing
    MaxEvents = 1
CHECK_DEADLOCK FALSE
INVARIANTS WatchedOnce OneRunPerWake
PROPERTIES WatchEnds
