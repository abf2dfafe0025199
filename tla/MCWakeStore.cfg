SPECIFICATION Spec
CONSTANTS
    q1 = q1
    q2 = q2
    q3 = q3
    hook = hook
    Requests = {q1, q2, q3}
    Keys = {hook}
    NoKey = NoKey
    Key <- MCKey
    Markers = {drain, drove}
    Nobody = Nobody
    KeepEntries = 1
INVARIANTS DeliveriesOnce LossNeedsOverlap
PROPERTIES MarksNeverUndone
SYMMETRY Symmetry
CHECK_DEADLOCK FALSE
