SPECIFICATION Spec
CONSTANTS
    q1 = q1
    q2 = q2
    q3 = q3
    hook = hook
    Requests = {q1, q2, q3}
    Keys = {hook}
    NoKey = NoKey
    Key <- MCKey
    Markers = {drain, drove}
    Nobody = Nobody
    KeepEntries = 3
INVARIANTS AckedWakeKept
CHECK_DEADLOCK FALSE
