SPECIFICATION Spec
CONSTANTS
    k1 = k1
    k2 = k2
    first = first
    retry = retry
    changed = changed
    other = other
    b1 = b1
    b2 = b2
    None = None
    Keys = {k1, k2}
    Requests = {first, retry, changed, other}
    Bodies = {b1, b2}
    KeyOf <- MCKeyOf
    BodyOf <- MCBodyOf
SYMMETRY MCSymmetry
CHECK_DEADLOCK FALSE
INVARIANTS
    OneOrderPerKey
    ReplayAgrees
    RecordIsTrue
    AnswerIsRecorded
