SPECIFICATION Spec
CONSTANTS
    root = root
    mid = mid
    low = low
    o1 = o1
    o2 = o2
    Session = {root, mid, low}
    Root = root
    Origin = {o1, o2}
    Trees <- BriefPair
    NoSession = NoSession
    NoNote = NoNote
INVARIANTS ToldExactlyOnce
CHECK_DEADLOCK FALSE
