SPECIFICATION Spec
CONSTANTS
    m1 = m1
    m2 = m2
    g = g
    c = c
    o1 = o1
    o2 = o2
    a1 = a1
    f1 = f1
    Message = {m1, m2, g, c}
    Kind <- Written
    Own = {o1, o2, a1}
    Foreign = {f1}
    Nested <- Leads
    Backlog = {a1}
    Days <- AllDays
    MaxRounds = 1
    MaxKeys = 3
INVARIANTS TypeOK EveryWordOnce OneTurnAtATime
PROPERTIES QueueOutranksResults StopIsQuiet ResultsMove
