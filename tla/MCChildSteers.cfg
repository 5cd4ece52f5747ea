SPECIFICATION Spec
CONSTANTS
    Text = {a, b}
    Run = {r1, r2}
    Caller = {c1}
    NoText = NoText
    NoRun = NoRun
    MaxSay = 3
    MaxClaims = 2
    MaxCrashes = 1
    MaxFaults = 1
    MaxCuts = 1
INVARIANTS TypeOK OneHold MirrorIsOwed AcceptedIsKept NoReplay InFlightIsOwed
PROPERTIES OwedKeepsOrder OverFreesSession
CHECK_DEADLOCK FALSE
