SPECIFICATION Spec
CONSTANTS
    Text = {a, b}
    Run = {r1, r2}
    Caller = {c1}
    NoText = NoText
    NoRun = NoRun
    MaxSay = 3
    MaxClaims = 2
    MaxCrashes = 1
    MaxFaults = 0
    MaxCuts = 0
INVARIANTS NeverLost
CHECK_DEADLOCK FALSE
