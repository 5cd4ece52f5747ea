SPECIFICATION Spec
CONSTANTS
    Text = {a, b}
    Run = {r1, r2}
    Caller = {c1}
    NoText = NoText
    NoRun = NoRun
    MaxSay = 3
    MaxClaims = 2
    MaxCrashes = 0
    MaxFaults = 0
    MaxCuts = 1
INVARIANTS NeverLost
CHECK_DEADLOCK FALSE
