CONSTANTS
    curtime = curtime
    timelast = timelast
    Vars <- TwoVars
    W = 5
    MaxGap = 4
    Rollovers = 3
SPECIFICATION ClockSpec
INVARIANTS
    Exact
