SPECIFICATION Spec
CONSTANTS
    Reqs = {r1, r2}
    Timeouts = {2, 3}
    Second = 2
    KillGrace = 2
    Margin = 4
    DaemonTimeout = 8
    MaxExec = 1
    Enforce = TRUE
    OwnCodes = {0}
    Horizon = 20
INVARIANTS StoppedMeansStopped
