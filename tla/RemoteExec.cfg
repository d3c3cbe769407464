SPECIFICATION FairSpec
CONSTANTS
    Reqs = {r1, r2}
    Timeouts = {0, 2, 3}
    Second = 2
    KillGrace = 2
    Margin = 3
    DaemonTimeout = 4
    MaxExec = 1
    Enforce = TRUE
    OwnCodes = {0, 137}
    Horizon = 13
INVARIANTS SlotsConserved NoAnswerIsLost NoteMeansDeadline DeadlineIsKept
PROPERTY SlotsComeBack
