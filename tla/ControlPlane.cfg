CONSTANTS
    Callers = {c1, c2}
    Builders = {c1}
    Files = {f0, f1}
    Shipped = f0
    Packages = {p1, p2}
    BuildLimit = 2
    ReadyLimit = 1
    None = None
SPECIFICATION FairSpec
INVARIANTS RebuiltMeansBuilt NothingRecordedIsLost
PROPERTY CallsEnd
