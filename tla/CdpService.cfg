CONSTANTS
    Callers = {c1, c2}
    Ops = {"press", "type", "click", "insert", "url"}
    Lower <- LowerCase
    Combos <- Shortcuts
    Chars = {"a", "b"}
    Inputs <- Typing
    MaxCalls = 2
    Tabs = {t1, t2}
    MainTab = t1
    MaxTroubles = 2
    None = None
SPECIFICATION FairSpec
INVARIANTS
    TypeOK
    NothingStaysHeld
    BitsTellTheTruth
    WrittenOutIsPressed
    FramesRoundTrip
PROPERTIES BitsAreTrue CallsReturn
CHECK_DEADLOCK FALSE
