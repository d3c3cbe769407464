CONSTANTS
    Clients = {c1, c2}
    Setters = {c1}
    Getters = {c2}
    Texts = {"a", "b"}
    MaxCopies = 1
    MaxSets = 2
    MaxGets = 1
    Empty = ""
    None = None
SPECIFICATION FairSpec
INVARIANT InStep
PROPERTIES PollerCatchesUp SetterCatchesUp
