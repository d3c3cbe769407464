CONSTANTS
    NoMethod = NoMethod
    None = None
    Unset = Unset
    Conns = {c1, c2, c3}
    Dests <- OneDest
    Policy <- ShippedPolicy
    Addrs = {"public", "private"}
    Reachable = {"public"}
    MaxConnections = 3
    AskTimeout = 2
    AllowTTL = 1
    DenyTTL = 1
    TaintTTL = 1
    AnswerTTLs = {Unset, 0}
    TaintTTLs = {Unset}
SPECIFICATION FairSpec
INVARIANTS
    TypeOK
    OneQuestionPerDest
    HeldIsAnswerable
PROPERTIES
    HeldIsReleased
    QuestionIsWithdrawn
    OnlyAPersonOpens
