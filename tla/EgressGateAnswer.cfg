CONSTANTS
    NoMethod = NoMethod
    None = None
    Unset = Unset
    Conns = {c1, c2}
    Dests <- OneDest
    Policy <- ShippedPolicy
    Addrs = {"public", "private"}
    Reachable = {"public"}
    MaxConnections = 2
    AskTimeout = 1
    AllowTTL = 2
    DenyTTL = 1
    TaintTTL = 1
    AnswerTTLs = {Unset}
    TaintTTLs = {Unset, 2}
SPECIFICATION Spec
PROPERTY AnswerIsRemembered
