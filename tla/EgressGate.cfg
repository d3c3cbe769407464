CONSTANTS
    NoMethod = NoMethod
    None = None
    Unset = Unset
    Conns = {c1, c2, c3}
    Dests <- AllDests
    Policy <- ShippedPolicy
    Addrs = {"public", "private"}
    Reachable = {"public"}
    MaxConnections = 2
    AskTimeout = 1
    AllowTTL = 2
    DenyTTL = 1
    TaintTTL = 1
    AnswerTTLs = {Unset}
    TaintTTLs = {Unset, 2}
SPECIFICATION Spec
SYMMETRY ConnSymmetry
INVARIANTS
    NoCleanAllowWhileTainted
    SlotsConserved
    QuestionsAreWorthAsking
    HiddenMethodDecidesNothing
    WildcardsCoverSubdomainsOnly
    TaintOnlyTightens
PROPERTY TaintTokenOnlyTightens
