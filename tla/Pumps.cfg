CONSTANT MaxSaid = 2
SPECIFICATION FairSpec
INVARIANT LastWordsArrive
PROPERTY NobodyStaysAlone
CHECK_DEADLOCK FALSE
