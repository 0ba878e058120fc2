SPECIFICATION NodesSpec
CONSTANTS
    NodeIds = {1, 2}
    Remotes = {a}
    Openers = {open, added}
    MaxOutbound = 2
    MaxInbound = 1
    Null = Null
INVARIANTS
    NodesSound
PROPERTIES
    NothingHangs
CONSTRAINT Untorn
CHECK_DEADLOCK FALSE
