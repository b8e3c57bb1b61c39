CONSTANTS
    a = a
    b = b
    c = c
    d = d
    e = e
    NoState = NoState
    States = {a, b, c, d, e}
    Malformed = {}
    Unplayable = {e}
    Moves <- Diamond
    Key <- DiamondKeys
    Start = a
    Roots = {d, e}
    EdgeCapacity = 4
    MaxActions = 2
    NodeCapacity = 3
    TTCapacity = 3
    TTProbes = 2
    MaxGeneration = 2
    PathDepth = 3
    MaxWork = 3
SPECIFICATION Spec
INVARIANTS TypeOK ArenaDivided OneNodePerState ChildIsSuccessor HeldNodesLive LedgerMatches EndsBalanced
CHECK_DEADLOCK FALSE
