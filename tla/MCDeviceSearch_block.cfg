CONSTANTS
    r = r
    n = n
    t = t
    x = x
    Lanes <- ThreeLanes
    Nodes = {r, n, t, x}
    Children <- Loops
    Terminal = {t}
    Root = r
    PathDepth = 3
    MaxIterations = 2
    MaxNonce = 2
SPECIFICATION Spec
INVARIANTS OneAnswer WorkSettled
CHECK_DEADLOCK FALSE
