SPECIFICATION SyncSpec
CONSTANTS
    g = g  a1 = a1  a2 = a2  a3 = a3  a4 = a4  b1 = b1
    n1 = n1  n2 = n2
    Nil = Nil
    Blocks <- MCBlocks
    Genesis = g
    pprev <- MCpprev
    Branch <- MCBranch
    nHeight <- MCnHeight
    bnChainTrust <- MCnHeight
    Nodes = {n1, n2}
    Outbound <- MCOutbound
    ProofOfWork = {g, a1, a4, b1}
    Miner <- MCMiner
    Tip <- MCTip
    Limit = 2
    Backlog = 2000
    Margin = 144
    MinAge = 2
    Estimate = 1
    MaxFaults = 1
INVARIANTS
    NoBlockLost
CHECK_DEADLOCK FALSE
PROPERTIES
    Converges
