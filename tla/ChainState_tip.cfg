SPECIFICATION Spec
CONSTANTS
    g = g  p1 = p1  p2 = p2  a3 = a3  a4 = a4  b3 = b3  b4 = b4  b5 = b5  d5 = d5
    c = c  t = t  w = w  s = s  k = k  u = u
    Nil = Nil
    Blocks <- MCBlocks
    Genesis = g
    Txs <- MCTxs
    pprev <- MCpprev
    Branch <- MCBranch
    nHeight <- MCnHeight
    bnChainTrust <- MCbnChainTrust
    vtx <- MCvtx
    vin <- MCvin
    vout <- MCvout
    CoinBases = {c}
    CoinStakes = {k}
    Sound <- MCBlocks
    nCoinbaseMaturity = 2
    Standard <- MCTxs
    Requested = {}
    MaxCrashes = 1
    MaxFailures = 0
INVARIANTS
    BestIsStored
CHECK_DEADLOCK FALSE
