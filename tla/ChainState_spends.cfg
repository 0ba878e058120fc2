SPECIFICATION FairSpec
CONSTANTS
    g = g  p1 = p1  p2 = p2  i2 = i2  b2 = b2  x3 = x3  y3 = y3  e3 = e3  a3 = a3
    d4 = d4  r4 = r4  z4 = z4  a4 = a4
    c = c  t = t  u = u  w = w  r = r
    Nil = Nil
    Blocks <- MCBlocks
    Genesis = g
    Txs <- MCTxs
    pprev <- MCpprev
    Branch <- MCBranch
    nHeight <- MCnHeight
    bnChainTrust <- MCbnChainTrust
    vtx <- MCvtx
    vin <- MCvin
    vout <- MCvout
    CoinBases = {c}
    CoinStakes = {}
    Sound = {g, p1, p2, i2, b2, x3, y3, a3, d4, r4, z4, a4}
    nCoinbaseMaturity = 2
    Standard <- MCTxs
    Requested = {}
    MaxCrashes = 0
    MaxFailures = 0
INVARIANTS
    BestChainValid
    MostTrustWins
PROPERTIES
    SwitchEnds
CHECK_DEADLOCK FALSE
