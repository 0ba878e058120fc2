SPECIFICATION WalletSpec
CONSTANTS
    g = g  p1 = p1  p2 = p2  a3 = a3  b3 = b3  b4 = b4  b5 = b5  x4 = x4
    z = z  c = c  k = k  t = t  y = y  u = u
    Nil = Nil
    Blocks <- MCBlocks
    Genesis = g
    Txs <- MCTxs
    pprev <- MCpprev
    Branch <- MCBranch
    nHeight <- MCnHeight
    bnChainTrust <- MCbnChainTrust
    vtx <- MCvtx
    vin <- MCvin
    vout <- MCvout
    CoinBases = {z}
    CoinStakes = {k}
    Sound = {g, p1, p2, a3, b3, b4, b5}
    nCoinbaseMaturity = 1
    Standard = {t}
    Requested = {}
    MaxCrashes = 1
    MaxFailures = 0
    Mine <- MCMine
    Own = {t}
    Estimate = 2
    BackupAt = {a3}
INVARIANTS
    WalletFollowsChain
    SpentFollowsChain
VIEW Live
CHECK_DEADLOCK FALSE
