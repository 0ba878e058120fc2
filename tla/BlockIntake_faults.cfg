SPECIFICATION FairSpec
CONSTANTS
    g = g  p1 = p1  a2 = a2  a3 = a3  x3 = x3  y4 = y4  b2 = b2  b3 = b3  b4 = b4  S = S
    Nil = Nil
    Blocks <- MCBlocks
    Genesis = g
    pprev <- MCpprev
    Branch <- MCBranch
    nHeight <- MCnHeight
    bnChainTrust <- MCbnChainTrust
    Stake <- MCStake
    Kernel <- MCKernel
    Checked <- MCBlocks
    Fitting <- MCBlocks
    Connectable <- MCConnectable
    TooEasy <- MCTooEasy
    Hardened = {g, b4}
    Announced = {a2, b2, b3}
    MaxCrashes = 1
    MaxFailures = 1
INVARIANTS
    IntakeSound
PROPERTIES
    CheckpointSound
    CheckpointOnlyAdvances
    IntakeProgresses
CHECK_DEADLOCK FALSE
