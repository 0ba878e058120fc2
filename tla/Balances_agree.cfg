SPECIFICATION BalanceSpec
CONSTANTS
    Payments <- MCPayments
    Ins <- MCIns
    Outs <- MCOuts
    Generates <- MCGenerates
    Worth <- MCWorth
    PaidTo <- MCPaidTo
    FirstKeys = {"mine", "change"}
    ImportedKeys = {"imported"}
    AddedScripts = {"script"}
    Labelled = {"mine", "imported"}
    OwnPayments = {"p", "r"}
    nCoinbaseMaturity = 1
    WalletMaturity = 2
    CopyDepth = 2
    MaxMined = 4
    Unset = Unset
INVARIANTS
    BalancesAgree
CHECK_DEADLOCK FALSE
