CONSTANTS
    MaxOps = 201
    MaxStack = 1000
    Parties <- MCParties
    KeysOf <- MCKeysOf
    ScriptsOf <- MCScriptsOf
    Known <- MCKnown
    Coins <- MCCoins
    PubKeyOf <- MCPubKeyOf
    CodeOf <- MCCodeOf
    Threshold <- MCThreshold
    Outputs <- MCOutputs
    FirstOutputs <- MCFirst
    Types <- MCTypes
    MaxCalls = 3
    MaxEdits = 1
    None = None
    Calls = {call1, call2}
    Periods <- MCPeriods
    Horizon = 2
    EndOfTime = 5
    LooseTxs <- MCLoose
    Parents <- MCParents
    Conflicts <- MCConflicts
    Verdicts <- MCVerdicts
    BigTxs = {"f"}
    MAX_ORPHAN_TRANSACTIONS = 2
    Files = {wallet, chain}
    WalletFile = wallet
    Users = {u1, u2}
    Loader = u1
    MaxOpens = 4
    MaxUpdates = 4
    AllAlerts <- MCAlerts
    AlertPeers = {q1, q2}
    AlertVersions = {1, 2}
    MyVersion = 2
    MaxId = 9
    BanScore = 20
    LastHour = 2
    Payments <- MCPayments
    Ins <- MCIns
    Outs <- MCOuts
    Generates <- MCGenerates
    Worth <- MCWorth
    PaidTo <- MCPaidTo
    FirstKeys = {"mine", "change"}
    ImportedKeys = {"imported"}
    AddedScripts = {"script"}
    Labelled = {"mine", "imported"}
    OwnPayments = {"p", "r"}
    nCoinbaseMaturity = 1
    WalletMaturity = 2
    CopyDepth = 2
    MaxMined = 3
    Unset = Unset
SPECIFICATION Spec
INVARIANTS
    SigningSound
    RelockSound
    OrphansSound
    DatabaseSound
    AlertsSound
    BalanceSound
PROPERTIES
    ServicesEnd
CHECK_DEADLOCK FALSE
