SPECIFICATION UpdateSpec
CHECK_DEADLOCK FALSE
CONSTANTS
    alice = alice  bob = bob
    coin = coin  erc20 = erc20
    Users = {alice, bob}
    Module = Module
    Zero = Zero
    NoLedger = NoLedger
    Pairs = {coin, erc20}
    ModuleOwned = {coin}
    ConvertibleDenom = {coin, erc20}
    ExactTransfer = {coin, erc20}
    InitialBalance <- MCBalance
    InitialSupply <- MCSupply
    HooksSet = FALSE
    MaxAmount = 2
    MaxLogs = 1
    MaxUpdates = 1
PROPERTIES
    ImplementsBridgeAcrossUpdates
