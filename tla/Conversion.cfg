SPECIFICATION Spec
CHECK_DEADLOCK FALSE
CONSTANTS
    alice = alice  bob = bob
    coin = coin  erc20 = erc20
    Users = {alice, bob}
    Module = Module
    Zero = Zero
    NoLedger = NoLedger
    Pairs = {coin, erc20}
    ModuleOwned = {coin}
    ConvertibleDenom = {coin, erc20}
    ExactTransfer = {coin, erc20}
    InitialBalance <- MCBalance
    InitialSupply <- MCSupply
    HooksSet = TRUE
    MaxAmount = 2
    MaxLogs = 2
INVARIANTS
    TypeOK
    CoinsBackTokens
    TokensBackCoins
    SupplyIsSum
    EscrowExact
    HookFindsTransfer
    Redeemable
PROPERTIES
    NoWealthCreated
    DisabledPairFrozen
    RelayerOffOneWay
    ImplementsBridge
