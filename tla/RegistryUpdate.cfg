SPECIFICATION Spec
CHECK_DEADLOCK FALSE
CONSTANTS
    c1 = c1  c2 = c2  c3 = c3
    acoin = acoin  bcoin = bcoin
    gold = gold  badName = badName
    Contracts = {c1, c2, c3}
    CreateAddress <- MCCreateAddress
    Spellings = {"checksum", "lower"}
    Checksum = "checksum"
    Denoms = {acoin, bcoin}
    CreateDenom <- MCCreateDenom
    Names <- MCNames
    Symbols = {"GLD", "BAD"}
    ValidNames <- MCValidNames
    Exponents = {0, 18}
    Nil = Nil
    NoAddress = NoAddress
    UserERC20 <- MCUserERC20
    CoinProposals <- MCCoinProposals
    GenesisStates <- DistinctFiles
    MaxNonce = 10
INVARIANTS
    OnePairPerContract
