SPECIFICATION Spec
CONSTANTS
    Validators = {1, 2}
    Delegators = {"op1", "op2", "del"}
    Operator <- MCOperator
    InitialValidators = {1}
    Prec = 100
    CommissionRate = 30
    NoInfo = NoInfo
    MaxPeriod = 20
    SelfDelegation = 4
    Amounts = {3}
    Rewards = {7}
    Powers = {2, 8}
    PowerReduction = 2
    SlashFractionDowntime = 35
    SignedBlocksWindow = 1
    MaxValidators = 1
    KeyCut = 1
    AllowLists <- MCAllowLists
    BadAddress = BadAddress
    MaxHeight = 3
    MaxTxs = 3
    MaxExports = 1
INVARIANTS
    ExportSucceeds
CHECK_DEADLOCK FALSE
