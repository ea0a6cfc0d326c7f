------------------------------ MODULE Conversion ------------------------------
(***************************************************************************)
(* Conversion between the coin and the ERC20 token of registered pairs:    *)
(* the messages ConvertCoin and ConvertERC20 with their four cases, and    *)
(* the EVM hook that converts tokens an Ethereum transaction transfers to  *)
(* the module account.                                                     *)
(*                                                                         *)
(* A message that fails leaves no trace, since baseapp drops its cache     *)
(* context: an error return is an action that is not enabled.  An Ethereum *)
(* transaction is a sequence of steps: the transfers it makes in the EVM,  *)
(* each of which leaves a log, then PostTxProcessing, one step per log,    *)
(* then the commit.  An error of the hook restores the ledger the          *)
(* transaction started from.                                               *)
(*                                                                         *)
(* A user has one account with two addresses, bech32 and hex.  Messages    *)
(* are executed one after the other, and none during an Ethereum           *)
(* transaction.                                                            *)
(***************************************************************************)
EXTENDS Integers, Sequences, FiniteSetsExt

CONSTANTS
    Users,           \* accounts that sign messages and transactions
    Module,          \* the intrarelayer module account
    Zero,            \* the zero address, to which burning transfers
    Pairs,           \* the registered token pairs
    ModuleOwned,     \* those with OWNER_MODULE; the others are OWNER_EXTERNAL
    ConvertibleDenom,\* those whose denomination ValidateIBCDenom accepts
    ExactTransfer,   \* those whose contract transfers the amount it is told
    InitialBalance,  \* coins of module-owned pairs, tokens of others, by user
    InitialSupply,   \* their total
    HooksSet,        \* has the EVM keeper been given the hook?
    NoLedger,        \* no transaction is under way
    MaxAmount,       \* bound: the largest amount in a message or transfer
    MaxLogs          \* bound: transfers in one Ethereum transaction

Accounts == Users \cup {Module}
External == Pairs \ ModuleOwned
Amounts == 1..MaxAmount

ASSUME ConversionAssumption ==
    /\ IsFiniteSet(Users)
    /\ Module \notin Users
    /\ Zero \notin Accounts
    /\ ModuleOwned \subseteq Pairs
    /\ ConvertibleDenom \subseteq Pairs
    /\ ExactTransfer \subseteq Pairs
    /\ ModuleOwned \subseteq ExactTransfer
    /\ InitialBalance \in [Pairs -> [Users -> Nat]]
    /\ InitialSupply \in [Pairs -> Nat]
    /\ HooksSet \in BOOLEAN
    /\ MaxAmount \in Nat
    /\ MaxLogs \in Nat

ASSUME SupplyAssumption ==
    \A p \in Pairs : InitialSupply[p] = MapThenSumSet(LAMBDA u : InitialBalance[p][u], Users)

VARIABLES
    coins,               \* bank: balance of the pair's coin, by account
    tokens,              \* EVM: balance of the pair's ERC20, by account
    coinSupply,          \* bank: total supply of the pair's coin
    tokenSupply,         \* EVM: totalSupply of the pair's ERC20
    pairEnabled,         \* Enabled of the stored pair
    sendEnabled,         \* bank: IsSendEnabledCoin of the pair's coin
    enableIntrarelayer,  \* module parameters
    enableEVMHook,
    phase,               \* "idle", or "evm" or "hook" in an Ethereum transaction
    logs,                \* the transaction's logs the hook has yet to go through
    saved                \* the ledger the transaction started from

ledger == <<coins, tokens, coinSupply, tokenSupply>>
switches == <<pairEnabled, sendEnabled, enableIntrarelayer, enableEVMHook>>
transaction == <<phase, logs, saved>>
vars == <<ledger, switches, transaction>>

Log == [pair : Pairs, from : Users, to : Accounts \cup {Zero}, amount : Amounts]
-----------------------------------------------------------------------------
(* The ledgers.                                                            *)

\* BlockedAddrs of app.go: of the accounts considered, the module account.
BlockedAddrs == {Module}

Credit(balances, p, a, n) == [balances EXCEPT ![p][a] = @ + n]
Debit(balances, p, a, n) == [balances EXCEPT ![p][a] = @ - n]
Move(balances, p, from, to, n) == Credit(Debit(balances, p, from, n), p, to, n)

\* What the recipient of an ERC20 transfer of n may get when the call succeeds.
Received(p, n) == IF p \in ExactTransfer THEN {n} ELSE 0..n

\* A coin is there before its pair is registered and its ERC20 is not; with an
\* external contract it is the other way round.
Init ==
    /\ coins = [p \in Pairs |-> [a \in Accounts |->
          IF p \in ModuleOwned /\ a \in Users THEN InitialBalance[p][a] ELSE 0]]
    /\ tokens = [p \in Pairs |-> [a \in Accounts |->
          IF p \in External /\ a \in Users THEN InitialBalance[p][a] ELSE 0]]
    /\ coinSupply = [p \in Pairs |-> IF p \in ModuleOwned THEN InitialSupply[p] ELSE 0]
    /\ tokenSupply = [p \in Pairs |-> IF p \in External THEN InitialSupply[p] ELSE 0]
    /\ pairEnabled = [p \in Pairs |-> TRUE]
    /\ sendEnabled = [p \in Pairs |-> TRUE]
    /\ enableIntrarelayer = TRUE
    /\ enableEVMHook = TRUE
    /\ phase = "idle"
    /\ logs = << >>
    /\ saved = NoLedger
-----------------------------------------------------------------------------
(* Messages.                                                               *)

\* Mutants: a check of MintingEnabled left out, or made when it should not be.
MintingEnabledOffPair(sender, receiver, p) ==
    enableIntrarelayer /\ receiver \notin BlockedAddrs /\ (sender = receiver \/ sendEnabled[p])
MintingEnabledOffRelayer(sender, receiver, p) ==
    pairEnabled[p] /\ receiver \notin BlockedAddrs /\ (sender = receiver \/ sendEnabled[p])
MintingEnabledStrict(sender, receiver, p) ==
    enableIntrarelayer /\ pairEnabled[p] /\ receiver \notin BlockedAddrs /\ sendEnabled[p]

MintingEnabled(sender, receiver, p) ==
    /\ enableIntrarelayer
    /\ pairEnabled[p]
    /\ receiver \notin BlockedAddrs
    /\ sender = receiver \/ sendEnabled[p]

\* Case 1.1: escrow coins, mint tokens.
convertCoinNativeCoin(sender, receiver, p, n) ==
    /\ coins[p][sender] >= n
    /\ coins' = Move(coins, p, sender, Module, n)
    /\ tokens' = Credit(tokens, p, receiver, n)
    /\ tokenSupply' = [tokenSupply EXCEPT ![p] = @ + n]
    /\ UNCHANGED coinSupply

\* Mutant: the escrowed coins are not burned.
convertCoinNativeERC20Unburned(sender, receiver, p, n) ==
    /\ coins[p][sender] >= n /\ tokens[p][Module] >= n
    /\ coins' = Move(coins, p, sender, Module, n)
    /\ tokens' = Move(tokens, p, Module, receiver, n)
    /\ UNCHANGED <<coinSupply, tokenSupply>>

\* Case 2.2: escrow coins, release tokens, burn the escrowed coins.
convertCoinNativeERC20(sender, receiver, p, n) ==
    /\ coins[p][sender] >= n
    /\ tokens[p][Module] >= n
    /\ coins' = Debit(coins, p, sender, n)
    /\ coinSupply' = [coinSupply EXCEPT ![p] = @ - n]
    /\ \E received \in Received(p, n) :
          tokens' = Credit(Debit(tokens, p, Module, n), p, receiver, received)
    /\ UNCHANGED tokenSupply

\* Mutants: the sender's balance is not checked; the tokens are moved, not burned.
convertERC20NativeCoinUnchecked(sender, receiver, p, n) ==
    /\ coins[p][Module] >= n
    /\ tokens' = Debit(tokens, p, sender, n)
    /\ tokenSupply' = [tokenSupply EXCEPT ![p] = @ - n]
    /\ coins' = Move(coins, p, Module, receiver, n)
    /\ UNCHANGED coinSupply
convertERC20NativeCoinUnburned(sender, receiver, p, n) ==
    /\ tokens[p][sender] >= n /\ coins[p][Module] >= n
    /\ tokens' = Move(tokens, p, sender, Module, n)
    /\ coins' = Move(coins, p, Module, receiver, n)
    /\ UNCHANGED <<coinSupply, tokenSupply>>

\* Case 1.2: burn the sender's tokens, release coins.
convertERC20NativeCoin(sender, receiver, p, n) ==
    /\ tokens[p][sender] >= n
    /\ coins[p][Module] >= n
    /\ tokens' = Debit(tokens, p, sender, n)
    /\ tokenSupply' = [tokenSupply EXCEPT ![p] = @ - n]
    /\ coins' = Move(coins, p, Module, receiver, n)
    /\ UNCHANGED coinSupply

\* Mutant: the minted coins are not added to the supply.
convertERC20NativeTokenUncounted(sender, receiver, p, n) ==
    /\ tokens[p][sender] >= n
    /\ tokens' = Move(tokens, p, sender, Module, n)
    /\ coins' = Credit(coins, p, receiver, n)
    /\ UNCHANGED <<coinSupply, tokenSupply>>

\* Case 2.1: escrow tokens, mint coins.  Only the success flag of the transfer
\* is looked at, not what arrived.
convertERC20NativeToken(sender, receiver, p, n) ==
    /\ tokens[p][sender] >= n
    /\ \E received \in Received(p, n) :
          tokens' = Credit(Debit(tokens, p, sender, n), p, Module, received)
    /\ coinSupply' = [coinSupply EXCEPT ![p] = @ + n]
    /\ coins' = Credit(coins, p, receiver, n)
    /\ UNCHANGED tokenSupply

\* MsgConvertCoin, whose ValidateBasic turns down the denominations that
\* ValidateIBCDenom does.
ConvertCoin(sender, receiver, p, n) ==
    /\ phase = "idle"
    /\ p \in ConvertibleDenom
    /\ MintingEnabled(sender, receiver, p)
    /\ \/ p \in ModuleOwned /\ convertCoinNativeCoin(sender, receiver, p, n)
       \/ p \in External /\ convertCoinNativeERC20(sender, receiver, p, n)
    /\ UNCHANGED <<switches, transaction>>

ConvertERC20(sender, receiver, p, n) ==
    /\ phase = "idle"
    /\ MintingEnabled(sender, receiver, p)
    /\ \/ p \in ModuleOwned /\ convertERC20NativeCoin(sender, receiver, p, n)
       \/ p \in External /\ convertERC20NativeToken(sender, receiver, p, n)
    /\ UNCHANGED <<switches, transaction>>

\* MsgSend of the bank module.
Send(sender, receiver, p, n) ==
    /\ phase = "idle"
    /\ sendEnabled[p]
    /\ receiver \notin BlockedAddrs
    /\ coins[p][sender] >= n
    /\ coins' = Move(coins, p, sender, receiver, n)
    /\ UNCHANGED <<tokens, coinSupply, tokenSupply, switches, transaction>>
-----------------------------------------------------------------------------
(* Ethereum transactions and the hook.                                     *)

\* ApplyTransaction starts: the message runs in a cache context.
BeginEthereumTx ==
    /\ phase = "idle"
    /\ phase' = "evm"
    /\ logs' = << >>
    /\ saved' = [coins |-> coins, tokens |-> tokens,
                 coinSupply |-> coinSupply, tokenSupply |-> tokenSupply]
    /\ UNCHANGED <<ledger, switches>>

\* The contract code moves tokens of a pair from a user and logs the Transfer.
ERC20Transfer(from, to, p, n) ==
    /\ phase = "evm"
    /\ Len(logs) < MaxLogs
    /\ tokens[p][from] >= n
    /\ \/ /\ to # Zero
          /\ \E received \in Received(p, n) :
                tokens' = Credit(Debit(tokens, p, from, n), p, to, received)
          /\ UNCHANGED tokenSupply
       \/ /\ to = Zero
          /\ tokens' = Debit(tokens, p, from, n)
          /\ tokenSupply' = [tokenSupply EXCEPT ![p] = @ - n]
    /\ logs' = Append(logs, [pair |-> p, from |-> from, to |-> to, amount |-> n])
    /\ UNCHANGED <<coins, coinSupply, switches, phase, saved>>

\* Mutant: the bank's part of the cache context is written on failure.
RevertKeepsCoins ==
    /\ tokens' = saved.tokens
    /\ tokenSupply' = saved.tokenSupply
    /\ phase' = "idle"
    /\ logs' = << >>
    /\ saved' = NoLedger
    /\ UNCHANGED <<coins, coinSupply, switches>>

\* The cache context is dropped.
Revert ==
    /\ coins' = saved.coins
    /\ tokens' = saved.tokens
    /\ coinSupply' = saved.coinSupply
    /\ tokenSupply' = saved.tokenSupply
    /\ phase' = "idle"
    /\ logs' = << >>
    /\ saved' = NoLedger
    /\ UNCHANGED switches

\* The cache context is written.
Commit ==
    /\ phase' = "idle"
    /\ logs' = << >>
    /\ saved' = NoLedger
    /\ UNCHANGED <<ledger, switches>>

\* The message fails in the EVM: the hook is not called.
EthereumTxFails == phase = "evm" /\ Revert

\* The message succeeds and the hook, when it is set, is called.  A disabled
\* hook returns an error, so the transaction fails.
EthereumTxSucceeds ==
    /\ phase = "evm"
    /\ \/ ~HooksSet /\ Commit
       \/ HooksSet /\ ~enableEVMHook /\ Revert
       \/ /\ HooksSet /\ enableEVMHook
          /\ phase' = "hook"
          /\ UNCHANGED <<ledger, switches, logs, saved>>

NextLog == phase' = phase /\ logs' = Tail(logs) /\ saved' = saved

\* A log of a disabled pair fails the transaction, whoever the recipient is.
HookDisabledPair(log) ==
    /\ ~pairEnabled[log.pair]
    /\ Revert

\* A transfer to another account than the module's is not a conversion.
HookSkip(log) ==
    /\ pairEnabled[log.pair]
    /\ log.to # Module
    /\ NextLog
    /\ UNCHANGED <<ledger, switches>>

\* Mutant: the coins are released and the tokens kept.
HookBurnKeepsTokens(log) ==
    /\ pairEnabled[log.pair] /\ log.to = Module /\ log.pair \in ModuleOwned
    /\ coins[log.pair][Module] >= log.amount
    /\ coins' = Move(coins, log.pair, Module, log.from, log.amount)
    /\ NextLog
    /\ UNCHANGED <<tokens, tokenSupply, coinSupply, switches>>

\* Mutant: the recipient of the transfer is not looked at.
HookBurnAnyRecipient(log) ==
    /\ pairEnabled[log.pair] /\ log.pair \in ModuleOwned
    /\ tokens[log.pair][Module] >= log.amount /\ coins[log.pair][Module] >= log.amount
    /\ tokens' = Debit(tokens, log.pair, Module, log.amount)
    /\ tokenSupply' = [tokenSupply EXCEPT ![log.pair] = @ - log.amount]
    /\ coins' = Move(coins, log.pair, Module, log.from, log.amount)
    /\ NextLog
    /\ UNCHANGED <<coinSupply, switches>>

\* OWNER_MODULE: burn the tokens the module received and release the coins.
\* A failure of either is logged and the loop goes on.
HookBurn(log) ==
    LET p == log.pair
        n == log.amount
        burns == tokens[p][Module] >= n
        releases == burns /\ coins[p][Module] >= n
    IN  /\ pairEnabled[p]
        /\ log.to = Module
        /\ p \in ModuleOwned
        /\ tokens' = IF burns THEN Debit(tokens, p, Module, n) ELSE tokens
        /\ tokenSupply' = IF burns THEN [tokenSupply EXCEPT ![p] = @ - n] ELSE tokenSupply
        /\ coins' = IF releases THEN Move(coins, p, Module, log.from, n) ELSE coins
        /\ NextLog
        /\ UNCHANGED <<coinSupply, switches>>

\* Mutant: the recipient of the transfer is not looked at.
HookMintAnyRecipient(log) ==
    /\ pairEnabled[log.pair] /\ log.pair \in External
    /\ coinSupply' = [coinSupply EXCEPT ![log.pair] = @ + log.amount]
    /\ coins' = Credit(coins, log.pair, log.from, log.amount)
    /\ NextLog
    /\ UNCHANGED <<tokens, tokenSupply, switches>>

\* OWNER_EXTERNAL: mint coins for the tokens the module received.
HookMint(log) ==
    LET p == log.pair
        n == log.amount
    IN  /\ pairEnabled[p]
        /\ log.to = Module
        /\ p \in External
        /\ coinSupply' = [coinSupply EXCEPT ![p] = @ + n]
        /\ coins' = Credit(coins, p, log.from, n)
        /\ NextLog
        /\ UNCHANGED <<tokens, tokenSupply, switches>>

PostTxProcessing ==
    /\ phase = "hook"
    /\ logs # << >>
    /\ \/ HookDisabledPair(Head(logs))
       \/ HookSkip(Head(logs))
       \/ HookBurn(Head(logs))
       \/ HookMint(Head(logs))

EthereumTxEnds == phase = "hook" /\ logs = << >> /\ Commit
-----------------------------------------------------------------------------
(* Governance: toggled pairs, changed parameters.                          *)

ToggleRelay(p) ==
    /\ phase = "idle"
    /\ pairEnabled' = [pairEnabled EXCEPT ![p] = ~@]
    /\ UNCHANGED <<ledger, sendEnabled, enableIntrarelayer, enableEVMHook, transaction>>

SetParams(relayer, hook) ==
    /\ phase = "idle"
    /\ enableIntrarelayer' = relayer
    /\ enableEVMHook' = hook
    /\ UNCHANGED <<ledger, pairEnabled, sendEnabled, transaction>>

SetSendEnabled(p, enabled) ==
    /\ phase = "idle"
    /\ sendEnabled' = [sendEnabled EXCEPT ![p] = enabled]
    /\ UNCHANGED <<ledger, pairEnabled, enableIntrarelayer, enableEVMHook, transaction>>

Next ==
    \/ \E sender \in Users, receiver \in Accounts, p \in Pairs, n \in Amounts :
          \/ ConvertCoin(sender, receiver, p, n)
          \/ ConvertERC20(sender, receiver, p, n)
          \/ Send(sender, receiver, p, n)
    \/ BeginEthereumTx
    \/ \E from \in Users, to \in Accounts \cup {Zero}, p \in Pairs, n \in Amounts :
          ERC20Transfer(from, to, p, n)
    \/ EthereumTxFails
    \/ EthereumTxSucceeds
    \/ PostTxProcessing
    \/ EthereumTxEnds
    \/ \E p \in Pairs : ToggleRelay(p)
    \/ \E relayer, hook \in BOOLEAN : SetParams(relayer, hook)
    \/ \E p \in Pairs, enabled \in BOOLEAN : SetSendEnabled(p, enabled)

Spec == Init /\ [][Next]_vars
-----------------------------------------------------------------------------
(* Properties.                                                             *)

Balances == [Pairs -> [Accounts -> Nat]]
Supplies == [Pairs -> Int]
Ledger == [coins : Balances, tokens : Balances, coinSupply : Supplies, tokenSupply : Supplies]

\* No balance is negative, and a transaction under way has a ledger to go back to.
TypeOK ==
    /\ coins \in Balances
    /\ tokens \in Balances
    /\ coinSupply \in Supplies
    /\ tokenSupply \in Supplies
    /\ pairEnabled \in [Pairs -> BOOLEAN]
    /\ sendEnabled \in [Pairs -> BOOLEAN]
    /\ enableIntrarelayer \in BOOLEAN
    /\ enableEVMHook \in BOOLEAN
    /\ phase \in {"idle", "evm", "hook"}
    /\ logs \in Seq(Log)
    /\ IF phase = "idle" THEN saved = NoLedger ELSE saved \in Ledger

\* Every token of a module-owned contract is backed by an escrowed coin, also
\* half way through the hook: tokens can always be converted back.
CoinsBackTokens == \A p \in ModuleOwned : tokenSupply[p] <= coins[p][Module]

\* Every coin of an external contract is backed by an escrowed token, also half
\* way through the hook, when only some of the logs have had their coins minted.
TokensBackCoins == \A p \in External : coinSupply[p] <= tokens[p][Module]

\* The supplies the bank and the contracts keep are the sums of the balances.
SumOf(balances, p) == MapThenSumSet(LAMBDA a : balances[p][a], Accounts)
SupplyIsSum ==
    /\ \A p \in Pairs : coinSupply[p] = SumOf(coins, p)
    /\ \A p \in ExactTransfer : tokenSupply[p] = SumOf(tokens, p)

\* What is left in the module account is what the holders have a claim on:
\* nothing transferred to it by an Ethereum transaction is stuck there.
EscrowExact ==
    phase = "idle" =>
        /\ \A p \in ModuleOwned : tokens[p][Module] = 0
        /\ \A p \in External : tokens[p][Module] = coinSupply[p]

\* The hook finds what the transfer at hand brought: the module account has the
\* tokens it is to burn, whatever earlier logs took, and the coins it is to
\* release.  So neither the burn nor the send of evm_hooks.go fails, which would
\* be logged and committed as half a conversion.
HookFindsTransfer ==
    phase = "hook" /\ logs # << >> =>
        LET p == Head(logs).pair
        IN  p \in ModuleOwned /\ Head(logs).to = Module =>
                /\ tokens[p][Module] >= Head(logs).amount
                /\ coins[p][Module] >= Head(logs).amount

\* The ledger as other messages and blocks see it.
Committed ==
    IF phase = "idle"
    THEN [coins |-> coins, tokens |-> tokens, coinSupply |-> coinSupply, tokenSupply |-> tokenSupply]
    ELSE saved

\* The tokens of a pair in the module account that nobody has a claim on.
Stranded(l, p) ==
    l.tokens[p][Module] - (IF p \in ModuleOwned THEN 0 ELSE l.coinSupply[p])

\* No message strands tokens in the module account or releases any that are, and
\* no Ethereum transaction does but one that ends without the hook, which
\* strands what it transferred there for good.
OnlyUnhookedStrands ==
    [][\A p \in Pairs :
          Stranded(Committed', p) # Stranded(Committed, p) =>
              /\ phase = "evm"
              /\ ~HooksSet
              /\ Stranded(Committed', p) > Stranded(Committed, p)]_vars

\* What the users own of a pair, in coins and in tokens.
Wealth(l, p) ==
    MapThenSumSet(LAMBDA u : l.coins[p][u], Users) + MapThenSumSet(LAMBDA u : l.tokens[p][u], Users)

\* No message and no Ethereum transaction, whatever transfers it makes and
\* wherever the hook stops, gives the users more than they had.
NoWealthCreated == [][\A p \in Pairs : Wealth(Committed', p) <= Wealth(Committed, p)]_vars

\* The coins escrowed or minted for a pair: what only a conversion changes.
Converted(l, p) == IF p \in ModuleOwned THEN l.coins[p][Module] ELSE l.coinSupply[p]

\* A pair that governance has disabled is not converted, neither by message nor
\* by the hook.
DisabledPairFrozen ==
    [][\A p \in Pairs : ~pairEnabled[p] => Converted(Committed', p) = Converted(Committed, p)]_vars

\* Coins were released or minted, if anything, but none escrowed or burned.
OnlyToCoins(p, before, after) ==
    IF p \in ModuleOwned THEN after <= before ELSE after >= before

\* With the EnableIntrarelayer parameter off no coin becomes a token, but the
\* hook, which does not look at it, still makes coins of tokens that users
\* transfer; only without the hook or with EnableEVMHook off as well is nothing
\* converted.
RelayerOffOneWay ==
    [][~enableIntrarelayer =>
          \A p \in Pairs :
              /\ OnlyToCoins(p, Converted(Committed, p), Converted(Committed', p))
              /\ Converted(Committed', p) # Converted(Committed, p) => HooksSet /\ enableEVMHook]_vars

\* A holder of the converted side of an enabled pair can convert all of it back
\* to her own account at any time, whatever the bank says of sending the coin.
Redeemable ==
    phase = "idle" /\ enableIntrarelayer =>
        \A u \in Users, p \in Pairs :
            /\ p \in ModuleOwned /\ pairEnabled[p] /\ tokens[p][u] \in Amounts =>
                  ENABLED ConvertERC20(u, u, p, tokens[p][u])
            /\ p \in External /\ pairEnabled[p] /\ coins[p][u] \in Amounts =>
                  ENABLED ConvertCoin(u, u, p, coins[p][u])

\* The abstract specification: a reserve that covers the claims on it.
Escrowed == [p \in Pairs |-> IF p \in ModuleOwned THEN Committed.coins[p][Module]
                                                  ELSE Committed.tokens[p][Module]]
Issued == [p \in Pairs |-> IF p \in ModuleOwned THEN Committed.tokenSupply[p]
                                                ELSE Committed.coinSupply[p]]
Reserve == INSTANCE Bridge WITH Pairs <- Pairs, reserve <- Escrowed, claims <- Issued

\* The conversions implement the bridge: no step lets the reserve of a pair fall
\* by more than the claims on it.
ImplementsBridge == Reserve!Spec
=============================================================================
