-------------------------- MODULE ConversionProofs --------------------------
(***************************************************************************)
(* Proofs about Conversion for every set of users, pairs and amounts and   *)
(* for Ethereum transactions of any length.                                *)
(***************************************************************************)
EXTENDS Conversion, SequenceTheorems, TLAPS

\* What a credit does to a balance, and to no other.
LEMMA CreditEffect ==
    ASSUME NEW b \in Balances, NEW p \in Pairs, NEW a \in Accounts, NEW n \in Nat
    PROVE  /\ Credit(b, p, a, n) \in Balances
           /\ \A q \in Pairs, c \in Accounts :
                 Credit(b, p, a, n)[q][c] = IF q = p /\ c = a THEN b[q][c] + n ELSE b[q][c]
  BY DEF Credit, Balances

\* What a debit that the balance covers does to it, and to no other.
LEMMA DebitEffect ==
    ASSUME NEW b \in Balances, NEW p \in Pairs, NEW a \in Accounts, NEW n \in Nat, b[p][a] >= n
    PROVE  /\ Debit(b, p, a, n) \in Balances
           /\ \A q \in Pairs, c \in Accounts :
                 Debit(b, p, a, n)[q][c] = IF q = p /\ c = a THEN b[q][c] - n ELSE b[q][c]
  <1>1. b[p][a] - n \in Nat
    BY DEF Balances
  <1>2. QED
    BY <1>1 DEF Debit, Balances

\* The two, and one after the other, as effects on the balances b2 of the next state.
LEMMA CreditFacts ==
    ASSUME NEW b \in Balances, NEW p \in Pairs, NEW a \in Accounts, NEW n \in Nat,
           NEW b2, b2 = Credit(b, p, a, n)
    PROVE  /\ b2 \in Balances
           /\ \A q \in Pairs, c \in Accounts :
                 b2[q][c] = IF q = p /\ c = a THEN b[q][c] + n ELSE b[q][c]
  BY CreditEffect

\* Taking no more than is there keeps balances natural numbers.
LEMMA DebitFacts ==
    ASSUME NEW b \in Balances, NEW p \in Pairs, NEW a \in Accounts, NEW n \in Nat, b[p][a] >= n,
           NEW b2, b2 = Debit(b, p, a, n)
    PROVE  /\ b2 \in Balances
           /\ \A q \in Pairs, c \in Accounts :
                 b2[q][c] = IF q = p /\ c = a THEN b[q][c] - n ELSE b[q][c]
  BY DebitEffect

\* So does a transfer that delivers at most what it takes.
LEMMA TransferFacts ==
    ASSUME NEW b \in Balances, NEW p \in Pairs, NEW from \in Accounts, NEW to \in Accounts,
           NEW n \in Nat, NEW m \in Nat, b[p][from] >= n,
           NEW b2, b2 = Credit(Debit(b, p, from, n), p, to, m)
    PROVE  /\ b2 \in Balances
           /\ \A q \in Pairs, c \in Accounts :
                 b2[q][c] = b[q][c] - (IF q = p /\ c = from THEN n ELSE 0)
                                    + (IF q = p /\ c = to THEN m ELSE 0)
  <1> DEFINE d == Debit(b, p, from, n)
  <1>0. d \in Balances
    BY DebitEffect
  <1>1. \A q \in Pairs, c \in Accounts : d[q][c] = IF q = p /\ c = from THEN b[q][c] - n ELSE b[q][c]
    BY DebitEffect
  <1>2. b2 = Credit(d, p, to, m)
    OBVIOUS
  <1> HIDE DEF d
  <1>3. /\ Credit(d, p, to, m) \in Balances
        /\ \A q \in Pairs, c \in Accounts :
              Credit(d, p, to, m)[q][c] = IF q = p /\ c = to THEN d[q][c] + m ELSE d[q][c]
    BY <1>0, CreditEffect
  <1>4. \A q \in Pairs, c \in Accounts : b[q][c] \in Nat
    BY DEF Balances
  <1> QED
    BY <1>1, <1>2, <1>3, <1>4

\* What arrives of a transfer is a natural number, and the whole of it when the
\* contract is exact.
LEMMA ReceivedFacts ==
    ASSUME NEW p \in Pairs, NEW n \in Amounts, NEW r \in Received(p, n)
    PROVE  r \in Nat /\ (p \in ExactTransfer => r = n)
  BY ConversionAssumption DEF Received, Amounts
\* What the other proofs use of the type invariant.
LEMMA TypeFacts ==
    ASSUME TypeOK
    PROVE  /\ \A n \in Amounts : n \in Nat
           /\ Module \in Accounts /\ Module \notin Users
           /\ \A u \in Users : u \in Accounts
           /\ coins \in Balances /\ tokens \in Balances
           /\ coinSupply \in Supplies /\ tokenSupply \in Supplies
           /\ \A q \in Pairs : coinSupply[q] \in Int /\ tokenSupply[q] \in Int
           /\ \A q \in Pairs, a \in Accounts : coins[q][a] \in Nat /\ tokens[q][a] \in Nat
  <1>1. /\ coins \in Balances /\ tokens \in Balances
        /\ coinSupply \in Supplies /\ tokenSupply \in Supplies
    BY DEF TypeOK
  <1>2. \A q \in Pairs : coinSupply[q] \in Int /\ tokenSupply[q] \in Int
    BY <1>1 DEF Supplies
  <1>3. \A q \in Pairs, a \in Accounts : coins[q][a] \in Nat /\ tokens[q][a] \in Nat
    BY <1>1 DEF Balances
  <1> QED
    BY <1>1, <1>2, <1>3, ConversionAssumption DEF Accounts, Amounts

\* The parts of the log that the hook looks at.
LEMMA HeadOfLogs ==
    ASSUME TypeOK, logs # << >>
    PROVE  /\ Head(logs).pair \in Pairs
           /\ Head(logs).from \in Users
           /\ Head(logs).to \in Accounts \cup {Zero}
           /\ Head(logs).amount \in Nat
           /\ Tail(logs) \in Seq(Log)
  <1>1. Head(logs) \in Log /\ Tail(logs) \in Seq(Log)
    BY HeadTailProperties DEF TypeOK
  <1>2. \A l \in Log : /\ l.pair \in Pairs /\ l.from \in Users
                       /\ l.to \in Accounts \cup {Zero} /\ l.amount \in Amounts
    BY DEF Log
  <1> QED
    BY <1>1, <1>2, ConversionAssumption DEF Amounts

\* The steps of Next other than those of the messages and of an Ethereum
\* transaction move no coin and no token.
LEMMA GovernanceKeepsLedger ==
    ASSUME [Next]_vars
    PROVE  \/ \E sender \in Users, receiver \in Accounts, p \in Pairs, n \in Amounts :
                 \/ ConvertCoin(sender, receiver, p, n)
                 \/ ConvertERC20(sender, receiver, p, n)
                 \/ Send(sender, receiver, p, n)
           \/ BeginEthereumTx
           \/ \E from \in Users, to \in Accounts \cup {Zero}, p \in Pairs, n \in Amounts :
                 ERC20Transfer(from, to, p, n)
           \/ EthereumTxFails
           \/ EthereumTxSucceeds
           \/ PostTxProcessing
           \/ EthereumTxEnds
           \/ UNCHANGED <<ledger, transaction>>
  BY DEF Next, ToggleRelay, SetParams, SetSendEnabled, vars
-----------------------------------------------------------------------------
(* Type correctness.                                                       *)

\* Init gives every account a natural number of coins and tokens.
LEMMA TypeInit == Init => TypeOK
  <1> SUFFICES ASSUME Init
               PROVE  TypeOK
    OBVIOUS
  <1>1. coins \in Balances /\ tokens \in Balances
    <2>1. \A p \in Pairs, u \in Users : InitialBalance[p][u] \in Nat
      BY ConversionAssumption
    <2> QED
      BY <2>1, ConversionAssumption DEF Init, Balances, Accounts
  <1>2. coinSupply \in Supplies /\ tokenSupply \in Supplies
    BY ConversionAssumption DEF Init, Supplies
  <1> QED
    BY <1>1, <1>2 DEF Init, TypeOK

\* Every action keeps the types, the conversions because of the balances they check.
LEMMA TypeNext == TypeOK /\ [Next]_vars => TypeOK'
  <1> SUFFICES ASSUME TypeOK, [Next]_vars
               PROVE  TypeOK'
    OBVIOUS
  <1>0. /\ \A n \in Amounts : n \in Nat
        /\ Module \in Accounts
        /\ \A u \in Users : u \in Accounts
    BY ConversionAssumption DEF Accounts, Amounts
  <1>1. ASSUME NEW sender \in Users, NEW receiver \in Accounts, NEW p \in Pairs, NEW n \in Amounts,
               ConvertCoin(sender, receiver, p, n)
        PROVE  TypeOK'
    <2>1. CASE p \in ModuleOwned /\ convertCoinNativeCoin(sender, receiver, p, n)
      <3>1. coins' \in Balances
        BY <2>1, <1>0, TransferFacts DEF convertCoinNativeCoin, Move, TypeOK
      <3>2. tokens' \in Balances
        BY <2>1, <1>0, CreditFacts DEF convertCoinNativeCoin, TypeOK
      <3>3. tokenSupply' \in Supplies /\ coinSupply' = coinSupply
        BY <2>1, <1>0 DEF convertCoinNativeCoin, Supplies, TypeOK
      <3> QED
        BY <1>1, <3>1, <3>2, <3>3 DEF ConvertCoin, switches, transaction, TypeOK
    <2>2. CASE p \in External /\ convertCoinNativeERC20(sender, receiver, p, n)
      <3>1. coins' \in Balances
        BY <2>2, <1>0, DebitFacts DEF convertCoinNativeERC20, TypeOK
      <3>2. tokens' \in Balances
        BY <2>2, <1>0, ReceivedFacts, TransferFacts DEF convertCoinNativeERC20, TypeOK
      <3>3. coinSupply' \in Supplies /\ tokenSupply' = tokenSupply
        BY <2>2, <1>0 DEF convertCoinNativeERC20, Supplies, TypeOK
      <3> QED
        BY <1>1, <3>1, <3>2, <3>3 DEF ConvertCoin, switches, transaction, TypeOK
    <2> QED
      BY <1>1, <2>1, <2>2 DEF ConvertCoin
  <1>2. ASSUME NEW sender \in Users, NEW receiver \in Accounts, NEW p \in Pairs, NEW n \in Amounts,
               ConvertERC20(sender, receiver, p, n)
        PROVE  TypeOK'
    <2>1. CASE p \in ModuleOwned /\ convertERC20NativeCoin(sender, receiver, p, n)
      <3>1. coins' \in Balances
        BY <2>1, <1>0, TransferFacts DEF convertERC20NativeCoin, Move, TypeOK
      <3>2. tokens' \in Balances
        BY <2>1, <1>0, DebitFacts DEF convertERC20NativeCoin, TypeOK
      <3>3. tokenSupply' \in Supplies /\ coinSupply' = coinSupply
        BY <2>1, <1>0 DEF convertERC20NativeCoin, Supplies, TypeOK
      <3> QED
        BY <1>2, <3>1, <3>2, <3>3 DEF ConvertERC20, switches, transaction, TypeOK
    <2>2. CASE p \in External /\ convertERC20NativeToken(sender, receiver, p, n)
      <3>1. coins' \in Balances
        BY <2>2, <1>0, CreditFacts DEF convertERC20NativeToken, TypeOK
      <3>2. tokens' \in Balances
        BY <2>2, <1>0, ReceivedFacts, TransferFacts DEF convertERC20NativeToken, TypeOK
      <3>3. coinSupply' \in Supplies /\ tokenSupply' = tokenSupply
        BY <2>2, <1>0 DEF convertERC20NativeToken, Supplies, TypeOK
      <3> QED
        BY <1>2, <3>1, <3>2, <3>3 DEF ConvertERC20, switches, transaction, TypeOK
    <2> QED
      BY <1>2, <2>1, <2>2 DEF ConvertERC20
  <1>3. ASSUME NEW sender \in Users, NEW receiver \in Accounts, NEW p \in Pairs, NEW n \in Amounts,
               Send(sender, receiver, p, n)
        PROVE  TypeOK'
    <2>1. coins' \in Balances
      BY <1>0, <1>3, TransferFacts DEF Send, Move, TypeOK
    <2> QED
      BY <1>3, <2>1 DEF Send, switches, transaction, TypeOK
  <1>4. CASE BeginEthereumTx
    <2>1. saved' \in Ledger
      BY <1>4 DEF BeginEthereumTx, Ledger, TypeOK
    <2> QED
      BY <1>4, <2>1 DEF BeginEthereumTx, ledger, switches, TypeOK
  <1>5. ASSUME NEW from \in Users, NEW to \in Accounts \cup {Zero}, NEW p \in Pairs, NEW n \in Amounts,
               ERC20Transfer(from, to, p, n)
        PROVE  TypeOK'
    <2>1. tokens' \in Balances /\ tokenSupply' \in Supplies
      <3>1. CASE to # Zero
        BY <1>0, <1>5, <3>1, ReceivedFacts, TransferFacts DEF ERC20Transfer, TypeOK
      <3>2. CASE to = Zero
        BY <1>0, <1>5, <3>2, DebitFacts DEF ERC20Transfer, Supplies, TypeOK
      <3> QED
        BY <3>1, <3>2
    <2>2. logs' \in Seq(Log)
      <3>1. [pair |-> p, from |-> from, to |-> to, amount |-> n] \in Log
        BY DEF Log
      <3> QED
        BY <1>5, <3>1, AppendProperties DEF ERC20Transfer, TypeOK
    <2> QED
      BY <1>5, <2>1, <2>2 DEF ERC20Transfer, switches, TypeOK
  <1>6. ASSUME Revert, phase # "idle"
        PROVE  TypeOK'
    BY <1>6 DEF Revert, Ledger, switches, TypeOK
  <1>7. ASSUME Commit
        PROVE  TypeOK'
    BY <1>7 DEF Commit, ledger, switches, TypeOK
  <1>8. CASE EthereumTxFails
    BY <1>6, <1>8 DEF EthereumTxFails
  <1>9. CASE EthereumTxSucceeds
    <2>1. CASE HooksSet /\ enableEVMHook /\ phase' = "hook" /\ UNCHANGED <<ledger, switches, logs, saved>>
      BY <1>9, <2>1 DEF EthereumTxSucceeds, ledger, switches, TypeOK
    <2> QED
      BY <1>6, <1>7, <1>9, <2>1 DEF EthereumTxSucceeds
  <1>10. CASE PostTxProcessing
    <2> DEFINE log == Head(logs)
    <2>1. Tail(logs) \in Seq(Log)
      BY <1>10, HeadOfLogs DEF PostTxProcessing
    <2>2. log.pair \in Pairs /\ log.from \in Users /\ log.amount \in Nat
      BY <1>10, HeadOfLogs DEF PostTxProcessing
    <2> HIDE DEF log
    <2>3. ASSUME NextLog, UNCHANGED switches,
                 coins' \in Balances, tokens' \in Balances, coinSupply' \in Supplies, tokenSupply' \in Supplies
          PROVE  TypeOK'
      BY <1>10, <2>1, <2>3 DEF PostTxProcessing, NextLog, switches, TypeOK
    <2>4. CASE HookDisabledPair(log)
      BY <1>6, <1>10, <2>4 DEF PostTxProcessing, HookDisabledPair
    <2>5. CASE HookSkip(log)
      BY <2>3, <2>5 DEF HookSkip, ledger, TypeOK
    <2>6. CASE HookBurn(log)
      <3>1. coins' \in Balances
        BY <1>0, <2>2, <2>6, TransferFacts DEF HookBurn, Move, TypeOK
      <3>2. tokens' \in Balances
        BY <1>0, <2>2, <2>6, DebitFacts DEF HookBurn, TypeOK
      <3>3. tokenSupply' \in Supplies
        BY <2>2, <2>6 DEF HookBurn, Supplies, TypeOK
      <3> QED
        BY <2>3, <2>6, <3>1, <3>2, <3>3 DEF HookBurn, TypeOK
    <2>7. CASE HookMint(log)
      <3>1. coins' \in Balances
        BY <1>0, <2>2, <2>7, CreditFacts DEF HookMint, TypeOK
      <3>2. coinSupply' \in Supplies
        BY <2>2, <2>7 DEF HookMint, Supplies, TypeOK
      <3> QED
        BY <2>3, <2>7, <3>1, <3>2 DEF HookMint, TypeOK
    <2> QED
      BY <1>10, <2>4, <2>5, <2>6, <2>7 DEF PostTxProcessing, log
  <1>11. CASE EthereumTxEnds
    BY <1>7, <1>11 DEF EthereumTxEnds
  <1>12. ASSUME NEW p \in Pairs, ToggleRelay(p)
         PROVE  TypeOK'
    BY <1>12 DEF ToggleRelay, ledger, transaction, TypeOK
  <1>13. ASSUME NEW relayer \in BOOLEAN, NEW hook \in BOOLEAN, SetParams(relayer, hook)
         PROVE  TypeOK'
    BY <1>13 DEF SetParams, ledger, transaction, TypeOK
  <1>14. ASSUME NEW p \in Pairs, NEW enabled \in BOOLEAN, SetSendEnabled(p, enabled)
         PROVE  TypeOK'
    BY <1>14 DEF SetSendEnabled, ledger, transaction, TypeOK
  <1>15. CASE UNCHANGED vars
    BY <1>15 DEF vars, ledger, switches, transaction, TypeOK
  <1> QED
    BY <1>1, <1>2, <1>3, <1>4, <1>5, <1>8, <1>9, <1>10, <1>11, <1>12, <1>13, <1>14, <1>15 DEF Next

\* No conversion, hook or reverted transaction makes a balance negative.
THEOREM TypeCorrect == Spec => []TypeOK
  BY TypeInit, TypeNext, PTL DEF Spec
-----------------------------------------------------------------------------
(* Module-owned pairs: escrowed coins back the tokens.                     *)

\* The same of the ledger a transaction goes back to when it fails.
SavedCoinsBackTokens ==
    phase # "idle" => \A p \in ModuleOwned : saved.tokenSupply[p] <= saved.coins[p][Module]

CoinInv == TypeOK /\ CoinsBackTokens /\ SavedCoinsBackTokens

\* At the start there are no tokens.
LEMMA CoinInvInit == Init => CoinInv
  <1> SUFFICES ASSUME Init
               PROVE  CoinsBackTokens /\ SavedCoinsBackTokens
    BY TypeInit DEF CoinInv
  <1>1. \A p \in ModuleOwned : tokenSupply[p] = 0 /\ coins[p][Module] = 0
    BY ConversionAssumption DEF Init, Accounts, External
  <1>2. phase = "idle"
    BY DEF Init
  <1> QED
    BY <1>1, <1>2 DEF CoinsBackTokens, SavedCoinsBackTokens

\* Every mint of tokens escrows as many coins first; coins are released only
\* for tokens that are burned.
LEMMA CoinInvNext == CoinInv /\ [Next]_vars => CoinInv'
  <1> SUFFICES ASSUME CoinInv, [Next]_vars
               PROVE  CoinsBackTokens' /\ SavedCoinsBackTokens'
    BY TypeNext DEF CoinInv
  <1>0. /\ TypeOK
        /\ \A n \in Amounts : n \in Nat
        /\ Module \in Accounts /\ Module \notin Users
        /\ \A u \in Users : u \in Accounts
        /\ ModuleOwned \subseteq Pairs
        /\ coins \in Balances /\ tokens \in Balances
        /\ coinSupply \in Supplies /\ tokenSupply \in Supplies
    <2>1. TypeOK
      BY DEF CoinInv
    <2> QED
      BY <2>1, TypeFacts, ConversionAssumption
  <1>00. /\ \A q \in Pairs : coinSupply[q] \in Int /\ tokenSupply[q] \in Int
         /\ \A q \in Pairs, a \in Accounts : coins[q][a] \in Nat /\ tokens[q][a] \in Nat
    BY <1>0, TypeFacts
  <1>1. ASSUME NEW sender \in Users, NEW receiver \in Accounts, NEW p \in Pairs, NEW n \in Amounts,
               ConvertCoin(sender, receiver, p, n)
        PROVE  CoinsBackTokens' /\ SavedCoinsBackTokens'
    <2>1. CASE p \in ModuleOwned /\ convertCoinNativeCoin(sender, receiver, p, n)
      <3>a. \A q \in Pairs, c \in Accounts :
            coins'[q][c] = coins[q][c] - (IF q = p /\ c = sender THEN n ELSE 0)
                                       + (IF q = p /\ c = Module THEN n ELSE 0)
        BY <2>1, <1>0, TransferFacts DEF convertCoinNativeCoin, Move
      <3>1. \A q \in Pairs : coins'[q][Module] = IF q = p THEN coins[q][Module] + n ELSE coins[q][Module]
        BY <1>0, <1>00, <3>a
      <3>2. \A q \in Pairs : tokenSupply'[q] = IF q = p THEN tokenSupply[q] + n ELSE tokenSupply[q]
        BY <2>1, <1>0 DEF convertCoinNativeCoin, Supplies
      <3> QED
        BY <1>0, <1>00, <1>1, <3>1, <3>2 DEF ConvertCoin, transaction, CoinInv, CoinsBackTokens, SavedCoinsBackTokens
    <2>2. CASE p \in External /\ convertCoinNativeERC20(sender, receiver, p, n)
      <3>a. \A q \in Pairs, c \in Accounts :
              coins'[q][c] = IF q = p /\ c = sender THEN coins[q][c] - n ELSE coins[q][c]
        BY <2>2, <1>0, DebitFacts DEF convertCoinNativeERC20
      <3>1. \A q \in ModuleOwned : coins'[q][Module] = coins[q][Module]
        BY <1>0, <2>2, <3>a DEF External
      <3> QED
        BY <1>1, <2>2, <3>1 DEF ConvertCoin, convertCoinNativeERC20, transaction, CoinInv, CoinsBackTokens, SavedCoinsBackTokens
    <2> QED
      BY <1>1, <2>1, <2>2 DEF ConvertCoin
  <1>2. ASSUME NEW sender \in Users, NEW receiver \in Accounts, NEW p \in Pairs, NEW n \in Amounts,
               ConvertERC20(sender, receiver, p, n)
        PROVE  CoinsBackTokens' /\ SavedCoinsBackTokens'
    <2>1. CASE p \in ModuleOwned /\ convertERC20NativeCoin(sender, receiver, p, n)
      <3>a. \A q \in Pairs, c \in Accounts :
            coins'[q][c] = coins[q][c] - (IF q = p /\ c = Module THEN n ELSE 0)
                                       + (IF q = p /\ c = receiver THEN n ELSE 0)
        BY <2>1, <1>0, TransferFacts DEF convertERC20NativeCoin, Move
      <3>1. \A q \in Pairs : coins'[q][Module] >= IF q = p THEN coins[q][Module] - n ELSE coins[q][Module]
        BY <1>0, <1>00, <3>a
      <3>2. \A q \in Pairs : tokenSupply'[q] = IF q = p THEN tokenSupply[q] - n ELSE tokenSupply[q]
        BY <2>1, <1>0 DEF convertERC20NativeCoin, Supplies
      <3>3. \A q \in Pairs : coins'[q][Module] \in Nat
        BY <1>0, <1>00, <3>a, <2>1 DEF convertERC20NativeCoin
      <3> QED
        BY <1>0, <1>00, <1>2, <3>1, <3>2, <3>3 DEF ConvertERC20, transaction, CoinInv, CoinsBackTokens, SavedCoinsBackTokens
    <2>2. CASE p \in External /\ convertERC20NativeToken(sender, receiver, p, n)
      <3>a. \A q \in Pairs, c \in Accounts :
              coins'[q][c] = IF q = p /\ c = receiver THEN coins[q][c] + n ELSE coins[q][c]
        <4>1. coins' = Credit(coins, p, receiver, n)
          BY <2>2 DEF convertERC20NativeToken
        <4>2. coins \in Balances /\ n \in Nat
          BY <1>0
        <4> QED
          BY <4>1, <4>2, CreditFacts
      <3>1. \A q \in ModuleOwned : coins'[q][Module] = coins[q][Module]
        BY <1>0, <1>00, <2>2, <3>a DEF External
      <3> QED
        BY <1>2, <2>2, <3>1 DEF ConvertERC20, convertERC20NativeToken, transaction, CoinInv, CoinsBackTokens, SavedCoinsBackTokens
    <2> QED
      BY <1>2, <2>1, <2>2 DEF ConvertERC20
  <1>3. ASSUME NEW sender \in Users, NEW receiver \in Accounts, NEW p \in Pairs, NEW n \in Amounts,
               Send(sender, receiver, p, n)
        PROVE  CoinsBackTokens' /\ SavedCoinsBackTokens'
    <2>a. \A q \in Pairs, c \in Accounts :
            coins'[q][c] = coins[q][c] - (IF q = p /\ c = sender THEN n ELSE 0)
                                       + (IF q = p /\ c = receiver THEN n ELSE 0)
      <3>1. coins' = Credit(Debit(coins, p, sender, n), p, receiver, n) /\ coins[p][sender] >= n
        BY <1>3 DEF Send, Move
      <3> QED
        BY <1>0, <3>1, TransferFacts
    <2>b. receiver # Module
      BY <1>3 DEF Send, BlockedAddrs
    <2>1. \A q \in Pairs : coins'[q][Module] = coins[q][Module]
      BY <1>0, <1>00, <2>a, <2>b
    <2> QED
      BY <1>0, <1>3, <2>1 DEF Send, transaction, CoinInv, CoinsBackTokens, SavedCoinsBackTokens
  <1>4. CASE BeginEthereumTx
    BY <1>4 DEF BeginEthereumTx, ledger, CoinInv, CoinsBackTokens, SavedCoinsBackTokens
  <1>5. ASSUME NEW from \in Users, NEW to \in Accounts \cup {Zero}, NEW p \in Pairs, NEW n \in Amounts,
               ERC20Transfer(from, to, p, n)
        PROVE  CoinsBackTokens' /\ SavedCoinsBackTokens'
    <2>1. \A q \in Pairs : tokenSupply'[q] <= tokenSupply[q] /\ tokenSupply'[q] \in Int
      <3>1. CASE to # Zero
        BY <1>0, <1>00, <1>5, <3>1 DEF ERC20Transfer
      <3>2. CASE to = Zero
        <4>1. tokenSupply' = [tokenSupply EXCEPT ![p] = @ - n]
          BY <1>5, <3>2 DEF ERC20Transfer
        <4> QED
          BY <1>0, <1>00, <4>1 DEF Supplies
      <3> QED
        BY <3>1, <3>2
    <2> QED
      BY <1>0, <1>00, <1>5, <2>1 DEF ERC20Transfer, CoinInv, CoinsBackTokens, SavedCoinsBackTokens
  <1>6. ASSUME Revert, phase # "idle"
        PROVE  CoinsBackTokens' /\ SavedCoinsBackTokens'
    BY <1>6 DEF Revert, CoinInv, CoinsBackTokens, SavedCoinsBackTokens
  <1>7. ASSUME Commit
        PROVE  CoinsBackTokens' /\ SavedCoinsBackTokens'
    BY <1>7 DEF Commit, ledger, CoinInv, CoinsBackTokens, SavedCoinsBackTokens
  <1>8. CASE EthereumTxFails
    BY <1>6, <1>8 DEF EthereumTxFails
  <1>9. CASE EthereumTxSucceeds
    <2>1. CASE HooksSet /\ enableEVMHook /\ phase' = "hook" /\ UNCHANGED <<ledger, switches, logs, saved>>
      BY <1>9, <2>1 DEF EthereumTxSucceeds, ledger, CoinInv, CoinsBackTokens, SavedCoinsBackTokens
    <2> QED
      BY <1>6, <1>7, <1>9, <2>1 DEF EthereumTxSucceeds
  <1>10. CASE PostTxProcessing
    <2> DEFINE log == Head(logs)
    <2>1. log.pair \in Pairs /\ log.from \in Users /\ log.amount \in Nat
      BY <1>0, <1>00, <1>10, HeadOfLogs DEF PostTxProcessing
    <2> HIDE DEF log
    <2>2. CASE HookDisabledPair(log)
      BY <1>6, <1>10, <2>2 DEF PostTxProcessing, HookDisabledPair
    <2>3. CASE HookSkip(log)
      BY <1>10, <2>3 DEF PostTxProcessing, HookSkip, NextLog, ledger, CoinInv, CoinsBackTokens, SavedCoinsBackTokens
    <2>4. CASE HookBurn(log)
      <3> DEFINE burns == tokens[log.pair][Module] >= log.amount
      <3>1. \A q \in Pairs : tokenSupply'[q] = IF q = log.pair /\ burns THEN tokenSupply[q] - log.amount
                                                                       ELSE tokenSupply[q]
        BY <1>0, <1>00, <2>1, <2>4 DEF HookBurn, Supplies
      <3>2. \A q \in Pairs : /\ coins'[q][Module] \in Nat
                            /\ coins'[q][Module] >= IF q = log.pair /\ burns THEN coins[q][Module] - log.amount
                                                                              ELSE coins[q][Module]
        <4>1. CASE burns /\ coins[log.pair][Module] >= log.amount
          <5>1. \A q \in Pairs, c \in Accounts :
                  coins'[q][c] = coins[q][c] - (IF q = log.pair /\ c = Module THEN log.amount ELSE 0)
                                             + (IF q = log.pair /\ c = log.from THEN log.amount ELSE 0)
            <6>1. coins' = Credit(Debit(coins, log.pair, Module, log.amount), log.pair, log.from, log.amount)
              BY <2>4, <4>1 DEF HookBurn, Move
            <6> QED
              BY <1>0, <2>1, <4>1, <6>1, TransferFacts
          <5> QED
            BY <1>0, <1>00, <2>1, <4>1, <5>1
        <4>2. CASE ~(burns /\ coins[log.pair][Module] >= log.amount)
          BY <1>0, <1>00, <2>1, <2>4, <4>2 DEF HookBurn
        <4> QED
          BY <4>1, <4>2
      <3> HIDE DEF burns
      <3> QED
        BY <1>0, <1>00, <1>10, <2>1, <2>4, <3>1, <3>2 DEF PostTxProcessing, HookBurn, NextLog, CoinInv, CoinsBackTokens, SavedCoinsBackTokens
    <2>5. CASE HookMint(log)
      <3>a. \A q \in Pairs, c \in Accounts :
              coins'[q][c] = IF q = log.pair /\ c = log.from THEN coins[q][c] + log.amount ELSE coins[q][c]
        <4>1. coins' = Credit(coins, log.pair, log.from, log.amount)
          BY <2>5 DEF HookMint
        <4> QED
          BY <1>0, <2>1, <4>1, CreditFacts
      <3>1. \A q \in ModuleOwned : coins'[q][Module] = coins[q][Module]
        BY <1>0, <1>00, <2>1, <3>a
      <3> QED
        BY <1>10, <2>5, <3>1 DEF PostTxProcessing, HookMint, NextLog, CoinInv, CoinsBackTokens, SavedCoinsBackTokens
    <2> QED
      BY <1>10, <2>2, <2>3, <2>4, <2>5 DEF PostTxProcessing, log
  <1>11. CASE EthereumTxEnds
    BY <1>7, <1>11 DEF EthereumTxEnds
  <1>12. CASE UNCHANGED <<ledger, transaction>>
    BY <1>12 DEF ledger, transaction, CoinInv, CoinsBackTokens, SavedCoinsBackTokens
  <1> QED
    BY <1>1, <1>2, <1>3, <1>4, <1>5, <1>8, <1>9, <1>10, <1>11, <1>12, GovernanceKeepsLedger

\* No sequence of messages, transfers, hook runs and reverts leaves a token of a
\* module-owned contract without an escrowed coin to be released for it.
THEOREM CoinsAlwaysBackTokens == Spec => []CoinsBackTokens
  BY CoinInvInit, CoinInvNext, PTL DEF Spec, CoinInv
-----------------------------------------------------------------------------
(* External pairs: escrowed tokens back the coins.                         *)

\* What the hook mints for a log of pair p.
Contribution(log, p) == IF log.pair = p /\ log.to = Module THEN log.amount ELSE 0

\* The tokens held cover the supply and all that the hook has yet to mint for
\* the logs ls: some running total of the supply, one value before each log and
\* one after the last, grows by at least what the log adds and ends below held.
\* It takes the place of a sum over the logs.
Covered(ls, supply, held, p) ==
    \E total \in [1..(Len(ls) + 1) -> Int] :
        /\ supply <= total[1]
        /\ total[Len(ls) + 1] <= held
        /\ \A i, j \in 1..(Len(ls) + 1) : i <= j => total[i] <= total[j]
        /\ \A i \in 1..Len(ls) : total[i] + Contribution(ls[i], p) <= total[i + 1]

\* The amount of a log is a natural number.
LEMMA ContributionNat ==
    ASSUME NEW log \in Log, NEW p \in Pairs
    PROVE  Contribution(log, p) \in Nat
  <1>1. log.amount \in Amounts
    BY DEF Log
  <1> QED
    BY <1>1, ConversionAssumption DEF Contribution, Amounts

\* With no logs left the supply itself is covered, and that is all.
LEMMA CoveredEmpty ==
    ASSUME NEW supply \in Int, NEW held \in Int, NEW p \in Pairs, supply <= held
    PROVE  Covered(<< >>, supply, held, p)
  <1> DEFINE total == [i \in 1..1 |-> supply]
  <1>1. /\ total \in [1..(Len(<< >>) + 1) -> Int]
        /\ supply <= total[1]
        /\ total[Len(<< >>) + 1] <= held
        /\ \A i, j \in 1..(Len(<< >>) + 1) : i <= j => total[i] <= total[j]
    OBVIOUS
  <1>2. \A i \in 1..Len(<< >>) : total[i] + Contribution(<< >>[i], p) <= total[i + 1]
    OBVIOUS
  <1> HIDE DEF total
  <1> QED
    BY <1>1, <1>2 DEF Covered

\* A covered supply is no more than what is held.
LEMMA CoveredBound ==
    ASSUME NEW ls \in Seq(Log), NEW supply \in Int, NEW held \in Int, NEW p \in Pairs,
           Covered(ls, supply, held, p)
    PROVE  supply <= held
  <1>1. PICK total \in [1..(Len(ls) + 1) -> Int] :
          /\ supply <= total[1]
          /\ total[Len(ls) + 1] <= held
          /\ \A i, j \in 1..(Len(ls) + 1) : i <= j => total[i] <= total[j]
    BY DEF Covered
  <1>2. Len(ls) \in Nat
    OBVIOUS
  <1>3. total[1] <= total[Len(ls) + 1]
    BY <1>1, <1>2
  <1> QED
    BY <1>1, <1>2, <1>3

\* Another log is covered when as much as it adds has arrived.
LEMMA CoveredAppend ==
    ASSUME NEW ls \in Seq(Log), NEW supply \in Int, NEW held \in Int, NEW p \in Pairs,
           Covered(ls, supply, held, p),
           NEW log \in Log, NEW held2 \in Int, held + Contribution(log, p) <= held2
    PROVE  Covered(Append(ls, log), supply, held2, p)
  <1> DEFINE ls2 == Append(ls, log)
             k == Len(ls) + 1
  <1>1. /\ Len(ls) \in Nat /\ k \in Nat /\ k >= 1
        /\ Len(ls2) = k
        /\ ls2[k] = log
        /\ \A i \in 1..Len(ls) : ls2[i] = ls[i]
    BY AppendProperties
  <1>2. PICK total \in [1..(Len(ls) + 1) -> Int] :
          /\ supply <= total[1]
          /\ total[Len(ls) + 1] <= held
          /\ \A i, j \in 1..(Len(ls) + 1) : i <= j => total[i] <= total[j]
          /\ \A i \in 1..Len(ls) : total[i] + Contribution(ls[i], p) <= total[i + 1]
    BY DEF Covered
  <1>3. Contribution(log, p) \in Nat
    BY ContributionNat
  <1> DEFINE total2 == [i \in 1..(k + 1) |-> IF i <= k THEN total[i] ELSE total[k] + Contribution(log, p)]
  <1> HIDE DEF ls2
  <1>4. total2 \in [1..(Len(ls2) + 1) -> Int]
    BY <1>1, <1>2, <1>3
  <1>5. /\ \A i \in 1..k : total2[i] = total[i]
        /\ total2[k + 1] = total[k] + Contribution(log, p)
    BY <1>1
  <1>5a. \A i \in 1..k : total[i] \in Int
    BY <1>2
  <1> HIDE DEF total2
  <1>6. supply <= total2[1] /\ total2[Len(ls2) + 1] <= held2
    BY <1>1, <1>2, <1>3, <1>5, <1>5a
  <1>7. \A i, j \in 1..(Len(ls2) + 1) : i <= j => total2[i] <= total2[j]
    <2> SUFFICES ASSUME NEW i \in 1..(k + 1), NEW j \in 1..(k + 1), i <= j
                 PROVE  total2[i] <= total2[j]
      BY <1>1
    <2>1. CASE j \in 1..k
      BY <1>1, <1>2, <1>5, <2>1
    <2>2. CASE i \in 1..k /\ j = k + 1
      <3>1. total[i] <= total[k]
        BY <1>1, <1>2, <2>2
      <3> QED
        BY <1>1, <1>3, <1>5, <1>5a, <2>2, <3>1
    <2>3. CASE i = k + 1 /\ j = k + 1
      BY <1>1, <1>3, <1>5, <1>5a, <2>3
    <2> QED
      BY <1>1, <2>1, <2>2, <2>3
  <1>8. \A i \in 1..Len(ls2) : total2[i] + Contribution(ls2[i], p) <= total2[i + 1]
    <2> SUFFICES ASSUME NEW i \in 1..k
                 PROVE  total2[i] + Contribution(ls2[i], p) <= total2[i + 1]
      BY <1>1
    <2>1. CASE i \in 1..Len(ls)
      <3>1. i + 1 \in 1..k
        BY <1>1, <2>1
      <3> QED
        BY <1>1, <1>2, <1>5, <2>1, <3>1
    <2>2. CASE i = k
      BY <1>1, <1>3, <1>5, <1>5a, <2>2
    <2> QED
      BY <1>1, <2>1, <2>2
  <1>9. Covered(ls2, supply, held2, p)
    BY <1>4, <1>6, <1>7, <1>8 DEF Covered
  <1> QED
    BY <1>9 DEF ls2

\* The hook goes through one log and mints no more than it adds.
LEMMA CoveredTail ==
    ASSUME NEW ls \in Seq(Log), NEW supply \in Int, NEW held \in Int, NEW p \in Pairs,
           Covered(ls, supply, held, p), ls # << >>,
           NEW supply2 \in Int, supply2 <= supply + Contribution(Head(ls), p)
    PROVE  Covered(Tail(ls), supply2, held, p)
  <1> DEFINE ls2 == Tail(ls)
             k == Len(ls)
  <1>1. /\ k \in Nat /\ k >= 1
        /\ ls2 \in Seq(Log) /\ Len(ls2) = k - 1
        /\ \A i \in 1..(k - 1) : ls2[i] = ls[i + 1]
        /\ Head(ls) = ls[1] /\ Head(ls) \in Log
    BY HeadTailProperties
  <1>2. PICK total \in [1..(Len(ls) + 1) -> Int] :
          /\ supply <= total[1]
          /\ total[Len(ls) + 1] <= held
          /\ \A i, j \in 1..(Len(ls) + 1) : i <= j => total[i] <= total[j]
          /\ \A i \in 1..Len(ls) : total[i] + Contribution(ls[i], p) <= total[i + 1]
    BY DEF Covered
  <1>3. Contribution(Head(ls), p) \in Nat
    BY <1>1, ContributionNat
  <1> DEFINE total2 == [i \in 1..k |-> total[i + 1]]
  <1> HIDE DEF ls2
  <1>4. total2 \in [1..(Len(ls2) + 1) -> Int]
    BY <1>1, <1>2
  <1>5. \A i \in 1..k : total2[i] = total[i + 1]
    OBVIOUS
  <1>5a. \A i \in 1..(k + 1) : total[i] \in Int
    BY <1>2
  <1> HIDE DEF total2
  <1>6. supply2 <= total2[1] /\ total2[Len(ls2) + 1] <= held
    <2>1. total[1] + Contribution(Head(ls), p) <= total[2]
      BY <1>1, <1>2
    <2>2. total[1] \in Int /\ total[2] \in Int /\ total2[1] = total[2] /\ supply <= total[1]
      BY <1>1, <1>2, <1>5, <1>5a
    <2>3. supply2 <= total2[1]
      BY <1>3, <2>1, <2>2
    <2>4. total2[Len(ls2) + 1] = total[Len(ls) + 1]
      BY <1>1, <1>5
    <2> QED
      BY <1>2, <2>3, <2>4
  <1>7. \A i, j \in 1..(Len(ls2) + 1) : i <= j => total2[i] <= total2[j]
    <2> SUFFICES ASSUME NEW i \in 1..k, NEW j \in 1..k, i <= j
                 PROVE  total2[i] <= total2[j]
      BY <1>1
    <2>1. i + 1 \in 1..(k + 1) /\ j + 1 \in 1..(k + 1) /\ i + 1 <= j + 1
      BY <1>1
    <2> QED
      BY <1>2, <1>5, <2>1
  <1>8. \A i \in 1..Len(ls2) : total2[i] + Contribution(ls2[i], p) <= total2[i + 1]
    <2> SUFFICES ASSUME NEW i \in 1..(k - 1)
                 PROVE  total2[i] + Contribution(ls2[i], p) <= total2[i + 1]
      BY <1>1
    <2>1. i \in 1..k /\ i + 1 \in 1..k /\ ls2[i] = ls[i + 1]
      BY <1>1
    <2>2. total[i + 1] + Contribution(ls[i + 1], p) <= total[(i + 1) + 1]
      BY <1>2, <2>1
    <2> QED
      BY <1>5, <2>1, <2>2
  <1>9. Covered(ls2, supply2, held, p)
    BY <1>4, <1>6, <1>7, <1>8 DEF Covered
  <1> QED
    BY <1>9 DEF ls2

\* The invariant of external pairs, for contracts that transfer what they are told.
LogsIdle == phase = "idle" => logs = << >>
LogsCovered == \A p \in External : Covered(logs, coinSupply[p], tokens[p][Module], p)
SavedTokensBackCoins ==
    phase # "idle" => \A p \in External : saved.coinSupply[p] <= saved.tokens[p][Module]

TokenInv == TypeOK /\ LogsIdle /\ LogsCovered /\ SavedTokensBackCoins

\* At the start there are no coins.
LEMMA TokenInvInit == Init => TokenInv
  <1> SUFFICES ASSUME Init
               PROVE  LogsIdle /\ LogsCovered /\ SavedTokensBackCoins
    BY TypeInit DEF TokenInv
  <1>1. \A p \in External : coinSupply[p] = 0 /\ tokens[p][Module] = 0
    BY ConversionAssumption DEF Init, Accounts, External
  <1>2. phase = "idle" /\ logs = << >>
    BY DEF Init
  <1>3. \A p \in External : p \in Pairs
    BY DEF External
  <1> QED
    BY <1>1, <1>2, <1>3, CoveredEmpty DEF LogsIdle, LogsCovered, SavedTokensBackCoins

\* The invariant gives the property.
LEMMA TokenInvBacks == TokenInv => TokensBackCoins
  <1> SUFFICES ASSUME TokenInv, NEW p \in External
               PROVE  coinSupply[p] <= tokens[p][Module]
    BY DEF TokensBackCoins
  <1>1. /\ p \in Pairs /\ logs \in Seq(Log)
        /\ coinSupply[p] \in Int /\ tokens[p][Module] \in Int
    BY TypeFacts DEF TokenInv, TypeOK, External
  <1> QED
    BY <1>1, CoveredBound DEF TokenInv, LogsCovered

\* Coins are minted for tokens that have arrived, by the messages at once and by
\* the hook log by log; tokens are released only for coins that are burned.
LEMMA TokenInvNext ==
    ASSUME ExactTransfer = Pairs, TokenInv, [Next]_vars
    PROVE  TokenInv'
  <1> DEFINE Goal == LogsIdle' /\ LogsCovered' /\ SavedTokensBackCoins'
  <1> SUFFICES Goal
    BY TypeNext DEF TokenInv
  <1>0. /\ TypeOK /\ TypeOK'
        /\ \A n \in Amounts : n \in Nat
        /\ Module \in Accounts /\ Module \notin Users
        /\ \A u \in Users : u \in Accounts
        /\ \A q \in External : q \in Pairs
        /\ coins \in Balances /\ tokens \in Balances
        /\ coinSupply \in Supplies /\ tokenSupply \in Supplies
    <2>1. TypeOK /\ TypeOK'
      BY TypeNext DEF TokenInv
    <2> QED
      BY <2>1, TypeFacts DEF External
  <1>00. /\ \A q \in Pairs : coinSupply[q] \in Int
         /\ \A q \in Pairs, a \in Accounts : tokens[q][a] \in Nat
    BY <1>0, TypeFacts
  <1>000. /\ \A q \in Pairs : coinSupply'[q] \in Int
          /\ \A q \in Pairs : tokens'[q][Module] \in Int
    <2>1. coinSupply' \in Supplies /\ tokens' \in Balances
      BY <1>0 DEF TypeOK
    <2> QED
      BY <1>0, <2>1 DEF Supplies, Balances
  <1>a. \A q \in External : coinSupply[q] <= tokens[q][Module]
    BY TokenInvBacks DEF TokensBackCoins
  \* Between transactions there are no logs.
  <1>b. ASSUME phase' = "idle", logs' = << >>, \A q \in External : coinSupply'[q] <= tokens'[q][Module]
        PROVE  Goal
    BY <1>0, <1>000, <1>b, CoveredEmpty DEF LogsIdle, LogsCovered, SavedTokensBackCoins
  <1>c. ASSUME phase = "idle", UNCHANGED transaction,
               \A q \in External : coinSupply'[q] <= tokens'[q][Module]
        PROVE  Goal
    BY <1>b, <1>c DEF TokenInv, LogsIdle, transaction
  <1>d. ASSUME UNCHANGED <<tokens, coinSupply, logs, saved>>, (phase = "idle") <=> (phase' = "idle")
        PROVE  Goal
    BY <1>d DEF TokenInv, LogsIdle, LogsCovered, SavedTokensBackCoins
  <1> HIDE DEF Goal
  <1>1. ASSUME NEW sender \in Users, NEW receiver \in Accounts, NEW p \in Pairs, NEW n \in Amounts,
               ConvertCoin(sender, receiver, p, n)
        PROVE  Goal
    <2>0. phase = "idle" /\ UNCHANGED transaction
      BY <1>1 DEF ConvertCoin
    <2>1. CASE p \in ModuleOwned /\ convertCoinNativeCoin(sender, receiver, p, n)
      <3>1. tokens' = Credit(tokens, p, receiver, n) /\ coinSupply' = coinSupply /\ tokens \in Balances /\ n \in Nat
        BY <1>0, <2>1 DEF convertCoinNativeCoin
      <3>2. \A q \in Pairs, c \in Accounts :
              tokens'[q][c] = IF q = p /\ c = receiver THEN tokens[q][c] + n ELSE tokens[q][c]
        BY <3>1, CreditFacts
      <3>3. \A q \in External : tokens'[q][Module] = tokens[q][Module]
        BY <1>0, <2>1, <3>2 DEF External
      <3> QED
        BY <1>a, <1>c, <2>0, <3>1, <3>3
    <2>2. CASE p \in External /\ convertCoinNativeERC20(sender, receiver, p, n)
      <3>1. PICK m \in Received(p, n) : tokens' = Credit(Debit(tokens, p, Module, n), p, receiver, m)
        BY <2>2 DEF convertCoinNativeERC20
      <3>2. m \in Nat /\ n \in Nat /\ tokens \in Balances /\ tokens[p][Module] >= n /\ Module \in Accounts
        BY <1>0, <2>2, <3>1, ReceivedFacts DEF convertCoinNativeERC20
      <3>3. \A q \in Pairs, c \in Accounts :
              tokens'[q][c] = tokens[q][c] - (IF q = p /\ c = Module THEN n ELSE 0)
                                           + (IF q = p /\ c = receiver THEN m ELSE 0)
        BY <3>1, <3>2, TransferFacts
      <3>4. \A q \in Pairs : coinSupply'[q] = IF q = p THEN coinSupply[q] - n ELSE coinSupply[q]
        BY <1>0, <2>2 DEF convertCoinNativeERC20, Supplies
      <3>5. \A q \in Pairs : coinSupply[q] <= tokens[q][Module] => coinSupply'[q] <= tokens'[q][Module]
        BY <1>0, <1>00, <3>2, <3>3, <3>4
      <3> QED
        BY <1>0, <1>a, <1>c, <2>0, <3>5
    <2> QED
      BY <1>1, <2>1, <2>2 DEF ConvertCoin
  <1>2. ASSUME NEW sender \in Users, NEW receiver \in Accounts, NEW p \in Pairs, NEW n \in Amounts,
               ConvertERC20(sender, receiver, p, n)
        PROVE  Goal
    <2>0. phase = "idle" /\ UNCHANGED transaction
      BY <1>2 DEF ConvertERC20
    <2>1. CASE p \in ModuleOwned /\ convertERC20NativeCoin(sender, receiver, p, n)
      <3>1. /\ tokens' = Debit(tokens, p, sender, n) /\ coinSupply' = coinSupply
            /\ tokens \in Balances /\ n \in Nat /\ tokens[p][sender] >= n /\ sender \in Accounts
        BY <1>0, <2>1 DEF convertERC20NativeCoin
      <3>2. \A q \in Pairs, c \in Accounts :
              tokens'[q][c] = IF q = p /\ c = sender THEN tokens[q][c] - n ELSE tokens[q][c]
        BY <3>1, DebitFacts
      <3>3. \A q \in External : tokens'[q][Module] = tokens[q][Module]
        BY <1>0, <3>2
      <3> QED
        BY <1>a, <1>c, <2>0, <3>1, <3>3
    <2>2. CASE p \in External /\ convertERC20NativeToken(sender, receiver, p, n)
      <3>1. PICK m \in Received(p, n) : tokens' = Credit(Debit(tokens, p, sender, n), p, Module, m)
        BY <2>2 DEF convertERC20NativeToken
      <3>2. /\ m = n /\ n \in Nat /\ tokens \in Balances /\ tokens[p][sender] >= n
            /\ sender \in Accounts /\ Module \in Accounts
        BY <1>0, <2>2, <3>1, ReceivedFacts DEF convertERC20NativeToken
      <3>3. \A q \in Pairs, c \in Accounts :
              tokens'[q][c] = tokens[q][c] - (IF q = p /\ c = sender THEN n ELSE 0)
                                           + (IF q = p /\ c = Module THEN n ELSE 0)
        BY <3>1, <3>2, TransferFacts
      <3>4. \A q \in Pairs : coinSupply'[q] = IF q = p THEN coinSupply[q] + n ELSE coinSupply[q]
        BY <1>0, <2>2 DEF convertERC20NativeToken, Supplies
      <3>5. \A q \in Pairs : coinSupply[q] <= tokens[q][Module] => coinSupply'[q] <= tokens'[q][Module]
        BY <1>0, <1>00, <3>2, <3>3, <3>4
      <3> QED
        BY <1>0, <1>a, <1>c, <2>0, <3>5
    <2> QED
      BY <1>2, <2>1, <2>2 DEF ConvertERC20
  <1>3. ASSUME NEW sender \in Users, NEW receiver \in Accounts, NEW p \in Pairs, NEW n \in Amounts,
               Send(sender, receiver, p, n)
        PROVE  Goal
    BY <1>d, <1>3 DEF Send, transaction
  <1>4. CASE BeginEthereumTx
    <2>1. phase' = "evm" /\ logs' = << >> /\ coinSupply' = coinSupply /\ tokens' = tokens
      BY <1>4 DEF BeginEthereumTx, ledger
    <2>2. LogsCovered'
      BY <1>0, <1>000, <1>a, <2>1, CoveredEmpty DEF LogsCovered
    <2>3. SavedTokensBackCoins'
      BY <1>4, <1>a DEF BeginEthereumTx, SavedTokensBackCoins
    <2> QED
      BY <2>1, <2>2, <2>3 DEF Goal, LogsIdle
  <1>5. ASSUME NEW from \in Users, NEW to \in Accounts \cup {Zero}, NEW p \in Pairs, NEW n \in Amounts,
               ERC20Transfer(from, to, p, n)
        PROVE  Goal
    <2> DEFINE log == [pair |-> p, from |-> from, to |-> to, amount |-> n]
    <2>1. log \in Log /\ logs' = Append(logs, log) /\ logs \in Seq(Log)
      BY <1>0, <1>5 DEF ERC20Transfer, Log, TypeOK
    <2>2. \A q \in Pairs : Contribution(log, q) = IF p = q /\ to = Module THEN n ELSE 0
      BY DEF Contribution
    <2> HIDE DEF log
    <2>3. \A q \in Pairs : tokens[q][Module] + Contribution(log, q) <= tokens'[q][Module]
      <3>1. CASE to # Zero
        <4>1. PICK m \in Received(p, n) : tokens' = Credit(Debit(tokens, p, from, n), p, to, m)
          BY <1>5, <3>1 DEF ERC20Transfer
        <4>2. /\ m = n /\ n \in Nat /\ tokens \in Balances /\ tokens[p][from] >= n
              /\ from \in Accounts /\ to \in Accounts
          BY <1>0, <1>5, <3>1, <4>1, ReceivedFacts DEF ERC20Transfer
        <4>3. \A q \in Pairs, c \in Accounts :
                tokens'[q][c] = tokens[q][c] - (IF q = p /\ c = from THEN n ELSE 0)
                                             + (IF q = p /\ c = to THEN n ELSE 0)
          BY <4>1, <4>2, TransferFacts
        <4> QED
          BY <1>0, <1>00, <2>2, <4>2, <4>3
      <3>2. CASE to = Zero
        <4>1. /\ tokens' = Debit(tokens, p, from, n) /\ tokens \in Balances
              /\ n \in Nat /\ tokens[p][from] >= n /\ from \in Accounts
          BY <1>0, <1>5, <3>2 DEF ERC20Transfer
        <4>2. \A q \in Pairs, c \in Accounts :
                tokens'[q][c] = IF q = p /\ c = from THEN tokens[q][c] - n ELSE tokens[q][c]
          BY <4>1, DebitFacts
        <4>3. Module # Zero
          BY <1>0, ConversionAssumption
        <4> QED
          BY <1>0, <1>00, <2>2, <3>2, <4>2, <4>3
      <3> QED
        BY <3>1, <3>2
    <2>4. \A q \in External : Covered(Append(logs, log), coinSupply[q], tokens'[q][Module], q)
      <3> SUFFICES ASSUME NEW q \in External
                   PROVE  Covered(Append(logs, log), coinSupply[q], tokens'[q][Module], q)
        OBVIOUS
      <3>1. /\ q \in Pairs /\ coinSupply[q] \in Int
            /\ tokens[q][Module] \in Int /\ tokens'[q][Module] \in Int
            /\ Covered(logs, coinSupply[q], tokens[q][Module], q)
        BY <1>0, <1>00, <1>000 DEF TokenInv, LogsCovered
      <3> QED
        BY <2>1, <2>3, <3>1, CoveredAppend
    <2>5. coinSupply' = coinSupply /\ phase' = phase /\ saved' = saved /\ phase = "evm"
      BY <1>5 DEF ERC20Transfer
    <2> QED
      BY <2>1, <2>4, <2>5 DEF Goal, TokenInv, LogsIdle, LogsCovered, SavedTokensBackCoins
  <1>6. ASSUME Revert, phase # "idle"
        PROVE  Goal
    BY <1>b, <1>6 DEF Revert, TokenInv, SavedTokensBackCoins
  <1>7. ASSUME Commit
        PROVE  Goal
    BY <1>a, <1>b, <1>7 DEF Commit, ledger
  <1>8. CASE EthereumTxFails
    BY <1>6, <1>8 DEF EthereumTxFails
  <1>9. CASE EthereumTxSucceeds
    <2>1. CASE HooksSet /\ enableEVMHook /\ phase' = "hook" /\ UNCHANGED <<ledger, switches, logs, saved>>
      BY <1>d, <1>9, <2>1 DEF EthereumTxSucceeds, ledger
    <2> QED
      BY <1>6, <1>7, <1>9, <2>1 DEF EthereumTxSucceeds
  <1>10. CASE PostTxProcessing
    <2> DEFINE log == Head(logs)
    <2>1. /\ log.pair \in Pairs /\ log.from \in Users /\ log.amount \in Nat
          /\ logs \in Seq(Log) /\ logs # << >> /\ log \in Log
      BY <1>0, <1>10, HeadOfLogs, HeadTailProperties DEF PostTxProcessing, TypeOK
    <2>2. ASSUME NextLog, \A q \in External : tokens'[q][Module] = tokens[q][Module],
                 \A q \in External : coinSupply'[q] <= coinSupply[q] + Contribution(log, q)
          PROVE  Goal
      <3>1. \A q \in External : Covered(Tail(logs), coinSupply'[q], tokens'[q][Module], q)
        <4> SUFFICES ASSUME NEW q \in External
                     PROVE  Covered(Tail(logs), coinSupply'[q], tokens[q][Module], q)
          BY <2>2
        <4>1. /\ q \in Pairs /\ coinSupply[q] \in Int /\ coinSupply'[q] \in Int /\ tokens[q][Module] \in Int
              /\ Covered(logs, coinSupply[q], tokens[q][Module], q)
          BY <1>0, <1>00, <1>000 DEF TokenInv, LogsCovered
        <4> QED
          BY <2>1, <2>2, <4>1, CoveredTail
      <3> QED
        BY <1>10, <2>2, <3>1 DEF Goal, PostTxProcessing, NextLog, TokenInv, LogsIdle, LogsCovered, SavedTokensBackCoins
    <2>3. \A q \in Pairs : /\ Contribution(log, q) \in Nat
                          /\ coinSupply[q] <= coinSupply[q] + Contribution(log, q)
      BY <1>00, <2>1, ContributionNat
    <2> HIDE DEF log
    <2>4. CASE HookDisabledPair(log)
      BY <1>6, <1>10, <2>4 DEF PostTxProcessing, HookDisabledPair
    <2>5. CASE HookSkip(log)
      BY <1>0, <2>2, <2>3, <2>5 DEF HookSkip, ledger
    <2>6. CASE HookBurn(log)
      <3>1. NextLog /\ coinSupply' = coinSupply /\ log.pair \notin External
        BY <2>6 DEF HookBurn, External
      <3>2. \A q \in External : tokens'[q][Module] = tokens[q][Module]
        <4>1. CASE tokens[log.pair][Module] >= log.amount
          <5>1. tokens' = Debit(tokens, log.pair, Module, log.amount)
            BY <2>6, <4>1 DEF HookBurn
          <5>2. \A q \in Pairs, c \in Accounts :
                  tokens'[q][c] = IF q = log.pair /\ c = Module THEN tokens[q][c] - log.amount ELSE tokens[q][c]
            BY <1>0, <2>1, <4>1, <5>1, DebitFacts
          <5> QED
            BY <1>0, <3>1, <5>2
        <4>2. CASE ~(tokens[log.pair][Module] >= log.amount)
          BY <2>6, <4>2 DEF HookBurn
        <4> QED
          BY <4>1, <4>2
      <3> QED
        BY <1>0, <2>2, <2>3, <3>1, <3>2
    <2>7. CASE HookMint(log)
      <3>1. NextLog /\ tokens' = tokens /\ log.to = Module
        BY <2>7 DEF HookMint
      <3>2. \A q \in Pairs : coinSupply'[q] = IF q = log.pair THEN coinSupply[q] + log.amount ELSE coinSupply[q]
        BY <1>0, <2>7 DEF HookMint, Supplies
      <3>3. \A q \in Pairs : coinSupply'[q] <= coinSupply[q] + Contribution(log, q)
        BY <1>00, <2>1, <3>1, <3>2 DEF Contribution
      <3> QED
        BY <1>0, <2>2, <3>1, <3>3
    <2> QED
      BY <1>10, <2>4, <2>5, <2>6, <2>7 DEF PostTxProcessing, log
  <1>11. CASE EthereumTxEnds
    BY <1>7, <1>11 DEF EthereumTxEnds
  <1>12. CASE UNCHANGED <<ledger, transaction>>
    BY <1>d, <1>12 DEF ledger, transaction
  <1> QED
    BY <1>1, <1>2, <1>3, <1>4, <1>5, <1>8, <1>9, <1>10, <1>11, <1>12, GovernanceKeepsLedger

\* With contracts that transfer what they are told, no coin of an external pair
\* is ever without an escrowed token, not even between two logs of the hook.
THEOREM TokensAlwaysBackCoins == ExactTransfer = Pairs => (Spec => []TokensBackCoins)
  <1> SUFFICES ASSUME ExactTransfer = Pairs
               PROVE  Spec => []TokensBackCoins
    OBVIOUS
  <1>1. Init => TokenInv
    BY TokenInvInit
  <1>2. TokenInv /\ [Next]_vars => TokenInv'
    BY TokenInvNext
  <1>3. TokenInv => TokensBackCoins
    BY TokenInvBacks
  <1> QED
    BY <1>1, <1>2, <1>3, PTL DEF Spec
=============================================================================
