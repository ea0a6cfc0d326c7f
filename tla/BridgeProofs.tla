----------------------------- MODULE BridgeProofs -----------------------------
(***************************************************************************)
(* Proofs about what whole transactions do to the ledger: that conversions *)
(* implement the bridge, also across updates of a pair; what is converted  *)
(* when it is switched off; what is left with the module account and what  *)
(* the hook finds there; that supplies are the sums of balances and that   *)
(* no step makes the users richer.                                         *)
(*                                                                         *)
(* Each action is first reduced to its effect on balances and supplies.    *)
(***************************************************************************)
EXTENDS PairUpdate, ConversionProofs, FiniteSetTheorems
-----------------------------------------------------------------------------
(* Sums of natural numbers over finite sets.  A sum takes its terms in an  *)
(* order of its own.  What it computes is the number of elements of a heap *)
(* with a column of f[x] elements for each x, which depends on no order;   *)
(* what proofs need to know of sums is a matter of cardinalities.          *)

Sum(f, S) == MapThenSumSet(LAMBDA x : f[x], S)

Column(f, x) == {x} \X (1..f[x])
Heap(f, S) == UNION {Column(f, x) : x \in S}

\* A column has as many elements as its number says.
LEMMA ColumnSize ==
    ASSUME NEW f, NEW x, f[x] \in Nat
    PROVE  IsFiniteSet(Column(f, x)) /\ Cardinality(Column(f, x)) = f[x]
  <1> DEFINE I == 1..f[x]
  <1>1. IsFiniteSet({x}) /\ Cardinality({x}) = 1
    BY FS_Singleton
  <1>2. IsFiniteSet(I) /\ Cardinality(I) = f[x]
    BY FS_Interval
  <1> HIDE DEF I
  <1>3. IsFiniteSet({x} \X I) /\ Cardinality({x} \X I) = 1 * f[x]
    BY <1>1, <1>2, FS_Product
  <1> QED
    BY <1>3 DEF Column, I

\* Finitely many columns are finitely many elements.
LEMMA HeapFinite ==
    ASSUME NEW S, IsFiniteSet(S), NEW f, \A x \in S : f[x] \in Nat
    PROVE  IsFiniteSet(Heap(f, S))
  <1> DEFINE C == {Column(f, x) : x \in S}
             col == [x \in S |-> Column(f, x)]
  <1>1. col \in [S -> C]
    OBVIOUS
  <1>1a. col \in Surjection(S, C)
    BY <1>1 DEF Surjection
  <1>2. \A c \in C : IsFiniteSet(c)
    BY ColumnSize
  <1> HIDE DEF C, col
  <1>3. IsFiniteSet(C)
    BY <1>1a, FS_Surjection
  <1>4. IsFiniteSet(UNION C)
    BY <1>2, <1>3, FS_UNION
  <1> QED
    BY <1>4 DEF Heap, C

\* One column less is its number of elements less.
LEMMA HeapSplit ==
    ASSUME NEW S, IsFiniteSet(S), NEW f, \A x \in S : f[x] \in Nat, NEW a \in S
    PROVE  Cardinality(Heap(f, S)) = f[a] + Cardinality(Heap(f, S \ {a}))
  <1>1. Heap(f, S) = Column(f, a) \cup Heap(f, S \ {a})
    BY DEF Heap
  <1>2. Column(f, a) \cap Heap(f, S \ {a}) = {}
    BY DEF Heap, Column
  <1>3. IsFiniteSet(Column(f, a)) /\ Cardinality(Column(f, a)) = f[a]
    BY ColumnSize
  <1>4. IsFiniteSet(S \ {a})
    BY FS_RemoveElement
  <1>5. IsFiniteSet(Heap(f, S \ {a}))
    BY <1>4, HeapFinite
  <1>6. Cardinality({}) = 0
    BY FS_EmptySet
  <1>7. Cardinality(Heap(f, S \ {a})) \in Nat
    BY <1>5, FS_CardinalityType
  <1> DEFINE A == Column(f, a)
             B == Heap(f, S \ {a})
  <1> HIDE DEF A, B
  <1>8. Cardinality(A \cup B) = Cardinality(A) + Cardinality(B) - Cardinality(A \cap B)
    <2>1. IsFiniteSet(A) /\ IsFiniteSet(B)
      BY <1>3, <1>5 DEF A, B
    <2> QED
      BY <2>1, FS_Union
  <1>9. Heap(f, S) = A \cup B /\ A \cap B = {} /\ Cardinality(A) = f[a] /\ Cardinality(B) \in Nat /\ f[a] \in Nat
    BY <1>1, <1>2, <1>3, <1>7 DEF A, B
  <1>10. Cardinality(Heap(f, S)) = f[a] + Cardinality(B)
    <2>1. Cardinality(A \cup B) = f[a] + Cardinality(B) - 0
      BY <1>6, <1>8, <1>9, Zenon
    <2>2. Cardinality(Heap(f, S)) = Cardinality(A \cup B)
      BY <1>9
    <2> QED
      BY <1>9, <2>1, <2>2
  <1> QED
    BY <1>10 DEF B

\* The element a fold of the community modules takes last.
Chosen(s) == CHOOSE x \in s : TRUE

AddTerm(f, x, a) == f[x] + a
IsHeap(f, T, a) == (\A x \in T : f[x] \in Nat) => a = Cardinality(Heap(f, T))

Sums == INSTANCE FoldTheorems WITH Step <- AddTerm, Pick <- Chosen, P <- IsHeap

\* What a sum computes.
LEMMA SumIsHeap ==
    ASSUME NEW S, IsFiniteSet(S), NEW f, \A x \in S : f[x] \in Nat
    PROVE  Sum(f, S) = Cardinality(Heap(f, S))
  <1>1. IsHeap(f, {}, 0)
    <2>1. Heap(f, {}) = {}
      BY DEF Heap
    <2> QED
      BY <2>1, FS_EmptySet DEF IsHeap
  <1>2. ASSUME NEW T \in SUBSET S, NEW x \in T, NEW a, IsHeap(f, T \ {x}, a)
        PROVE  IsHeap(f, T, AddTerm(f, x, a))
    <2>1. IsFiniteSet(T)
      BY FS_Subset
    <2>2. a = Cardinality(Heap(f, T \ {x}))
      BY <1>2 DEF IsHeap
    <2>3. Cardinality(Heap(f, T)) = f[x] + Cardinality(Heap(f, T \ {x}))
      BY <2>1, HeapSplit
    <2> QED
      BY <2>2, <2>3 DEF IsHeap, AddTerm
  <1>3. Sums!Inductive(f, 0, S)
    BY <1>1, <1>2 DEF Sums!Inductive, Sums!Picks, Chosen
  <1>4. Sums!IsFiniteSet(S)
    BY DEF IsFiniteSet, Sums!IsFiniteSet
  <1>5. IsHeap(f, S, Sums!Fold(f, 0, S))
    BY <1>3, <1>4, Sums!FoldInduction
  <1>6. Sum(f, S) = Sums!Fold(f, 0, S)
    BY DEF Sum, MapThenSumSet, MapThenFoldSet, Sums!Fold, Chosen, AddTerm
  <1> QED
    BY <1>5, <1>6 DEF IsHeap

\* A sum of natural numbers is one.
LEMMA SumNat ==
    ASSUME NEW S, IsFiniteSet(S), NEW f, \A x \in S : f[x] \in Nat
    PROVE  Sum(f, S) \in Nat
  <1>1. Cardinality(Heap(f, S)) \in Nat
    BY HeapFinite, FS_CardinalityType
  <1> QED
    BY <1>1, SumIsHeap

\* A sum without one of its terms.
LEMMA SumSplit ==
    ASSUME NEW S, IsFiniteSet(S), NEW f, \A x \in S : f[x] \in Nat, NEW a \in S
    PROVE  Sum(f, S) = f[a] + Sum(f, S \ {a})
  <1>1. IsFiniteSet(S \ {a}) /\ \A x \in S \ {a} : f[x] \in Nat
    BY FS_RemoveElement
  <1>2. Sum(f, S \ {a}) = Cardinality(Heap(f, S \ {a}))
    BY <1>1, SumIsHeap
  <1>3. Sum(f, S) = Cardinality(Heap(f, S))
    BY SumIsHeap
  <1> QED
    BY <1>2, <1>3, HeapSplit

\* A sum depends on its terms only.
LEMMA SumAgree ==
    ASSUME NEW S, IsFiniteSet(S), NEW f, NEW g, \A x \in S : f[x] \in Nat /\ g[x] = f[x]
    PROVE  Sum(g, S) = Sum(f, S)
  <1>1. Heap(g, S) = Heap(f, S)
    BY DEF Heap, Column
  <1> QED
    BY <1>1, SumIsHeap

\* A sum of zeros.
LEMMA SumZero ==
    ASSUME NEW S, IsFiniteSet(S), NEW f, \A x \in S : f[x] = 0
    PROVE  Sum(f, S) = 0
  <1>1. Heap(f, S) = {}
    BY DEF Heap, Column
  <1> QED
    BY <1>1, SumIsHeap, FS_EmptySet

\* The terms g are the terms f but for m more at c, if that is one of them.
Gives(f, g, c, m, S) ==
    /\ \A x \in S : f[x] \in Nat
    /\ \A x \in S : g[x] = f[x] + (IF x = c THEN m ELSE 0)

\* One term more by m is a sum more by m.
LEMMA SumGive ==
    ASSUME NEW S, IsFiniteSet(S), NEW f, NEW g, NEW c, NEW m \in Nat, Gives(f, g, c, m, S)
    PROVE  Sum(g, S) = Sum(f, S) + (IF c \in S THEN m ELSE 0)
  <1>0. /\ \A x \in S : f[x] \in Nat /\ g[x] \in Nat
        /\ \A x \in S : g[x] = f[x] + (IF x = c THEN m ELSE 0)
    BY DEF Gives
  <1>1. CASE c \in S
    <2>1. IsFiniteSet(S \ {c})
      BY FS_RemoveElement
    <2>2. Sum(g, S \ {c}) = Sum(f, S \ {c})
      BY <1>0, <2>1, SumAgree
    <2>3. Sum(f, S \ {c}) \in Nat
      BY <1>0, <2>1, SumNat
    <2>4. Sum(f, S) = f[c] + Sum(f, S \ {c})
      BY <1>0, <1>1, SumSplit
    <2>5. Sum(g, S) = g[c] + Sum(g, S \ {c})
      BY <1>0, <1>1, SumSplit
    <2>6. g[c] = f[c] + m /\ f[c] \in Nat
      BY <1>0, <1>1
    <2> QED
      BY <1>1, <2>2, <2>3, <2>4, <2>5, <2>6
  <1>2. CASE c \notin S
    <2>1. Sum(g, S) = Sum(f, S)
      BY <1>0, <1>2, SumAgree
    <2>2. Sum(f, S) \in Nat
      BY <1>0, SumNat
    <2> QED
      BY <1>2, <2>1, <2>2
  <1> QED
    BY <1>1, <1>2

\* The terms g are the terms f but for n less at a and m more at c.
Moves(f, g, a, n, c, m, S) ==
    /\ \A x \in S : f[x] \in Nat
    /\ a \in S => f[a] >= n
    /\ \A x \in S : g[x] = f[x] - (IF x = a THEN n ELSE 0) + (IF x = c THEN m ELSE 0)

\* Taking n from one term and giving m to one, either of which may be none of
\* the sum's.
LEMMA SumMove ==
    ASSUME NEW S, IsFiniteSet(S), NEW f, NEW g, NEW a, NEW n \in Nat, NEW c, NEW m \in Nat,
           Moves(f, g, a, n, c, m, S)
    PROVE  /\ Sum(f, S) \in Nat /\ Sum(g, S) \in Nat
           /\ Sum(g, S) = Sum(f, S) - (IF a \in S THEN n ELSE 0) + (IF c \in S THEN m ELSE 0)
  <1> DEFINE h == [x \in S |-> f[x] - (IF x = a THEN n ELSE 0)]
  <1>1. \A x \in S : h[x] \in Nat
    BY DEF Moves
  <1>2. Gives(h, f, a, n, S)
    BY <1>1 DEF Gives, Moves
  <1>3. Gives(h, g, c, m, S)
    BY <1>1 DEF Gives, Moves
  <1> HIDE DEF h
  <1>4. Sum(f, S) = Sum(h, S) + (IF a \in S THEN n ELSE 0)
    BY <1>2, SumGive, Zenon
  <1>5. Sum(g, S) = Sum(h, S) + (IF c \in S THEN m ELSE 0)
    BY <1>3, SumGive, Zenon
  <1>6. Sum(h, S) \in Nat
    BY <1>1, SumNat
  <1> QED
    BY <1>4, <1>5, <1>6
-----------------------------------------------------------------------------
(* The effects of the actions.                                             *)

\* Of pair p, account a loses n and account c then gets m.
Moved(b, b2, p, a, n, c, m) ==
    /\ b2 \in Balances
    /\ \A q \in Pairs, d \in Accounts :
          b2[q][d] = b[q][d] - (IF q = p /\ d = a THEN n ELSE 0) + (IF q = p /\ d = c THEN m ELSE 0)

\* The supply of pair p changes by n.
Added(s, s2, p, n) ==
    /\ s2 \in Supplies
    /\ \A q \in Pairs : s2[q] = s[q] + (IF q = p THEN n ELSE 0)

\* How much of a transfer of n arrives as m.
Arrives(p, n, m) == m \in Nat /\ m <= n /\ (p \in ExactTransfer => m = n)

EscrowsCoins(s, r, p, n) ==
    /\ p \in ModuleOwned
    /\ Moved(coins, coins', p, s, n, Module, n) /\ coins[p][s] >= n
    /\ Moved(tokens, tokens', p, r, 0, r, n)
    /\ coinSupply' = coinSupply
    /\ Added(tokenSupply, tokenSupply', p, n)

BurnsCoins(s, r, p, n, m) ==
    /\ p \in External
    /\ Moved(coins, coins', p, s, n, s, 0) /\ coins[p][s] >= n
    /\ Moved(tokens, tokens', p, Module, n, r, m) /\ tokens[p][Module] >= n
    /\ Added(coinSupply, coinSupply', p, 0 - n)
    /\ tokenSupply' = tokenSupply
    /\ Arrives(p, n, m)

ReleasesCoins(s, r, p, n) ==
    /\ p \in ModuleOwned
    /\ Moved(coins, coins', p, Module, n, r, n) /\ coins[p][Module] >= n
    /\ Moved(tokens, tokens', p, s, n, s, 0) /\ tokens[p][s] >= n
    /\ coinSupply' = coinSupply
    /\ Added(tokenSupply, tokenSupply', p, 0 - n)

EscrowsTokens(s, r, p, n, m) ==
    /\ p \in External
    /\ Moved(coins, coins', p, r, 0, r, n)
    /\ Moved(tokens, tokens', p, s, n, Module, m) /\ tokens[p][s] >= n
    /\ Added(coinSupply, coinSupply', p, n)
    /\ tokenSupply' = tokenSupply
    /\ Arrives(p, n, m)

SendsCoins(s, r, p, n) ==
    /\ Moved(coins, coins', p, s, n, r, n) /\ coins[p][s] >= n
    /\ UNCHANGED <<tokens, coinSupply, tokenSupply>>

TransfersTokens(s, r, p, n, m) ==
    /\ Moved(tokens, tokens', p, s, n, r, m) /\ tokens[p][s] >= n
    /\ UNCHANGED <<coins, coinSupply, tokenSupply>>
    /\ Arrives(p, n, m)

BurnsTokens(s, p, n) ==
    /\ Moved(tokens, tokens', p, s, n, s, 0) /\ tokens[p][s] >= n
    /\ UNCHANGED <<coins, coinSupply>>
    /\ Added(tokenSupply, tokenSupply', p, 0 - n)

MintsCoins(r, p, n) ==
    /\ p \in External
    /\ Moved(coins, coins', p, r, 0, r, n)
    /\ UNCHANGED <<tokens, tokenSupply>>
    /\ Added(coinSupply, coinSupply', p, n)

\* A credit, a debit and a transfer as movements.
LEMMA CreditMoves ==
    ASSUME NEW b \in Balances, NEW p \in Pairs, NEW a \in Accounts, NEW n \in Nat,
           NEW b2, b2 = Credit(b, p, a, n)
    PROVE  Moved(b, b2, p, a, 0, a, n)
  <1>1. /\ b2 \in Balances
        /\ \A q \in Pairs, c \in Accounts :
              b2[q][c] = IF q = p /\ c = a THEN b[q][c] + n ELSE b[q][c]
    BY CreditFacts
  <1>2. \A q \in Pairs, c \in Accounts : b[q][c] \in Nat
    BY DEF Balances
  <1> QED
    BY <1>1, <1>2 DEF Moved

\* A debit takes from one account and gives to none.
LEMMA DebitMoves ==
    ASSUME NEW b \in Balances, NEW p \in Pairs, NEW a \in Accounts, NEW n \in Nat, b[p][a] >= n,
           NEW b2, b2 = Debit(b, p, a, n)
    PROVE  Moved(b, b2, p, a, n, a, 0)
  <1>1. /\ b2 \in Balances
        /\ \A q \in Pairs, c \in Accounts :
              b2[q][c] = IF q = p /\ c = a THEN b[q][c] - n ELSE b[q][c]
    BY DebitFacts
  <1>2. \A q \in Pairs, c \in Accounts : b[q][c] \in Nat
    BY DEF Balances
  <1> QED
    BY <1>1, <1>2 DEF Moved

\* A debit and a credit are a movement from one account to the other.
LEMMA TransferMoves ==
    ASSUME NEW b \in Balances, NEW p \in Pairs, NEW from \in Accounts, NEW to \in Accounts,
           NEW n \in Nat, NEW m \in Nat, b[p][from] >= n,
           NEW b2, b2 = Credit(Debit(b, p, from, n), p, to, m)
    PROVE  Moved(b, b2, p, from, n, to, m)
  BY TransferFacts DEF Moved

\* An assignment to a supply as an addition to it.
LEMMA SupplyAdds ==
    ASSUME NEW s \in Supplies, NEW p \in Pairs, NEW n \in Nat, NEW s2
    PROVE  /\ s2 = [s EXCEPT ![p] = @ + n] => Added(s, s2, p, n)
           /\ s2 = [s EXCEPT ![p] = @ - n] => Added(s, s2, p, 0 - n)
  BY DEF Added, Supplies

\* What a contract may deliver.
LEMMA ReceivedArrives ==
    ASSUME NEW p \in Pairs, NEW n \in Amounts, NEW m \in Received(p, n)
    PROVE  Arrives(p, n, m)
  BY ConversionAssumption DEF Received, Amounts, Arrives

\* ConvertCoin escrows coins for new tokens, or burns coins for escrowed ones.
LEMMA ConvertCoinEffect ==
    ASSUME TypeOK, NEW s \in Users, NEW r \in Accounts, NEW p \in Pairs, NEW n \in Amounts,
           ConvertCoin(s, r, p, n)
    PROVE  EscrowsCoins(s, r, p, n) \/ \E m \in Nat : BurnsCoins(s, r, p, n, m)
  <1>0. /\ n \in Nat /\ Module \in Accounts /\ s \in Accounts
        /\ coins \in Balances /\ tokens \in Balances
        /\ coinSupply \in Supplies /\ tokenSupply \in Supplies
    BY TypeFacts
  <1>1. CASE p \in ModuleOwned /\ convertCoinNativeCoin(s, r, p, n)
    <2>1. /\ coins[p][s] >= n
          /\ coins' = Credit(Debit(coins, p, s, n), p, Module, n)
          /\ tokens' = Credit(tokens, p, r, n)
          /\ tokenSupply' = [tokenSupply EXCEPT ![p] = @ + n]
          /\ coinSupply' = coinSupply
      BY <1>1 DEF convertCoinNativeCoin, Move
    <2>2. Moved(coins, coins', p, s, n, Module, n)
      BY <1>0, <2>1, TransferMoves
    <2>3. Moved(tokens, tokens', p, r, 0, r, n)
      BY <1>0, <2>1, CreditMoves
    <2>4. Added(tokenSupply, tokenSupply', p, n)
      BY <1>0, <2>1, SupplyAdds
    <2> QED
      BY <1>1, <2>1, <2>2, <2>3, <2>4 DEF EscrowsCoins
  <1>2. CASE p \in External /\ convertCoinNativeERC20(s, r, p, n)
    <2>1. /\ coins[p][s] >= n /\ tokens[p][Module] >= n
          /\ coins' = Debit(coins, p, s, n)
          /\ coinSupply' = [coinSupply EXCEPT ![p] = @ - n]
          /\ tokenSupply' = tokenSupply
      BY <1>2 DEF convertCoinNativeERC20
    <2>2. PICK m \in Received(p, n) : tokens' = Credit(Debit(tokens, p, Module, n), p, r, m)
      BY <1>2 DEF convertCoinNativeERC20
    <2>3. m \in Nat /\ Arrives(p, n, m)
      BY ReceivedArrives DEF Arrives
    <2>4. Moved(coins, coins', p, s, n, s, 0)
      BY <1>0, <2>1, DebitMoves
    <2>5. Moved(tokens, tokens', p, Module, n, r, m)
      BY <1>0, <2>1, <2>2, <2>3, TransferMoves
    <2>6. Added(coinSupply, coinSupply', p, 0 - n)
      BY <1>0, <2>1, SupplyAdds
    <2> QED
      BY <1>2, <2>1, <2>3, <2>4, <2>5, <2>6 DEF BurnsCoins
  <1> QED
    BY <1>1, <1>2 DEF ConvertCoin

\* ConvertERC20 burns tokens for escrowed coins, or escrows tokens for new ones.
LEMMA ConvertERC20Effect ==
    ASSUME TypeOK, NEW s \in Users, NEW r \in Accounts, NEW p \in Pairs, NEW n \in Amounts,
           ConvertERC20(s, r, p, n)
    PROVE  ReleasesCoins(s, r, p, n) \/ \E m \in Nat : EscrowsTokens(s, r, p, n, m)
  <1>0. /\ n \in Nat /\ Module \in Accounts /\ s \in Accounts
        /\ coins \in Balances /\ tokens \in Balances
        /\ coinSupply \in Supplies /\ tokenSupply \in Supplies
    BY TypeFacts
  <1>1. CASE p \in ModuleOwned /\ convertERC20NativeCoin(s, r, p, n)
    <2>1. /\ tokens[p][s] >= n /\ coins[p][Module] >= n
          /\ coins' = Credit(Debit(coins, p, Module, n), p, r, n)
          /\ tokens' = Debit(tokens, p, s, n)
          /\ tokenSupply' = [tokenSupply EXCEPT ![p] = @ - n]
          /\ coinSupply' = coinSupply
      BY <1>1 DEF convertERC20NativeCoin, Move
    <2>2. Moved(coins, coins', p, Module, n, r, n)
      BY <1>0, <2>1, TransferMoves
    <2>3. Moved(tokens, tokens', p, s, n, s, 0)
      BY <1>0, <2>1, DebitMoves
    <2>4. Added(tokenSupply, tokenSupply', p, 0 - n)
      BY <1>0, <2>1, SupplyAdds
    <2> QED
      BY <1>1, <2>1, <2>2, <2>3, <2>4 DEF ReleasesCoins
  <1>2. CASE p \in External /\ convertERC20NativeToken(s, r, p, n)
    <2>1. /\ tokens[p][s] >= n
          /\ coins' = Credit(coins, p, r, n)
          /\ coinSupply' = [coinSupply EXCEPT ![p] = @ + n]
          /\ tokenSupply' = tokenSupply
      BY <1>2 DEF convertERC20NativeToken
    <2>2. PICK m \in Received(p, n) : tokens' = Credit(Debit(tokens, p, s, n), p, Module, m)
      BY <1>2 DEF convertERC20NativeToken
    <2>3. m \in Nat /\ Arrives(p, n, m)
      BY ReceivedArrives DEF Arrives
    <2>4. Moved(coins, coins', p, r, 0, r, n)
      BY <1>0, <2>1, CreditMoves
    <2>5. Moved(tokens, tokens', p, s, n, Module, m)
      BY <1>0, <2>1, <2>2, <2>3, TransferMoves
    <2>6. Added(coinSupply, coinSupply', p, n)
      BY <1>0, <2>1, SupplyAdds
    <2> QED
      BY <1>2, <2>1, <2>3, <2>4, <2>5, <2>6 DEF EscrowsTokens
  <1> QED
    BY <1>1, <1>2 DEF ConvertERC20

\* A bank transfer moves coins.
LEMMA SendEffect ==
    ASSUME TypeOK, NEW s \in Users, NEW r \in Accounts, NEW p \in Pairs, NEW n \in Amounts,
           Send(s, r, p, n)
    PROVE  SendsCoins(s, r, p, n)
  <1>0. n \in Nat /\ s \in Accounts /\ coins \in Balances
    BY TypeFacts
  <1>1. /\ coins[p][s] >= n
        /\ coins' = Credit(Debit(coins, p, s, n), p, r, n)
        /\ UNCHANGED <<tokens, coinSupply, tokenSupply>>
    BY DEF Send, Move
  <1>2. Moved(coins, coins', p, s, n, r, n)
    BY <1>0, <1>1, TransferMoves
  <1> QED
    BY <1>1, <1>2 DEF SendsCoins

\* A transfer in the EVM moves tokens, or burns them.
LEMMA ERC20TransferEffect ==
    ASSUME TypeOK, NEW s \in Users, NEW r \in Accounts \cup {Zero}, NEW p \in Pairs, NEW n \in Amounts,
           ERC20Transfer(s, r, p, n)
    PROVE  \/ r \in Accounts /\ \E m \in Nat : TransfersTokens(s, r, p, n, m)
           \/ r = Zero /\ BurnsTokens(s, p, n)
  <1>0. /\ n \in Nat /\ s \in Accounts /\ tokens \in Balances /\ tokenSupply \in Supplies
    BY TypeFacts
  <1>1. tokens[p][s] >= n /\ UNCHANGED <<coins, coinSupply>>
    BY DEF ERC20Transfer
  <1>2. CASE r # Zero
    <2>1. PICK m \in Received(p, n) : tokens' = Credit(Debit(tokens, p, s, n), p, r, m)
      BY <1>2 DEF ERC20Transfer
    <2>2. m \in Nat /\ Arrives(p, n, m) /\ r \in Accounts /\ tokenSupply' = tokenSupply
      BY <1>2, ReceivedArrives DEF Arrives, ERC20Transfer
    <2>3. Moved(tokens, tokens', p, s, n, r, m)
      BY <1>0, <1>1, <2>1, <2>2, TransferMoves
    <2> QED
      BY <1>1, <2>2, <2>3 DEF TransfersTokens
  <1>3. CASE r = Zero
    <2>1. tokens' = Debit(tokens, p, s, n) /\ tokenSupply' = [tokenSupply EXCEPT ![p] = @ - n]
      BY <1>3 DEF ERC20Transfer
    <2>2. Moved(tokens, tokens', p, s, n, s, 0)
      BY <1>0, <1>1, <2>1, DebitMoves
    <2>3. Added(tokenSupply, tokenSupply', p, 0 - n)
      BY <1>0, <2>1, SupplyAdds
    <2> QED
      BY <1>1, <1>3, <2>2, <2>3 DEF BurnsTokens
  <1> QED
    BY <1>2, <1>3

\* What the hook does with a log: nothing, when the tokens went to another
\* account or, of a module-owned pair, the module does not have them; else it
\* burns them and, if it can, releases the coins, or it mints coins.
HookEffect(log) ==
    /\ pairEnabled[log.pair]
    /\ \/ /\ log.to # Module \/ (log.pair \in ModuleOwned /\ ~(tokens[log.pair][Module] >= log.amount))
          /\ UNCHANGED ledger
       \/ /\ log.to = Module /\ log.pair \in ModuleOwned
          /\ ~(coins[log.pair][Module] >= log.amount)
          /\ BurnsTokens(Module, log.pair, log.amount)
       \/ log.to = Module /\ ReleasesCoins(Module, log.from, log.pair, log.amount)
       \/ log.to = Module /\ MintsCoins(log.from, log.pair, log.amount)

\* Each step of PostTxProcessing reverts or has the effect above.
LEMMA HookStep ==
    ASSUME TypeOK, PostTxProcessing
    PROVE  \/ Revert
           \/ NextLog /\ UNCHANGED switches /\ HookEffect(Head(logs))
  <1> DEFINE log == Head(logs)
  <1>1. log.pair \in Pairs /\ log.from \in Users /\ log.amount \in Nat
    BY HeadOfLogs DEF PostTxProcessing
  <1>2. \/ HookDisabledPair(log) \/ HookSkip(log) \/ HookBurn(log) \/ HookMint(log)
    BY DEF PostTxProcessing
  <1> HIDE DEF log
  <1>0. /\ Module \in Accounts /\ log.from \in Accounts
        /\ coins \in Balances /\ tokens \in Balances
        /\ coinSupply \in Supplies /\ tokenSupply \in Supplies
    BY <1>1, TypeFacts
  <1>3. CASE HookDisabledPair(log)
    BY <1>3 DEF HookDisabledPair
  <1>4. CASE HookSkip(log)
    BY <1>4 DEF HookSkip, HookEffect, log
  <1>5. CASE HookBurn(log)
    <2>0. /\ pairEnabled[log.pair] /\ log.to = Module /\ log.pair \in ModuleOwned
          /\ NextLog /\ UNCHANGED <<coinSupply, switches>>
      BY <1>5 DEF HookBurn
    <2>1. CASE ~(tokens[log.pair][Module] >= log.amount)
      <3>1. tokens' = tokens /\ tokenSupply' = tokenSupply /\ coins' = coins
        BY <1>5, <2>1 DEF HookBurn
      <3> QED
        BY <2>0, <2>1, <3>1 DEF HookEffect, ledger, log
    <2>2. CASE tokens[log.pair][Module] >= log.amount
      <3>1. /\ tokens' = Debit(tokens, log.pair, Module, log.amount)
            /\ tokenSupply' = [tokenSupply EXCEPT ![log.pair] = @ - log.amount]
        BY <1>5, <2>2 DEF HookBurn
      <3>2. Moved(tokens, tokens', log.pair, Module, log.amount, Module, 0)
        BY <1>0, <1>1, <2>2, <3>1, DebitMoves
      <3>3. Added(tokenSupply, tokenSupply', log.pair, 0 - log.amount)
        BY <1>0, <1>1, <3>1, SupplyAdds
      <3>4. CASE coins[log.pair][Module] >= log.amount
        <4>1. coins' = Credit(Debit(coins, log.pair, Module, log.amount), log.pair, log.from, log.amount)
          BY <1>5, <2>2, <3>4 DEF HookBurn, Move
        <4>2. Moved(coins, coins', log.pair, Module, log.amount, log.from, log.amount)
          BY <1>0, <1>1, <3>4, <4>1, TransferMoves
        <4>3. ReleasesCoins(Module, log.from, log.pair, log.amount)
          BY <2>0, <2>2, <3>2, <3>3, <3>4, <4>2 DEF ReleasesCoins
        <4> QED
          BY <2>0, <4>3 DEF HookEffect, log
      <3>5. CASE ~(coins[log.pair][Module] >= log.amount)
        <4>1. coins' = coins
          BY <1>5, <3>5 DEF HookBurn
        <4>2. BurnsTokens(Module, log.pair, log.amount)
          BY <2>0, <2>2, <3>2, <3>3, <4>1 DEF BurnsTokens
        <4> QED
          BY <2>0, <3>5, <4>2 DEF HookEffect, log
      <3> QED
        BY <3>4, <3>5
    <2> QED
      BY <2>1, <2>2
  <1>6. CASE HookMint(log)
    <2>0. /\ pairEnabled[log.pair] /\ log.to = Module /\ log.pair \in External
          /\ NextLog /\ UNCHANGED <<tokens, tokenSupply, switches>>
          /\ coinSupply' = [coinSupply EXCEPT ![log.pair] = @ + log.amount]
          /\ coins' = Credit(coins, log.pair, log.from, log.amount)
      BY <1>6 DEF HookMint
    <2>1. Moved(coins, coins', log.pair, log.from, 0, log.from, log.amount)
      BY <1>0, <1>1, <2>0, CreditMoves
    <2>2. Added(coinSupply, coinSupply', log.pair, log.amount)
      BY <1>0, <1>1, <2>0, SupplyAdds
    <2>3. MintsCoins(log.from, log.pair, log.amount)
      BY <2>0, <2>1, <2>2 DEF MintsCoins
    <2> QED
      BY <2>0, <2>3 DEF HookEffect, log
  <1> QED
    BY <1>2, <1>3, <1>4, <1>5, <1>6

\* The kinds of steps: a message,
Converts(s, r, p, n) ==
    \/ EscrowsCoins(s, r, p, n)
    \/ \E m \in Nat : BurnsCoins(s, r, p, n, m)
    \/ ReleasesCoins(s, r, p, n)
    \/ \E m \in Nat : EscrowsTokens(s, r, p, n, m)
MessageStep ==
    /\ phase = "idle"
    /\ UNCHANGED transaction
    /\ \E s \in Users, r \in Users, p \in Pairs, n \in Nat :
          \/ enableIntrarelayer /\ pairEnabled[p] /\ Converts(s, r, p, n)
          \/ SendsCoins(s, r, p, n)
\* a transfer in the EVM,
TransferStep ==
    /\ phase = "evm"
    /\ UNCHANGED <<switches, phase, saved>>
    /\ \E s \in Users, r \in Accounts \cup {Zero}, p \in Pairs, n \in Amounts :
          /\ logs' = Append(logs, [pair |-> p, from |-> s, to |-> r, amount |-> n])
          /\ \/ r \in Accounts /\ \E m \in Nat : TransfersTokens(s, r, p, n, m)
             \/ r = Zero /\ BurnsTokens(s, p, n)
\* the end of a transaction,
RevertStep == phase # "idle" /\ Revert
CommitStep ==
    /\ \/ phase = "evm" /\ ~HooksSet
       \/ phase = "hook" /\ logs = << >>
    /\ Commit
\* the call of the hook and its steps,
HookCallStep ==
    /\ phase = "evm" /\ HooksSet /\ enableEVMHook
    /\ phase' = "hook"
    /\ UNCHANGED <<ledger, switches, logs, saved>>
HookLogStep ==
    /\ phase = "hook" /\ logs # << >>
    /\ NextLog
    /\ UNCHANGED switches
    /\ HookEffect(Head(logs))
\* and the steps of governance and of others.
OtherStep == UNCHANGED <<ledger, transaction>> /\ (phase = "idle" \/ UNCHANGED switches)

\* Every step of the specification is one of these.
LEMMA StepKinds ==
    ASSUME TypeOK, [Next]_vars
    PROVE  \/ MessageStep \/ BeginEthereumTx \/ TransferStep \/ RevertStep
           \/ CommitStep \/ HookCallStep \/ HookLogStep \/ OtherStep
  <1>0. \A n \in Amounts : n \in Nat
    BY TypeFacts
  <1>1. ASSUME NEW s \in Users, NEW r \in Accounts, NEW p \in Pairs, NEW n \in Amounts,
               ConvertCoin(s, r, p, n)
        PROVE  MessageStep
    <2>1. /\ phase = "idle" /\ UNCHANGED transaction /\ enableIntrarelayer /\ pairEnabled[p] /\ r \in Users
      BY <1>1 DEF ConvertCoin, MintingEnabled, BlockedAddrs, Accounts
    <2>2. Converts(s, r, p, n)
      BY <1>1, ConvertCoinEffect DEF Converts
    <2> QED
      BY <1>0, <2>1, <2>2 DEF MessageStep
  <1>2. ASSUME NEW s \in Users, NEW r \in Accounts, NEW p \in Pairs, NEW n \in Amounts,
               ConvertERC20(s, r, p, n)
        PROVE  MessageStep
    <2>1. /\ phase = "idle" /\ UNCHANGED transaction /\ enableIntrarelayer /\ pairEnabled[p] /\ r \in Users
      BY <1>2 DEF ConvertERC20, MintingEnabled, BlockedAddrs, Accounts
    <2>2. Converts(s, r, p, n)
      BY <1>2, ConvertERC20Effect DEF Converts
    <2> QED
      BY <1>0, <2>1, <2>2 DEF MessageStep
  <1>3. ASSUME NEW s \in Users, NEW r \in Accounts, NEW p \in Pairs, NEW n \in Amounts,
               Send(s, r, p, n)
        PROVE  MessageStep
    <2>1. phase = "idle" /\ UNCHANGED transaction /\ r \in Users
      BY <1>3 DEF Send, BlockedAddrs, Accounts
    <2>2. SendsCoins(s, r, p, n)
      BY <1>3, SendEffect
    <2> QED
      BY <1>0, <2>1, <2>2 DEF MessageStep
  <1>4. ASSUME NEW s \in Users, NEW r \in Accounts \cup {Zero}, NEW p \in Pairs, NEW n \in Amounts,
               ERC20Transfer(s, r, p, n)
        PROVE  TransferStep
    <2>1. /\ phase = "evm" /\ UNCHANGED <<switches, phase, saved>>
          /\ logs' = Append(logs, [pair |-> p, from |-> s, to |-> r, amount |-> n])
      BY <1>4 DEF ERC20Transfer
    <2>2. \/ r \in Accounts /\ \E m \in Nat : TransfersTokens(s, r, p, n, m)
          \/ r = Zero /\ BurnsTokens(s, p, n)
      BY <1>4, ERC20TransferEffect
    <2> QED
      BY <2>1, <2>2 DEF TransferStep
  <1>5. CASE EthereumTxFails
    BY <1>5 DEF EthereumTxFails, RevertStep
  <1>6. CASE EthereumTxSucceeds
    <2>0. phase = "evm"
      BY <1>6 DEF EthereumTxSucceeds
    <2>1. CASE ~HooksSet /\ Commit
      BY <2>0, <2>1 DEF CommitStep
    <2>2. CASE Revert
      BY <2>0, <2>2 DEF RevertStep
    <2>3. CASE /\ HooksSet /\ enableEVMHook /\ phase' = "hook"
               /\ UNCHANGED <<ledger, switches, logs, saved>>
      BY <2>0, <2>3 DEF HookCallStep
    <2> QED
      BY <1>6, <2>1, <2>2, <2>3 DEF EthereumTxSucceeds
  <1>7. CASE PostTxProcessing
    <2>1. phase = "hook" /\ logs # << >>
      BY <1>7 DEF PostTxProcessing
    <2> QED
      BY <1>7, <2>1, HookStep DEF RevertStep, HookLogStep
  <1>8. CASE EthereumTxEnds
    BY <1>8 DEF EthereumTxEnds, CommitStep
  <1>9. ASSUME NEW p \in Pairs, ToggleRelay(p)
        PROVE  OtherStep
    BY <1>9 DEF ToggleRelay, OtherStep
  <1>10. ASSUME NEW relayer \in BOOLEAN, NEW hook \in BOOLEAN, SetParams(relayer, hook)
         PROVE  OtherStep
    BY <1>10 DEF SetParams, OtherStep
  <1>11. ASSUME NEW p \in Pairs, NEW enabled \in BOOLEAN, SetSendEnabled(p, enabled)
         PROVE  OtherStep
    BY <1>11 DEF SetSendEnabled, OtherStep
  <1>12. CASE UNCHANGED vars
    BY <1>12 DEF vars, OtherStep
  <1> QED
    BY <1>1, <1>2, <1>3, <1>4, <1>5, <1>6, <1>7, <1>8, <1>9, <1>10, <1>11, <1>12 DEF Next
-----------------------------------------------------------------------------
(* What is switched off is not converted.                                  *)

\* Converted, of the ledger in the middle of a transaction.
ConvertedNow(p) == IF p \in ModuleOwned THEN coins[p][Module] ELSE coinSupply[p]

\* Of a transaction under way only the hook has converted, when it is there and
\* enabled, only enabled pairs and only to coins.
FrozenInv ==
    /\ TypeOK
    /\ phase = "hook" => HooksSet /\ enableEVMHook
    /\ phase # "idle" =>
          \A p \in Pairs :
              /\ phase = "evm" \/ ~pairEnabled[p] => ConvertedNow(p) = Converted(saved, p)
              /\ OnlyToCoins(p, Converted(saved, p), ConvertedNow(p))

\* The committed amounts are the present ones between transactions.
LEMMA CommittedConverted ==
    ASSUME NEW p
    PROVE  Converted(Committed, p) = IF phase = "idle" THEN ConvertedNow(p) ELSE Converted(saved, p)
  BY DEF Converted, Committed, ConvertedNow

\* What an effect leaves of what is converted: all of it for other pairs than
\* its own, and for its own as well when it only moves coins or tokens.
LEMMA EffectConverts ==
    ASSUME TypeOK, NEW s \in Accounts, NEW r \in Accounts, NEW p \in Pairs, NEW n \in Nat, NEW q \in Pairs
    PROVE  /\ Converts(s, r, p, n) /\ q # p => ConvertedNow(q)' = ConvertedNow(q)
           /\ MintsCoins(r, p, n) /\ q # p => ConvertedNow(q)' = ConvertedNow(q)
           /\ SendsCoins(s, r, p, n) /\ s # Module /\ r # Module => ConvertedNow(q)' = ConvertedNow(q)
           /\ BurnsTokens(s, p, n) => ConvertedNow(q)' = ConvertedNow(q)
           /\ \A m \in Nat : TransfersTokens(s, r, p, n, m) => ConvertedNow(q)' = ConvertedNow(q)
  <1>0. /\ Module \in Accounts /\ coins[q][Module] \in Nat /\ coinSupply[q] \in Int
    BY TypeFacts
  <1>1. \A a, c \in Accounts, k, m \in Nat :
           Moved(coins, coins', p, a, k, c, m) /\ (q # p \/ (a # Module /\ c # Module)) =>
              coins'[q][Module] = coins[q][Module]
    BY <1>0 DEF Moved
  <1>2. \A k \in Int : Added(coinSupply, coinSupply', p, k) /\ q # p => coinSupply'[q] = coinSupply[q]
    BY <1>0 DEF Added
  <1>3. 0 \in Nat /\ n \in Int /\ 0 - n \in Int
    OBVIOUS
  <1>4. ASSUME Converts(s, r, p, n), q # p
        PROVE  ConvertedNow(q)' = ConvertedNow(q)
    <2>1. CASE EscrowsCoins(s, r, p, n)
      BY <1>0, <1>1, <1>3, <1>4, <2>1 DEF EscrowsCoins, ConvertedNow
    <2>2. ASSUME NEW m \in Nat, BurnsCoins(s, r, p, n, m)
          PROVE  ConvertedNow(q)' = ConvertedNow(q)
      BY <1>0, <1>1, <1>2, <1>3, <1>4, <2>2 DEF BurnsCoins, ConvertedNow
    <2>3. CASE ReleasesCoins(s, r, p, n)
      BY <1>0, <1>1, <1>3, <1>4, <2>3 DEF ReleasesCoins, ConvertedNow
    <2>4. ASSUME NEW m \in Nat, EscrowsTokens(s, r, p, n, m)
          PROVE  ConvertedNow(q)' = ConvertedNow(q)
      BY <1>0, <1>1, <1>2, <1>3, <1>4, <2>4 DEF EscrowsTokens, ConvertedNow
    <2> QED
      BY <1>4, <2>1, <2>2, <2>3, <2>4 DEF Converts
  <1>5. MintsCoins(r, p, n) /\ q # p => ConvertedNow(q)' = ConvertedNow(q)
    BY <1>0, <1>1, <1>2, <1>3 DEF MintsCoins, ConvertedNow
  <1>6. SendsCoins(s, r, p, n) /\ s # Module /\ r # Module => ConvertedNow(q)' = ConvertedNow(q)
    BY <1>1 DEF SendsCoins, ConvertedNow
  <1>7. BurnsTokens(s, p, n) => ConvertedNow(q)' = ConvertedNow(q)
    BY DEF BurnsTokens, ConvertedNow
  <1>8. \A m \in Nat : TransfersTokens(s, r, p, n, m) => ConvertedNow(q)' = ConvertedNow(q)
    BY DEF TransfersTokens, ConvertedNow
  <1> QED
    BY <1>4, <1>5, <1>6, <1>7, <1>8

\* What a hook that converts does to the amount of its own pair.
LEMMA HookConverts ==
    ASSUME TypeOK, NEW r \in Users, NEW p \in Pairs, NEW n \in Nat,
           ReleasesCoins(Module, r, p, n) \/ MintsCoins(r, p, n)
    PROVE  OnlyToCoins(p, ConvertedNow(p), ConvertedNow(p)')
  <1>0. /\ Module \in Accounts /\ r \in Accounts /\ r # Module
        /\ coins[p][Module] \in Nat /\ coinSupply[p] \in Int
    BY TypeFacts
  <1>1. CASE ReleasesCoins(Module, r, p, n)
    <2>1. Moved(coins, coins', p, Module, n, r, n) /\ p \in ModuleOwned
      BY <1>1 DEF ReleasesCoins
    <2>2. coins'[p][Module] = coins[p][Module] - (IF p = p /\ Module = Module THEN n ELSE 0)
                                               + (IF p = p /\ Module = r THEN n ELSE 0)
      BY <1>0, <2>1 DEF Moved
    <2>3. coins'[p][Module] <= coins[p][Module]
      BY <1>0, <2>2
    <2> QED
      BY <2>1, <2>3 DEF ConvertedNow, OnlyToCoins
  <1>2. CASE MintsCoins(r, p, n)
    <2>1. coinSupply'[p] = coinSupply[p] + n /\ p \notin ModuleOwned
      BY <1>2 DEF MintsCoins, Added, External
    <2>2. coinSupply'[p] >= coinSupply[p]
      BY <1>0, <2>1
    <2> QED
      BY <2>1, <2>2 DEF ConvertedNow, OnlyToCoins
  <1> QED
    BY <1>1, <1>2

\* What a step may change of what is converted: pairs that are enabled, and
\* with the parameter off only what the hook, when enabled, makes coins of.
Frozen ==
    \A p \in Pairs :
        /\ ~pairEnabled[p] => Converted(Committed', p) = Converted(Committed, p)
        /\ ~enableIntrarelayer =>
              /\ OnlyToCoins(p, Converted(Committed, p), Converted(Committed', p))
              /\ Converted(Committed', p) # Converted(Committed, p) => HooksSet /\ enableEVMHook

\* At the start no transaction is under way.
LEMMA FrozenInvInit == Init => FrozenInv
  BY TypeInit DEF Init, FrozenInv

\* The switches do not change during a transaction, the messages look at them,
\* and the hook at the pair's.
LEMMA FrozenInvNext ==
    ASSUME FrozenInv, [Next]_vars
    PROVE  FrozenInv' /\ Frozen
  <1>0. /\ TypeOK /\ TypeOK'
        /\ \A u \in Users : u \in Accounts /\ u # Module
        /\ Module \in Accounts
        /\ \A n \in Amounts : n \in Nat
        /\ \A p \in Pairs : ConvertedNow(p) \in Int /\ ConvertedNow(p)' \in Int
    <2>1. TypeOK /\ TypeOK'
      BY TypeNext DEF FrozenInv
    <2>2. \A p \in Pairs : coins'[p][Module] \in Int /\ coinSupply'[p] \in Int
      BY <2>1, TypeFacts DEF TypeOK, Balances, Supplies
    <2>3. \A p \in Pairs : coins[p][Module] \in Int /\ coinSupply[p] \in Int
      BY <2>1, TypeFacts
    <2> QED
      BY <2>1, <2>2, <2>3, TypeFacts DEF ConvertedNow
  <1>a. \A p \in Pairs : Converted(Committed, p) = IF phase = "idle" THEN ConvertedNow(p) ELSE Converted(saved, p)
    BY CommittedConverted
  <1>b. \A p \in Pairs :
          Converted(Committed', p) = IF phase' = "idle" THEN ConvertedNow(p)' ELSE Converted(saved', p)
    BY DEF Converted, Committed, ConvertedNow
  <1>c. phase # "idle" => \A p \in Pairs : Converted(saved, p) \in Int
    <2>1. phase # "idle" => saved.coins \in Balances /\ saved.coinSupply \in Supplies
      BY <1>0 DEF TypeOK, Ledger
    <2> QED
      BY <1>0, <2>1 DEF Balances, Supplies, Converted
  <1>d. \A p \in Pairs, n \in Int : OnlyToCoins(p, n, n)
    BY DEF OnlyToCoins
  <1>e. \A p \in Pairs : Converted(Committed, p) \in Int
    BY <1>0, <1>a, <1>c
  <1>1. CASE MessageStep
    <2>1. phase = "idle" /\ phase' = "idle"
      BY <1>1 DEF MessageStep, transaction
    <2>2. PICK s \in Users, r \in Users, p \in Pairs, n \in Nat :
            \/ enableIntrarelayer /\ pairEnabled[p] /\ Converts(s, r, p, n)
            \/ SendsCoins(s, r, p, n)
      BY <1>1 DEF MessageStep
    <2>3. CASE enableIntrarelayer /\ pairEnabled[p] /\ Converts(s, r, p, n)
      <3>1. \A q \in Pairs : q # p => ConvertedNow(q)' = ConvertedNow(q)
        BY <1>0, <2>3, EffectConverts
      <3> QED
        BY <1>0, <1>a, <1>b, <1>c, <1>d, <1>e, <2>1, <2>3, <3>1 DEF FrozenInv, Frozen
    <2>4. CASE SendsCoins(s, r, p, n)
      <3>1. \A q \in Pairs : ConvertedNow(q)' = ConvertedNow(q)
        BY <1>0, <2>4, EffectConverts
      <3> QED
        BY <1>0, <1>a, <1>b, <1>c, <1>d, <1>e, <2>1, <3>1 DEF FrozenInv, Frozen
    <2> QED
      BY <2>2, <2>3, <2>4
  <1>2. CASE BeginEthereumTx
    <2>1. /\ phase = "idle" /\ phase' = "evm"
          /\ \A q \in Pairs : ConvertedNow(q)' = ConvertedNow(q) /\ Converted(saved', q) = ConvertedNow(q)
      BY <1>2 DEF BeginEthereumTx, ledger, ConvertedNow, Converted
    <2> QED
      BY <1>0, <1>a, <1>b, <1>c, <1>d, <1>e, <2>1 DEF FrozenInv, Frozen
  <1>3. CASE TransferStep
    <2>1. /\ phase = "evm" /\ phase' = phase /\ saved' = saved /\ pairEnabled' = pairEnabled
      BY <1>3 DEF TransferStep, switches
    <2>2. \A q \in Pairs : ConvertedNow(q)' = ConvertedNow(q)
      BY <1>3 DEF TransferStep, TransfersTokens, BurnsTokens, ConvertedNow
    <2> QED
      BY <1>0, <1>a, <1>b, <1>c, <1>d, <1>e, <2>1, <2>2 DEF FrozenInv, Frozen
  <1>4. CASE RevertStep
    <2>1. /\ phase # "idle" /\ phase' = "idle"
          /\ \A q \in Pairs : ConvertedNow(q)' = Converted(saved, q)
      BY <1>4 DEF RevertStep, Revert, ConvertedNow, Converted
    <2> QED
      BY <1>0, <1>a, <1>b, <1>c, <1>d, <1>e, <2>1 DEF FrozenInv, Frozen
  <1>5. CASE CommitStep
    <2>1. /\ phase # "idle" /\ phase' = "idle"
          /\ (phase = "evm" \/ (HooksSet /\ enableEVMHook))
          /\ \A q \in Pairs : ConvertedNow(q)' = ConvertedNow(q)
      BY <1>5 DEF CommitStep, Commit, ledger, ConvertedNow, FrozenInv
    <2> QED
      BY <1>0, <1>a, <1>b, <1>c, <1>d, <1>e, <2>1 DEF FrozenInv, Frozen
  <1>6. CASE HookCallStep
    <2>1. /\ phase = "evm" /\ phase' = "hook" /\ saved' = saved /\ HooksSet /\ enableEVMHook'
          /\ \A q \in Pairs : ConvertedNow(q)' = ConvertedNow(q)
      BY <1>6 DEF HookCallStep, ledger, switches, ConvertedNow
    <2> QED
      BY <1>0, <1>a, <1>b, <1>c, <1>d, <1>e, <2>1 DEF FrozenInv, Frozen
  <1>7. CASE HookLogStep
    <2> DEFINE log == Head(logs)
    <2>1. /\ phase = "hook" /\ phase' = phase /\ saved' = saved /\ pairEnabled' = pairEnabled
          /\ enableEVMHook' = enableEVMHook
          /\ HookEffect(log)
      BY <1>7 DEF HookLogStep, NextLog, switches
    <2>2. log.pair \in Pairs /\ log.from \in Users /\ log.amount \in Nat
      BY <1>0, <1>7, HeadOfLogs DEF HookLogStep
    <2> HIDE DEF log
    <2>3. pairEnabled[log.pair]
      BY <2>1 DEF HookEffect
    <2>4. \A q \in Pairs : q # log.pair => ConvertedNow(q)' = ConvertedNow(q)
      <3>1. CASE UNCHANGED ledger
        BY <3>1 DEF ledger, ConvertedNow
      <3>2. CASE BurnsTokens(Module, log.pair, log.amount)
        BY <3>2 DEF BurnsTokens, ConvertedNow
      <3>3. CASE ReleasesCoins(Module, log.from, log.pair, log.amount)
        BY <1>0, <2>2, <3>3, EffectConverts DEF Converts
      <3>4. CASE MintsCoins(log.from, log.pair, log.amount)
        BY <1>0, <2>2, <3>4, EffectConverts
      <3> QED
        BY <2>1, <3>1, <3>2, <3>3, <3>4 DEF HookEffect
    <2>5. ASSUME NEW q \in Pairs, q = log.pair
          PROVE  OnlyToCoins(q, ConvertedNow(q), ConvertedNow(q)')
      <3>1. CASE UNCHANGED ledger \/ BurnsTokens(Module, log.pair, log.amount)
        <4>1. ConvertedNow(q)' = ConvertedNow(q)
          BY <3>1 DEF ledger, BurnsTokens, ConvertedNow
        <4> QED
          BY <1>0, <1>d, <4>1
      <3>2. CASE \/ ReleasesCoins(Module, log.from, log.pair, log.amount)
                 \/ MintsCoins(log.from, log.pair, log.amount)
        BY <1>0, <2>2, <2>5, <3>2, HookConverts
      <3> QED
        BY <2>1, <3>1, <3>2 DEF HookEffect
    <2>6. ASSUME NEW q \in Pairs
          PROVE  OnlyToCoins(q, Converted(saved, q), ConvertedNow(q)')
      <3>1. OnlyToCoins(q, Converted(saved, q), ConvertedNow(q))
        BY <2>1 DEF FrozenInv
      <3>2. OnlyToCoins(q, ConvertedNow(q), ConvertedNow(q)')
        BY <1>0, <1>d, <2>4, <2>5
      <3> QED
        BY <1>0, <1>c, <2>1, <3>1, <3>2 DEF OnlyToCoins
    <2> QED
      BY <1>0, <1>a, <1>b, <1>c, <1>d, <1>e, <2>1, <2>2, <2>3, <2>4, <2>6 DEF FrozenInv, Frozen
  <1>8. CASE OtherStep
    <2>1. /\ phase' = phase /\ saved' = saved
          /\ phase = "idle" \/ (pairEnabled' = pairEnabled /\ enableEVMHook' = enableEVMHook)
          /\ \A q \in Pairs : ConvertedNow(q)' = ConvertedNow(q)
      BY <1>8 DEF OtherStep, ledger, transaction, switches, ConvertedNow
    <2> QED
      BY <1>0, <1>a, <1>b, <1>c, <1>d, <1>e, <2>1 DEF FrozenInv, Frozen
  <1> QED
    BY <1>0, <1>1, <1>2, <1>3, <1>4, <1>5, <1>6, <1>7, <1>8, StepKinds

\* A pair that governance has disabled is converted neither by a message nor by
\* the hook, in a transaction of any length.
THEOREM DisabledPairsStayFrozen == Spec => DisabledPairFrozen
  <1>1. FrozenInv /\ [Next]_vars => FrozenInv'
    BY FrozenInvNext
  <1>2. FrozenInv /\ [Next]_vars =>
          [\A p \in Pairs : ~pairEnabled[p] => Converted(Committed', p) = Converted(Committed, p)]_vars
    BY FrozenInvNext DEF Frozen
  <1> QED
    BY <1>1, <1>2, FrozenInvInit, PTL DEF Spec, DisabledPairFrozen

\* With EnableIntrarelayer off no message converts, and no transaction but by
\* the hook, which needs EnableEVMHook and makes coins only: for any contracts,
\* and whether the application has set the hook or not.
THEOREM RelayerOffAlwaysOneWay == Spec => RelayerOffOneWay
  <1>1. FrozenInv /\ [Next]_vars => FrozenInv'
    BY FrozenInvNext
  <1>2. FrozenInv /\ [Next]_vars =>
          [~enableIntrarelayer =>
             \A p \in Pairs :
                 /\ OnlyToCoins(p, Converted(Committed, p), Converted(Committed', p))
                 /\ Converted(Committed', p) # Converted(Committed, p) => HooksSet /\ enableEVMHook]_vars
    BY FrozenInvNext DEF Frozen
  <1> QED
    BY <1>1, <1>2, FrozenInvInit, PTL DEF Spec, RelayerOffOneWay

\* A step of the updated system is one of the conversions or an update, which
\* changes only the balances of the pair's contract, between transactions.
LEMMA UpdateStepKinds ==
    ASSUME TypeOK, [UpdateNext]_updateVars
    PROVE  /\ TypeOK'
           /\ \/ [Next]_vars /\ former' = former
              \/ \E p \in Pairs : UpdateTokenPairERC20(p)
  <1>1. CASE Next /\ UNCHANGED <<former, updates>>
    BY <1>1, TypeNext
  <1>2. ASSUME NEW p \in Pairs, UpdateTokenPairERC20(p)
        PROVE  TypeOK'
    <2>1. tokens' \in Balances /\ tokenSupply' \in Supplies
      <3>1. \A u \in Users : InitialBalance[p][u] \in Nat
        BY ConversionAssumption
      <3>2. InitialSupply[p] \in Int
        BY ConversionAssumption
      <3> QED
        BY <1>2, <3>1, <3>2 DEF UpdateTokenPairERC20, TypeOK, Balances, Supplies
    <2> QED
      BY <1>2, <2>1 DEF UpdateTokenPairERC20, switches, transaction, TypeOK
  <1>3. CASE UNCHANGED updateVars
    <2>1. UNCHANGED vars /\ former' = former
      BY <1>3 DEF updateVars
    <2> QED
      BY <2>1, TypeNext
  <1> QED
    BY <1>1, <1>2, <1>3 DEF UpdateNext

-----------------------------------------------------------------------------
(* The conversions implement the bridge.                                   *)

\* What the reserve of a pair exceeds the claims by, in the present ledger and
\* in the one a transaction started from.
Spare(p) == IF p \in ModuleOwned THEN coins[p][Module] - tokenSupply[p]
                                 ELSE tokens[p][Module] - coinSupply[p]
SavedSpare(p) == IF p \in ModuleOwned THEN saved.coins[p][Module] - saved.tokenSupply[p]
                                      ELSE saved.tokens[p][Module] - saved.coinSupply[p]

\* A transaction under way has not used any of it, nor will the hook for the
\* logs it has yet to go through.
SpareCovered(p) ==
    IF p \in ModuleOwned THEN SavedSpare(p) <= Spare(p)
                         ELSE Covered(logs, coinSupply[p] + SavedSpare(p), tokens[p][Module], p)

BridgeInv == TypeOK /\ (phase # "idle" => \A p \in Pairs : SpareCovered(p))

\* Their types.
LEMMA SpareFacts ==
    ASSUME TypeOK, NEW p \in Pairs
    PROVE  /\ Spare(p) \in Int
           /\ phase # "idle" => SavedSpare(p) \in Int
  <1>1. Spare(p) \in Int
    BY TypeFacts DEF Spare
  <1>2. ASSUME phase # "idle"
        PROVE  SavedSpare(p) \in Int
    <2>1. /\ saved.coins \in Balances /\ saved.tokens \in Balances
          /\ saved.coinSupply \in Supplies /\ saved.tokenSupply \in Supplies
      BY <1>2 DEF TypeOK, Ledger
    <2>2. Module \in Accounts
      BY TypeFacts
    <2>3. /\ saved.coins[p][Module] \in Int /\ saved.tokens[p][Module] \in Int
          /\ saved.coinSupply[p] \in Int /\ saved.tokenSupply[p] \in Int
      BY <2>1, <2>2 DEF Balances, Supplies
    <2> QED
      BY <2>3 DEF SavedSpare
  <1> QED
    BY <1>1, <1>2

\* At its end, then, the transaction leaves no less than it found.
LEMMA SpareAtEnd ==
    ASSUME BridgeInv, phase # "idle", NEW p \in Pairs
    PROVE  SavedSpare(p) <= Spare(p)
  <1>1. CASE p \in ModuleOwned
    BY <1>1 DEF BridgeInv, SpareCovered
  <1>2. CASE p \notin ModuleOwned
    <2>1. TypeOK
      BY DEF BridgeInv
    <2>2. /\ logs \in Seq(Log) /\ coinSupply[p] \in Int /\ tokens[p][Module] \in Int
          /\ SavedSpare(p) \in Int
      BY <2>1, TypeFacts, SpareFacts DEF TypeOK
    <2>3. Covered(logs, coinSupply[p] + SavedSpare(p), tokens[p][Module], p)
      BY <1>2 DEF BridgeInv, SpareCovered
    <2>4. coinSupply[p] + SavedSpare(p) \in Int
      BY <2>2
    <2>5. coinSupply[p] + SavedSpare(p) <= tokens[p][Module]
      BY <2>2, <2>3, <2>4, CoveredBound
    <2> QED
      BY <1>2, <2>2, <2>5 DEF Spare
  <1> QED
    BY <1>1, <1>2

\* What the effects do to what a module account holds and to the supplies.
LEMMA MovedAt ==
    ASSUME NEW b \in Balances, NEW b2, NEW p \in Pairs, NEW a \in Accounts, NEW n \in Nat,
           NEW c \in Accounts, NEW m \in Nat, Moved(b, b2, p, a, n, c, m),
           NEW q \in Pairs, NEW d \in Accounts
    PROVE  /\ b[q][d] \in Nat /\ b2[q][d] \in Nat
           /\ b2[q][d] = b[q][d] - (IF q = p /\ d = a THEN n ELSE 0) + (IF q = p /\ d = c THEN m ELSE 0)
  BY DEF Moved, Balances

\* A conversion by message moves reserve and claims together.
LEMMA ConvertsKeepsSpare ==
    ASSUME TypeOK, ExactTransfer = Pairs, NEW s \in Users, NEW r \in Users, NEW p \in Pairs, NEW n \in Nat,
           Converts(s, r, p, n) \/ SendsCoins(s, r, p, n),
           NEW q \in Pairs
    PROVE  /\ Spare(q)' = Spare(q)
           /\ q \in ModuleOwned => tokens'[q][Module] = tokens[q][Module]
  <1> DEFINE Goal == /\ Spare(q)' = Spare(q)
                     /\ q \in ModuleOwned => tokens'[q][Module] = tokens[q][Module]
  <1>0. /\ Module \in Accounts /\ s \in Accounts /\ r \in Accounts /\ s # Module /\ r # Module
        /\ coins \in Balances /\ tokens \in Balances
        /\ coins[q][Module] \in Nat /\ tokens[q][Module] \in Nat
        /\ coinSupply[q] \in Int /\ tokenSupply[q] \in Int
        /\ 0 \in Nat
    BY TypeFacts
  <1>1. CASE EscrowsCoins(s, r, p, n)
    <2>1. coins'[q][Module] = coins[q][Module] + (IF q = p THEN n ELSE 0)
      BY <1>0, <1>1, MovedAt DEF EscrowsCoins
    <2>2. tokens'[q][Module] = tokens[q][Module]
      BY <1>0, <1>1, MovedAt DEF EscrowsCoins
    <2>3. tokenSupply'[q] = tokenSupply[q] + (IF q = p THEN n ELSE 0) /\ coinSupply' = coinSupply
      BY <1>1 DEF EscrowsCoins, Added
    <2> QED
      BY <1>0, <2>1, <2>2, <2>3 DEF Spare
  <1>2. ASSUME NEW m \in Nat, BurnsCoins(s, r, p, n, m)
        PROVE  Goal
    <2>1. coins'[q][Module] = coins[q][Module]
      BY <1>0, <1>2, MovedAt DEF BurnsCoins
    <2>a. Moved(tokens, tokens', p, Module, n, r, m)
      BY <1>2 DEF BurnsCoins
    <2>b. tokens'[q][Module] = tokens[q][Module] - (IF q = p /\ Module = Module THEN n ELSE 0)
                                                 + (IF q = p /\ Module = r THEN m ELSE 0)
      BY <1>0, <2>a, MovedAt
    <2>2. tokens'[q][Module] = tokens[q][Module] - (IF q = p THEN n ELSE 0)
      BY <1>0, <2>b
    <2>3. /\ coinSupply'[q] = coinSupply[q] + (IF q = p THEN 0 - n ELSE 0)
          /\ tokenSupply' = tokenSupply /\ p \notin ModuleOwned
      BY <1>2 DEF BurnsCoins, Added, External
    <2> QED
      BY <1>0, <2>1, <2>2, <2>3 DEF Spare
  <1>3. CASE ReleasesCoins(s, r, p, n)
    <2>a. Moved(coins, coins', p, Module, n, r, n)
      BY <1>3 DEF ReleasesCoins
    <2>b. coins'[q][Module] = coins[q][Module] - (IF q = p /\ Module = Module THEN n ELSE 0)
                                               + (IF q = p /\ Module = r THEN n ELSE 0)
      BY <1>0, <2>a, MovedAt
    <2>1. coins'[q][Module] = coins[q][Module] - (IF q = p THEN n ELSE 0)
      BY <1>0, <2>b
    <2>2. tokens'[q][Module] = tokens[q][Module]
      BY <1>0, <1>3, MovedAt DEF ReleasesCoins
    <2>3. /\ tokenSupply'[q] = tokenSupply[q] + (IF q = p THEN 0 - n ELSE 0)
          /\ coinSupply' = coinSupply
      BY <1>3 DEF ReleasesCoins, Added
    <2> QED
      BY <1>0, <2>1, <2>2, <2>3 DEF Spare
  <1>4. ASSUME NEW m \in Nat, EscrowsTokens(s, r, p, n, m)
        PROVE  Goal
    <2>0. m = n
      BY <1>4 DEF EscrowsTokens, Arrives
    <2>1. coins'[q][Module] = coins[q][Module]
      BY <1>0, <1>4, MovedAt DEF EscrowsTokens
    <2>2. tokens'[q][Module] = tokens[q][Module] + (IF q = p THEN n ELSE 0)
      BY <1>0, <1>4, <2>0, MovedAt DEF EscrowsTokens
    <2>3. coinSupply'[q] = coinSupply[q] + (IF q = p THEN n ELSE 0) /\ tokenSupply' = tokenSupply
      BY <1>4 DEF EscrowsTokens, Added
    <2>4. p \notin ModuleOwned
      BY <1>4 DEF EscrowsTokens, External
    <2> QED
      BY <1>0, <2>1, <2>2, <2>3, <2>4 DEF Spare
  <1>5. CASE SendsCoins(s, r, p, n)
    <2>1. coins'[q][Module] = coins[q][Module]
      BY <1>0, <1>5, MovedAt DEF SendsCoins
    <2> QED
      BY <1>5, <2>1 DEF SendsCoins, Spare
  <1> QED
    BY <1>1, <1>2, <1>3, <1>4, <1>5 DEF Converts

\* The excess, as messages and blocks see it, and what no step may do to it.
CommittedSpare(p) == IF phase = "idle" THEN Spare(p) ELSE SavedSpare(p)
SpareKept == \A p \in Pairs : CommittedSpare(p)' >= CommittedSpare(p)

\* A transfer in the EVM brings the module account what its log will claim.
LEMMA TransferArrives ==
    ASSUME TypeOK, ExactTransfer = Pairs, TransferStep
    PROVE  \E log \in Log :
              /\ logs' = Append(logs, log)
              /\ \A q \in Pairs :
                    /\ tokens'[q][Module] = tokens[q][Module] + Contribution(log, q)
                    /\ coins' = coins /\ coinSupply' = coinSupply /\ tokenSupply'[q] <= tokenSupply[q]
  <1>0. /\ Module \in Accounts /\ Module # Zero
        /\ \A u \in Users : u \in Accounts /\ u # Module
        /\ \A n \in Amounts : n \in Nat
        /\ tokens \in Balances
        /\ \A q \in Pairs : tokenSupply[q] \in Int /\ tokens[q][Module] \in Nat
    BY TypeFacts, ConversionAssumption
  <1>3. PICK s \in Users, r \in Accounts \cup {Zero}, p \in Pairs, n \in Amounts :
          /\ logs' = Append(logs, [pair |-> p, from |-> s, to |-> r, amount |-> n])
          /\ \/ r \in Accounts /\ \E m \in Nat : TransfersTokens(s, r, p, n, m)
             \/ r = Zero /\ BurnsTokens(s, p, n)
    BY DEF TransferStep
  <1> DEFINE log == [pair |-> p, from |-> s, to |-> r, amount |-> n]
  <1>4. log \in Log /\ logs' = Append(logs, log)
    BY <1>3 DEF Log
  <1>5. \A q \in Pairs : Contribution(log, q) = IF p = q /\ r = Module THEN n ELSE 0
    BY DEF Contribution
  <1> HIDE DEF log
  <1>6. \A q \in Pairs :
          /\ tokens'[q][Module] = tokens[q][Module] + Contribution(log, q)
          /\ coins' = coins /\ coinSupply' = coinSupply /\ tokenSupply'[q] <= tokenSupply[q]
    <2>1. ASSUME NEW m \in Nat, TransfersTokens(s, r, p, n, m), r \in Accounts, NEW q \in Pairs
          PROVE  /\ tokens'[q][Module] = tokens[q][Module] + Contribution(log, q)
                 /\ coins' = coins /\ coinSupply' = coinSupply /\ tokenSupply'[q] <= tokenSupply[q]
      <3>1. m = n /\ coins' = coins /\ coinSupply' = coinSupply /\ tokenSupply' = tokenSupply
        BY <2>1 DEF TransfersTokens, Arrives
      <3>2. tokens'[q][Module] = tokens[q][Module] + (IF q = p /\ r = Module THEN n ELSE 0)
        BY <1>0, <2>1, <3>1, MovedAt DEF TransfersTokens
      <3> QED
        BY <1>0, <1>5, <3>1, <3>2
    <2>2. ASSUME BurnsTokens(s, p, n), r = Zero, NEW q \in Pairs
          PROVE  /\ tokens'[q][Module] = tokens[q][Module] + Contribution(log, q)
                 /\ coins' = coins /\ coinSupply' = coinSupply /\ tokenSupply'[q] <= tokenSupply[q]
      <3>1. /\ coins' = coins /\ coinSupply' = coinSupply
            /\ tokenSupply'[q] = tokenSupply[q] + (IF q = p THEN 0 - n ELSE 0)
        BY <2>2 DEF BurnsTokens, Added
      <3>2. tokens'[q][Module] = tokens[q][Module]
        BY <1>0, <2>2, MovedAt DEF BurnsTokens
      <3> QED
        BY <1>0, <1>5, <2>2, <3>1, <3>2
    <2> QED
      BY <1>3, <2>1, <2>2
  <1> QED
    BY <1>4, <1>6

\* Transfers in the EVM add to the reserve what their logs will claim, and the
\* hook claims no more than that.
LEMMA BridgeInvNext ==
    ASSUME ExactTransfer = Pairs, BridgeInv, [Next]_vars
    PROVE  BridgeInv' /\ SpareKept
  <1>0. /\ TypeOK /\ TypeOK'
        /\ Module \in Accounts /\ Module \notin Users /\ Module # Zero
        /\ \A u \in Users : u \in Accounts /\ u # Module
        /\ \A n \in Amounts : n \in Nat
        /\ coins \in Balances /\ tokens \in Balances
        /\ \A q \in Pairs : coinSupply[q] \in Int /\ tokenSupply[q] \in Int
        /\ \A q \in Pairs : coins[q][Module] \in Nat /\ tokens[q][Module] \in Nat
    <2>1. TypeOK /\ TypeOK'
      BY TypeNext DEF BridgeInv
    <2> QED
      BY <2>1, TypeFacts, ConversionAssumption
  <1>00. \A q \in Pairs : /\ coinSupply'[q] \in Int /\ tokens'[q][Module] \in Int
                          /\ tokenSupply'[q] \in Int /\ coins'[q][Module] \in Int
    <2>1. /\ coinSupply' \in Supplies /\ tokens' \in Balances
          /\ tokenSupply' \in Supplies /\ coins' \in Balances
      BY <1>0 DEF TypeOK
    <2> QED
      BY <1>0, <2>1 DEF Supplies, Balances
  <1>a. \A q \in Pairs : Spare(q) \in Int /\ (phase # "idle" => SavedSpare(q) \in Int)
    BY <1>0, SpareFacts
  <1>1. CASE MessageStep
    <2>1. phase = "idle" /\ phase' = "idle"
      BY <1>1 DEF MessageStep, transaction
    <2>2. \A q \in Pairs : Spare(q)' = Spare(q)
      BY <1>0, <1>1, ConvertsKeepsSpare DEF MessageStep
    <2> QED
      BY <1>0, <1>a, <2>1, <2>2 DEF BridgeInv, SpareKept, CommittedSpare
  <1>2. CASE BeginEthereumTx
    <2>1. /\ phase = "idle" /\ phase' = "evm" /\ logs' = << >>
          /\ UNCHANGED <<coins, tokens, coinSupply, tokenSupply>>
      BY <1>2 DEF BeginEthereumTx, ledger
    <2>2. \A q \in Pairs : Spare(q)' = Spare(q) /\ SavedSpare(q)' = Spare(q)
      BY <1>2, <2>1 DEF BeginEthereumTx, Spare, SavedSpare
    <2>3. ASSUME NEW q \in Pairs
          PROVE  SpareCovered(q)'
      <3>1. CASE q \in ModuleOwned
        BY <1>a, <2>2, <3>1 DEF SpareCovered
      <3>2. CASE q \notin ModuleOwned
        <4>1. coinSupply'[q] + SavedSpare(q)' = tokens'[q][Module]
          BY <1>0, <2>1, <2>2, <3>2 DEF Spare
        <4>2. Covered(<< >>, coinSupply'[q] + SavedSpare(q)', tokens'[q][Module], q)
          BY <1>00, <4>1, CoveredEmpty
        <4> QED
          BY <2>1, <3>2, <4>2 DEF SpareCovered
      <3> QED
        BY <3>1, <3>2
    <2> QED
      BY <1>0, <1>a, <2>1, <2>2, <2>3 DEF BridgeInv, SpareKept, CommittedSpare
  <1>3. CASE TransferStep
    <2>1. phase = "evm" /\ phase' = phase /\ saved' = saved
      BY <1>3 DEF TransferStep
    <2>2. \A q \in Pairs : SavedSpare(q)' = SavedSpare(q)
      BY <2>1 DEF SavedSpare
    <2>3. PICK log \in Log :
            /\ logs' = Append(logs, log)
            /\ \A q \in Pairs :
                  /\ tokens'[q][Module] = tokens[q][Module] + Contribution(log, q)
                  /\ coins' = coins /\ coinSupply' = coinSupply /\ tokenSupply'[q] <= tokenSupply[q]
      BY <1>0, <1>3, TransferArrives
    <2>4. logs' = Append(logs, log) /\ logs \in Seq(Log)
      BY <1>0, <2>3 DEF TypeOK
    <2>6. \A q \in Pairs :
            /\ tokens'[q][Module] = tokens[q][Module] + Contribution(log, q)
            /\ coins' = coins /\ coinSupply' = coinSupply /\ tokenSupply'[q] <= tokenSupply[q]
      BY <2>3
    <2>7. ASSUME NEW q \in Pairs
          PROVE  SpareCovered(q)'
      <3>0. SavedSpare(q) \in Int /\ SpareCovered(q)
        BY <1>a, <2>1 DEF BridgeInv
      <3>1. CASE q \in ModuleOwned
        <4>1. Spare(q)' >= Spare(q)
          <5>1. tokenSupply'[q] \in Int
            BY <1>0 DEF TypeOK, Supplies
          <5> QED
            BY <1>0, <2>6, <3>1, <5>1 DEF Spare
        <4>2. Spare(q)' \in Int
          BY <1>00 DEF Spare
        <4> QED
          BY <1>a, <2>2, <3>0, <3>1, <4>1, <4>2 DEF SpareCovered
      <3>2. CASE q \notin ModuleOwned
        <4>1. Covered(logs, coinSupply[q] + SavedSpare(q), tokens[q][Module], q)
          BY <3>0, <3>2 DEF SpareCovered
        <4>2. coinSupply[q] + SavedSpare(q) \in Int /\ tokens[q][Module] \in Int /\ tokens'[q][Module] \in Int
          BY <1>0, <1>00, <3>0
        <4>3. tokens[q][Module] + Contribution(log, q) <= tokens'[q][Module]
          BY <2>6, <4>2
        <4>4. Covered(Append(logs, log), coinSupply[q] + SavedSpare(q), tokens'[q][Module], q)
          BY <2>4, <4>1, <4>2, <4>3, CoveredAppend
        <4> QED
          BY <2>2, <2>4, <2>6, <3>2, <4>4 DEF SpareCovered
      <3> QED
        BY <3>1, <3>2
    <2> QED
      BY <1>0, <1>a, <2>1, <2>2, <2>7 DEF BridgeInv, SpareKept, CommittedSpare
  <1>4. CASE RevertStep
    <2>1. phase # "idle" /\ phase' = "idle"
      BY <1>4 DEF RevertStep, Revert
    <2>2. \A q \in Pairs : Spare(q)' = SavedSpare(q)
      BY <1>4 DEF RevertStep, Revert, Spare, SavedSpare
    <2> QED
      BY <1>0, <1>a, <2>1, <2>2 DEF BridgeInv, SpareKept, CommittedSpare
  <1>5. CASE CommitStep
    <2>1. phase # "idle" /\ phase' = "idle"
      BY <1>5 DEF CommitStep, Commit
    <2>2. \A q \in Pairs : Spare(q)' = Spare(q)
      BY <1>5 DEF CommitStep, Commit, ledger, Spare
    <2>3. \A q \in Pairs : SavedSpare(q) <= Spare(q)
      BY <2>1, SpareAtEnd
    <2> QED
      BY <1>0, <1>a, <2>1, <2>2, <2>3 DEF BridgeInv, SpareKept, CommittedSpare
  <1>6. CASE HookCallStep
    <2>1. phase = "evm" /\ phase' = "hook" /\ UNCHANGED <<coins, tokens, coinSupply, tokenSupply, logs, saved>>
      BY <1>6 DEF HookCallStep, ledger
    <2>2. \A q \in Pairs : SavedSpare(q)' = SavedSpare(q) /\ SpareCovered(q)' = SpareCovered(q)
      BY <2>1 DEF SavedSpare, SpareCovered, Spare
    <2> QED
      BY <1>0, <1>a, <2>1, <2>2 DEF BridgeInv, SpareKept, CommittedSpare
  <1>7. CASE HookLogStep
    <2> DEFINE log == Head(logs)
    <2>1. /\ phase = "hook" /\ phase' = phase /\ saved' = saved /\ logs' = Tail(logs)
          /\ HookEffect(log) /\ logs # << >>
      BY <1>7 DEF HookLogStep, NextLog
    <2>2. /\ log.pair \in Pairs /\ log.from \in Users /\ log.amount \in Nat
          /\ log \in Log /\ logs \in Seq(Log)
      BY <1>0, <2>1, HeadOfLogs, HeadTailProperties DEF TypeOK
    <2>3. \A q \in Pairs : SavedSpare(q)' = SavedSpare(q)
      BY <2>1 DEF SavedSpare
    <2>4. \A q \in Pairs : Contribution(log, q) \in Nat
      BY <2>2, ContributionNat
    <2>h. Head(logs) = log
      OBVIOUS
    <2> HIDE DEF log
    <2>5. ASSUME NEW q \in Pairs
          PROVE  /\ q \in ModuleOwned => Spare(q)' >= Spare(q)
                 /\ q \notin ModuleOwned => /\ tokens'[q][Module] = tokens[q][Module]
                                            /\ coinSupply'[q] <= coinSupply[q] + Contribution(log, q)
      <3>1. CASE UNCHANGED ledger
        BY <1>0, <1>a, <2>4, <3>1 DEF ledger, Spare
      <3>2. CASE log.pair \in ModuleOwned /\ BurnsTokens(Module, log.pair, log.amount)
        <4>1. /\ tokenSupply'[q] = tokenSupply[q] + (IF q = log.pair THEN 0 - log.amount ELSE 0)
              /\ coinSupply' = coinSupply /\ coins' = coins
          BY <3>2 DEF BurnsTokens, Added
        <4>2. q # log.pair => tokens'[q][Module] = tokens[q][Module]
          BY <1>0, <2>2, <3>2, MovedAt DEF BurnsTokens
        <4>3. q \in ModuleOwned => Spare(q)' >= Spare(q)
          BY <1>0, <2>2, <4>1 DEF Spare
        <4> QED
          BY <1>0, <2>4, <3>2, <4>1, <4>2, <4>3
      <3>3. CASE ReleasesCoins(Module, log.from, log.pair, log.amount)
        <4>1. /\ tokenSupply'[q] = tokenSupply[q] + (IF q = log.pair THEN 0 - log.amount ELSE 0)
              /\ coinSupply' = coinSupply /\ log.pair \in ModuleOwned
          BY <3>3 DEF ReleasesCoins, Added
        <4>2. q # log.pair => tokens'[q][Module] = tokens[q][Module]
          BY <1>0, <2>2, <3>3, MovedAt DEF ReleasesCoins
        <4>a. Moved(coins, coins', log.pair, Module, log.amount, log.from, log.amount)
          BY <3>3 DEF ReleasesCoins
        <4>3. coins'[q][Module] = coins[q][Module] - (IF q = log.pair THEN log.amount ELSE 0)
          BY <1>0, <2>2, <4>a, MovedAt
        <4>4. q \in ModuleOwned => Spare(q)' >= Spare(q)
          BY <1>0, <2>2, <4>1, <4>3 DEF Spare
        <4> QED
          BY <1>0, <2>4, <4>1, <4>2, <4>4
      <3>4. CASE log.to = Module /\ MintsCoins(log.from, log.pair, log.amount)
        <4>1. /\ coinSupply'[q] = coinSupply[q] + (IF q = log.pair THEN log.amount ELSE 0)
              /\ tokenSupply' = tokenSupply /\ tokens' = tokens /\ log.pair \in External
          BY <3>4 DEF MintsCoins, Added
        <4>2. q # log.pair => coins'[q][Module] = coins[q][Module]
          BY <1>0, <2>2, <3>4, MovedAt DEF MintsCoins
        <4>3. q \in ModuleOwned => Spare(q)' >= Spare(q)
          BY <1>0, <4>1, <4>2 DEF Spare, External
        <4>4. Contribution(log, q) = IF q = log.pair THEN log.amount ELSE 0
          BY <3>4 DEF Contribution
        <4> QED
          BY <1>0, <2>2, <4>1, <4>3, <4>4
      <3> QED
        BY <2>1, <3>1, <3>2, <3>3, <3>4 DEF HookEffect
    <2>6. ASSUME NEW q \in Pairs
          PROVE  SpareCovered(q)'
      <3>0. SavedSpare(q) \in Int /\ SpareCovered(q)
        BY <1>a, <2>1 DEF BridgeInv
      <3>1. CASE q \in ModuleOwned
        <4>1. Spare(q)' \in Int
          BY <1>00 DEF Spare
        <4> QED
          BY <1>a, <2>3, <2>5, <3>0, <3>1, <4>1 DEF SpareCovered
      <3>2. CASE q \notin ModuleOwned
        <4>1. Covered(logs, coinSupply[q] + SavedSpare(q), tokens[q][Module], q)
          BY <3>0, <3>2 DEF SpareCovered
        <4>2. /\ coinSupply[q] + SavedSpare(q) \in Int /\ tokens[q][Module] \in Int
              /\ coinSupply'[q] + SavedSpare(q) \in Int
          BY <1>0, <1>00, <3>0
        <4>3. coinSupply'[q] + SavedSpare(q) <= (coinSupply[q] + SavedSpare(q)) + Contribution(Head(logs), q)
          BY <1>0, <1>00, <2>4, <2>5, <2>h, <3>0, <3>2
        <4>4. Covered(Tail(logs), coinSupply'[q] + SavedSpare(q), tokens[q][Module], q)
          BY <2>1, <2>2, <4>1, <4>2, <4>3, CoveredTail
        <4> QED
          BY <2>1, <2>3, <2>5, <3>2, <4>4 DEF SpareCovered
      <3> QED
        BY <3>1, <3>2
    <2> QED
      BY <1>0, <1>a, <2>1, <2>3, <2>6 DEF BridgeInv, SpareKept, CommittedSpare
  <1>8. CASE OtherStep
    <2>1. UNCHANGED <<coins, tokens, coinSupply, tokenSupply, phase, logs, saved>>
      BY <1>8 DEF OtherStep, ledger, transaction
    <2>2. \A q \in Pairs : /\ Spare(q)' = Spare(q) /\ SavedSpare(q)' = SavedSpare(q)
                           /\ SpareCovered(q)' = SpareCovered(q)
      BY <2>1 DEF SavedSpare, SpareCovered, Spare
    <2> QED
      BY <1>0, <1>a, <2>1, <2>2 DEF BridgeInv, SpareKept, CommittedSpare
  <1> QED
    BY <1>0, <1>1, <1>2, <1>3, <1>4, <1>5, <1>6, <1>7, <1>8, StepKinds

\* The reserve, the claims and the surplus of the abstract specification.
BridgeMapped ==
    /\ Escrowed \in [Pairs -> Int] /\ Issued \in [Pairs -> Int]
    /\ \A p \in Pairs : Reserve!Surplus(p) = CommittedSpare(p)

\* They are integers, and the surplus is the excess committed so far.
LEMMA BridgeMapping == TypeOK => BridgeMapped
  <1> SUFFICES ASSUME TypeOK
               PROVE  BridgeMapped
    OBVIOUS
  <1>1. Committed \in Ledger
    BY DEF TypeOK, Committed, Ledger
  <1>2. /\ Committed.coins \in Balances /\ Committed.tokens \in Balances
        /\ Committed.coinSupply \in Supplies /\ Committed.tokenSupply \in Supplies
    BY <1>1 DEF Ledger
  <1>3. Module \in Accounts
    BY TypeFacts
  <1>4. \A p \in Pairs : /\ Committed.coins[p][Module] \in Int /\ Committed.tokens[p][Module] \in Int
                         /\ Committed.coinSupply[p] \in Int /\ Committed.tokenSupply[p] \in Int
    BY <1>2, <1>3 DEF Balances, Supplies
  <1>5. Escrowed \in [Pairs -> Int] /\ Issued \in [Pairs -> Int]
    BY <1>4 DEF Escrowed, Issued
  <1>6. \A p \in Pairs : Reserve!Surplus(p) =
          IF p \in ModuleOwned THEN Committed.coins[p][Module] - Committed.tokenSupply[p]
                               ELSE Committed.tokens[p][Module] - Committed.coinSupply[p]
    BY DEF Reserve!Surplus, Escrowed, Issued
  <1> QED
    BY <1>5, <1>6 DEF BridgeMapped, Committed, CommittedSpare, Spare, SavedSpare

\* The bridge starts with nothing escrowed and nothing issued.
LEMMA BridgeInvInit ==
    ASSUME Init
    PROVE  BridgeInv /\ \A p \in Pairs : CommittedSpare(p) = 0
  <1>1. phase = "idle" /\ TypeOK
    BY TypeInit DEF Init
  <1>2. \A p \in Pairs : Spare(p) = 0
    BY ConversionAssumption DEF Init, Spare, Accounts, External
  <1> QED
    BY <1>1, <1>2 DEF BridgeInv, CommittedSpare

\* The conversions implement the bridge, for contracts that transfer what they
\* are told: the reserve of a pair never falls by more than the claims on it,
\* whatever an Ethereum transaction transfers and wherever the hook stops.
THEOREM ConversionsImplementBridge == ExactTransfer = Pairs => (Spec => ImplementsBridge)
  <1> SUFFICES ASSUME ExactTransfer = Pairs
               PROVE  Spec => ImplementsBridge
    OBVIOUS
  <1>1. Init => BridgeInv /\ Reserve!Init
    <2> SUFFICES ASSUME Init
                 PROVE  BridgeInv /\ Reserve!Init
      OBVIOUS
    <2>1. BridgeInv /\ \A p \in Pairs : CommittedSpare(p) = 0
      BY BridgeInvInit
    <2>2. /\ Escrowed \in [Pairs -> Int] /\ Issued \in [Pairs -> Int]
          /\ \A p \in Pairs : Reserve!Surplus(p) = CommittedSpare(p)
      BY <2>1, BridgeMapping DEF BridgeInv, BridgeMapped
    <2>3. \A p \in Pairs : Reserve!Surplus(p) >= 0
      BY <2>1, <2>2
    <2> QED
      BY <2>1, <2>2, <2>3 DEF Reserve!Init
  <1>2. BridgeInv /\ [Next]_vars => BridgeInv'
    BY BridgeInvNext
  <1>m. TypeOK' => BridgeMapped'
    BY BridgeMapping, PTL
  <1>3. BridgeInv /\ BridgeInv' /\ [Next]_vars => [Reserve!Next]_<<Escrowed, Issued>>
    <2> SUFFICES ASSUME BridgeInv, BridgeInv', [Next]_vars
                 PROVE  Reserve!Next
      OBVIOUS
    <2>1. \A p \in Pairs : Reserve!Surplus(p) = CommittedSpare(p)
      BY BridgeMapping DEF BridgeInv, BridgeMapped
    <2>2. BridgeMapped'
      BY <1>m DEF BridgeInv
    <2>3. /\ Escrowed' \in [Pairs -> Int] /\ Issued' \in [Pairs -> Int]
          /\ \A p \in Pairs : Reserve!Surplus(p)' = CommittedSpare(p)'
      BY <2>2 DEF BridgeMapped
    <2>4. SpareKept
      BY BridgeInvNext
    <2> QED
      BY <2>1, <2>3, <2>4 DEF Reserve!Next, SpareKept
  <1> QED
    BY <1>1, <1>2, <1>3, PTL DEF Spec, ImplementsBridge, Reserve!Spec

\* The same of the bridge whose reserve includes the former contracts.
TotalMapped ==
    /\ EscrowedAnywhere \in [Pairs -> Int] /\ Issued \in [Pairs -> Int]
    /\ \A p \in Pairs : Total!Surplus(p) = CommittedSpare(p) + former[p]

FormerOK == former \in [Pairs -> Int]

\* What is left in the former contracts adds to the surplus.
LEMMA TotalMapping == TypeOK /\ FormerOK => TotalMapped
  <1> SUFFICES ASSUME TypeOK, FormerOK
               PROVE  TotalMapped
    OBVIOUS
  <1>1. /\ Escrowed \in [Pairs -> Int] /\ Issued \in [Pairs -> Int]
        /\ \A p \in Pairs : Reserve!Surplus(p) = CommittedSpare(p)
    BY BridgeMapping DEF BridgeMapped
  <1>2. EscrowedAnywhere \in [Pairs -> Int]
    BY <1>1 DEF EscrowedAnywhere, FormerOK
  <1>3. \A p \in Pairs : Escrowed[p] \in Int /\ Issued[p] \in Int /\ former[p] \in Int
    BY <1>1 DEF FormerOK
  <1>4. \A p \in Pairs : /\ Total!Surplus(p) = (Escrowed[p] + former[p]) - Issued[p]
                         /\ CommittedSpare(p) = Escrowed[p] - Issued[p]
    BY <1>1 DEF Total!Surplus, Reserve!Surplus, EscrowedAnywhere
  <1> QED
    BY <1>1, <1>2, <1>3, <1>4 DEF TotalMapped

\* An update leaves in the former contract what the new one does not have.
LEMMA UpdateKeepsSpare ==
    ASSUME ExactTransfer = Pairs, BridgeInv, FormerOK, [UpdateNext]_updateVars
    PROVE  /\ BridgeInv' /\ FormerOK'
           /\ \A p \in Pairs : (CommittedSpare(p) + former[p])' >= CommittedSpare(p) + former[p]
  <1>0. /\ TypeOK /\ TypeOK'
        /\ Module \in Accounts /\ Module \notin Users
        /\ \A q \in Pairs : coinSupply[q] \in Int /\ tokens[q][Module] \in Nat
    <2>1. TypeOK /\ TypeOK'
      BY UpdateStepKinds DEF BridgeInv
    <2> QED
      BY <2>1, TypeFacts
  <1>a. \A q \in Pairs : CommittedSpare(q) \in Int /\ former[q] \in Int
    BY <1>0, SpareFacts DEF CommittedSpare, FormerOK
  <1>1. CASE [Next]_vars /\ former' = former
    <2>1. BridgeInv' /\ SpareKept
      BY <1>1, BridgeInvNext
    <2>2. BridgeMapped'
      <3>1. TypeOK' => BridgeMapped'
        BY BridgeMapping, PTL
      <3> QED
        BY <1>0, <3>1
    <2>3. \A q \in Pairs : CommittedSpare(q)' \in Int
      <3>1. \A q \in Pairs : Escrowed'[q] \in Int /\ Issued'[q] \in Int
        BY <2>2 DEF BridgeMapped
      <3> QED
        BY <2>2, <3>1 DEF BridgeMapped, Reserve!Surplus
    <2> QED
      BY <1>1, <1>a, <2>1, <2>3 DEF FormerOK, SpareKept
  <1>2. ASSUME NEW p \in Pairs, UpdateTokenPairERC20(p)
        PROVE  /\ BridgeInv' /\ FormerOK'
               /\ \A q \in Pairs : (CommittedSpare(q) + former[q])' >= CommittedSpare(q) + former[q]
    <2>1. /\ phase = "idle" /\ phase' = "idle" /\ p \in External
          /\ coins' = coins /\ coinSupply' = coinSupply
          /\ former' = [former EXCEPT ![p] = @ + tokens[p][Module]]
      BY <1>2 DEF UpdateTokenPairERC20, transaction
    <2>2. /\ \A q \in Pairs : q # p => tokens'[q] = tokens[q] /\ tokenSupply'[q] = tokenSupply[q]
          /\ tokens'[p][Module] = 0
      BY <1>0, <1>2 DEF UpdateTokenPairERC20, TypeOK, Balances, Supplies
    <2>3. former' \in [Pairs -> Int]
      BY <1>0, <2>1 DEF FormerOK
    <2>4. ASSUME NEW q \in Pairs, q # p
          PROVE  CommittedSpare(q)' = CommittedSpare(q) /\ former'[q] = former[q]
      BY <2>1, <2>2, <2>4 DEF CommittedSpare, Spare, FormerOK
    <2>5. /\ CommittedSpare(p) = tokens[p][Module] - coinSupply[p]
          /\ CommittedSpare(p)' = 0 - coinSupply[p]
          /\ former'[p] = former[p] + tokens[p][Module]
      BY <2>1, <2>2 DEF CommittedSpare, Spare, External, FormerOK
    <2> QED
      BY <1>0, <1>a, <2>1, <2>3, <2>4, <2>5 DEF BridgeInv, FormerOK
  <1> QED
    BY <1>0, <1>1, <1>2, UpdateStepKinds

\* Across updates of its contract a pair is a bridge whose reserve includes
\* what the module holds in the former contracts.
THEOREM UpdatesImplementBridge == ExactTransfer = Pairs => (UpdateSpec => ImplementsBridgeAcrossUpdates)
  <1> SUFFICES ASSUME ExactTransfer = Pairs
               PROVE  UpdateSpec => ImplementsBridgeAcrossUpdates
    OBVIOUS
  <1> DEFINE IInv == BridgeInv /\ FormerOK
  <1>1. UpdateInit => IInv /\ Total!Init
    <2> SUFFICES ASSUME UpdateInit
                 PROVE  IInv /\ Total!Init
      OBVIOUS
    <2>1. BridgeInv /\ \A p \in Pairs : CommittedSpare(p) = 0
      BY BridgeInvInit DEF UpdateInit
    <2>2. FormerOK /\ \A p \in Pairs : former[p] = 0
      BY DEF UpdateInit, FormerOK
    <2>3. TotalMapped
      BY <2>1, <2>2, TotalMapping DEF BridgeInv
    <2>4. \A p \in Pairs : Total!Surplus(p) >= 0
      BY <2>1, <2>2, <2>3 DEF TotalMapped
    <2> QED
      BY <2>1, <2>2, <2>3, <2>4 DEF Total!Init, TotalMapped
  <1>2. IInv /\ [UpdateNext]_updateVars => IInv'
    BY UpdateKeepsSpare
  <1>m. TypeOK' /\ FormerOK' => TotalMapped'
    BY TotalMapping, PTL
  <1>3. IInv /\ IInv' /\ [UpdateNext]_updateVars => [Total!Next]_<<EscrowedAnywhere, Issued>>
    <2> SUFFICES ASSUME IInv, IInv', [UpdateNext]_updateVars
                 PROVE  Total!Next
      OBVIOUS
    <2>1. TotalMapped /\ TotalMapped'
      BY <1>m, TotalMapping DEF BridgeInv
    <2>2. \A p \in Pairs : (CommittedSpare(p) + former[p])' >= CommittedSpare(p) + former[p]
      BY UpdateKeepsSpare
    <2>3. \A p \in Pairs : Total!Surplus(p)' >= Total!Surplus(p)
      BY <2>1, <2>2 DEF TotalMapped
    <2> QED
      BY <2>1, <2>3 DEF Total!Next, TotalMapped
  <1> HIDE DEF IInv
  <1> QED
    BY <1>1, <1>2, <1>3, PTL DEF UpdateSpec, ImplementsBridgeAcrossUpdates, Total!Spec
-----------------------------------------------------------------------------
(* What is left with the module account.                                   *)

\* As Covered, with nothing to spare: starting from supply, the logs that the
\* hook has yet to go through add up to held.
Settled(ls, supply, held, p) ==
    \E total \in [1..(Len(ls) + 1) -> Int] :
        /\ supply = total[1]
        /\ total[Len(ls) + 1] = held
        /\ \A i, j \in 1..(Len(ls) + 1) : i <= j => total[i] <= total[j]
        /\ \A i \in 1..Len(ls) : total[i] + Contribution(ls[i], p) = total[i + 1]

\* With no logs left, the one is the other.
LEMMA SettledEmpty ==
    ASSUME NEW supply \in Int, NEW held \in Int, NEW p \in Pairs
    PROVE  Settled(<< >>, supply, held, p) <=> supply = held
  <1>0. Len(<< >>) = 0
    OBVIOUS
  <1>1. ASSUME supply = held
        PROVE  Settled(<< >>, supply, held, p)
    <2> DEFINE total == [i \in 1..1 |-> supply]
    <2>1. /\ total \in [1..(Len(<< >>) + 1) -> Int]
          /\ supply = total[1]
          /\ total[Len(<< >>) + 1] = held
          /\ \A i, j \in 1..(Len(<< >>) + 1) : i <= j => total[i] <= total[j]
      BY <1>1
    <2>2. \A i \in 1..Len(<< >>) : total[i] + Contribution(<< >>[i], p) = total[i + 1]
      OBVIOUS
    <2> HIDE DEF total
    <2> QED
      BY <2>1, <2>2 DEF Settled
  <1>2. ASSUME Settled(<< >>, supply, held, p)
        PROVE  supply = held
    <2>1. PICK total \in [1..(Len(<< >>) + 1) -> Int] : supply = total[1] /\ total[Len(<< >>) + 1] = held
      BY <1>2 DEF Settled
    <2> QED
      BY <1>0, <2>1
  <1> QED
    BY <1>1, <1>2

\* A log for which as much has arrived as it adds.
LEMMA SettledAppend ==
    ASSUME NEW ls \in Seq(Log), NEW supply \in Int, NEW held \in Int, NEW p \in Pairs,
           Settled(ls, supply, held, p), NEW log \in Log
    PROVE  Settled(Append(ls, log), supply, held + Contribution(log, p), p)
  <1> DEFINE ls2 == Append(ls, log)
             k == Len(ls) + 1
  <1>1. /\ Len(ls) \in Nat /\ k \in Nat /\ k >= 1
        /\ Len(ls2) = k
        /\ ls2[k] = log
        /\ \A i \in 1..Len(ls) : ls2[i] = ls[i]
    BY AppendProperties
  <1>2. PICK total \in [1..(Len(ls) + 1) -> Int] :
          /\ supply = total[1]
          /\ total[Len(ls) + 1] = held
          /\ \A i, j \in 1..(Len(ls) + 1) : i <= j => total[i] <= total[j]
          /\ \A i \in 1..Len(ls) : total[i] + Contribution(ls[i], p) = total[i + 1]
    BY DEF Settled
  <1>3. Contribution(log, p) \in Nat
    BY ContributionNat
  <1> DEFINE total2 == [i \in 1..(k + 1) |-> IF i <= k THEN total[i] ELSE total[k] + Contribution(log, p)]
  <1> HIDE DEF ls2
  <1>4. total2 \in [1..(Len(ls2) + 1) -> Int]
    BY <1>1, <1>2, <1>3
  <1>5. /\ \A i \in 1..k : total2[i] = total[i]
        /\ total2[k + 1] = total[k] + Contribution(log, p)
    BY <1>1
  <1>5a. \A i \in 1..k : total[i] \in Int
    BY <1>2
  <1> HIDE DEF total2
  <1>6. supply = total2[1] /\ total2[Len(ls2) + 1] = held + Contribution(log, p)
    BY <1>1, <1>2, <1>3, <1>5, <1>5a
  <1>7. \A i, j \in 1..(Len(ls2) + 1) : i <= j => total2[i] <= total2[j]
    <2> SUFFICES ASSUME NEW i \in 1..(k + 1), NEW j \in 1..(k + 1), i <= j
                 PROVE  total2[i] <= total2[j]
      BY <1>1
    <2>1. CASE j \in 1..k
      BY <1>1, <1>2, <1>5, <2>1
    <2>2. CASE i \in 1..k /\ j = k + 1
      <3>1. total[i] <= total[k]
        BY <1>1, <1>2, <2>2
      <3> QED
        BY <1>1, <1>3, <1>5, <1>5a, <2>2, <3>1
    <2>3. CASE i = k + 1 /\ j = k + 1
      BY <1>1, <1>3, <1>5, <1>5a, <2>3
    <2> QED
      BY <1>1, <2>1, <2>2, <2>3
  <1>8. \A i \in 1..Len(ls2) : total2[i] + Contribution(ls2[i], p) = total2[i + 1]
    <2> SUFFICES ASSUME NEW i \in 1..k
                 PROVE  total2[i] + Contribution(ls2[i], p) = total2[i + 1]
      BY <1>1
    <2>1. CASE i \in 1..Len(ls)
      <3>1. i + 1 \in 1..k
        BY <1>1, <2>1
      <3> QED
        BY <1>1, <1>2, <1>5, <2>1, <3>1
    <2>2. CASE i = k
      BY <1>1, <1>3, <1>5, <1>5a, <2>2
    <2> QED
      BY <1>1, <2>1, <2>2
  <1>9. Settled(ls2, supply, held + Contribution(log, p), p)
    BY <1>4, <1>6, <1>7, <1>8 DEF Settled
  <1> QED
    BY <1>9 DEF ls2

\* The hook goes through one log, for which enough is held: the supply grows by
\* as much, or what is held falls by as much.
LEMMA SettledTail ==
    ASSUME NEW ls \in Seq(Log), NEW supply \in Int, NEW held \in Int, NEW p \in Pairs,
           Settled(ls, supply, held, p), ls # << >>,
           NEW d \in Int
    PROVE  /\ supply + Contribution(Head(ls), p) <= held
           /\ Settled(Tail(ls), (supply + Contribution(Head(ls), p)) - d, held - d, p)
  <1> DEFINE ls2 == Tail(ls)
             k == Len(ls)
  <1>1. /\ k \in Nat /\ k >= 1
        /\ ls2 \in Seq(Log) /\ Len(ls2) = k - 1
        /\ \A i \in 1..(k - 1) : ls2[i] = ls[i + 1]
        /\ Head(ls) = ls[1] /\ Head(ls) \in Log
        /\ \A i \in 1..k : ls[i] \in Log
    BY HeadTailProperties
  <1>2. PICK total \in [1..(Len(ls) + 1) -> Int] :
          /\ supply = total[1]
          /\ total[Len(ls) + 1] = held
          /\ \A i, j \in 1..(Len(ls) + 1) : i <= j => total[i] <= total[j]
          /\ \A i \in 1..Len(ls) : total[i] + Contribution(ls[i], p) = total[i + 1]
    BY DEF Settled
  <1>3. /\ Contribution(Head(ls), p) \in Nat
        /\ \A i \in 1..k : Contribution(ls[i], p) \in Nat
    BY <1>1, ContributionNat
  <1> DEFINE total2 == [i \in 1..k |-> total[i + 1] - d]
  <1> HIDE DEF ls2
  <1>4. total2 \in [1..(Len(ls2) + 1) -> Int]
    BY <1>1, <1>2
  <1>5. \A i \in 1..k : total2[i] = total[i + 1] - d
    OBVIOUS
  <1>5a. \A i \in 1..(k + 1) : total[i] \in Int
    BY <1>2
  <1> HIDE DEF total2
  <1>6. total[2] = supply + Contribution(Head(ls), p) /\ total[2] \in Int
    <2>1. 1 \in 1..Len(ls) /\ 2 \in 1..(k + 1)
      BY <1>1
    <2>2. total[1] + Contribution(ls[1], p) = total[1 + 1]
      BY <1>2, <2>1
    <2> QED
      BY <1>1, <1>2, <1>5a, <2>1, <2>2
  <1>6a. total[2] <= held
    BY <1>1, <1>2
  <1>6b. (supply + Contribution(Head(ls), p)) - d = total2[1] /\ total2[Len(ls2) + 1] = held - d
    BY <1>1, <1>2, <1>5, <1>6
  <1>7. \A i, j \in 1..(Len(ls2) + 1) : i <= j => total2[i] <= total2[j]
    <2> SUFFICES ASSUME NEW i \in 1..k, NEW j \in 1..k, i <= j
                 PROVE  total2[i] <= total2[j]
      BY <1>1
    <2>1. i + 1 \in 1..(k + 1) /\ j + 1 \in 1..(k + 1) /\ i + 1 <= j + 1
      BY <1>1
    <2>2. total[i + 1] <= total[j + 1] /\ total[i + 1] \in Int /\ total[j + 1] \in Int
      BY <1>2, <1>5a, <2>1
    <2> QED
      BY <1>5, <2>2
  <1>8. \A i \in 1..Len(ls2) : total2[i] + Contribution(ls2[i], p) = total2[i + 1]
    <2> SUFFICES ASSUME NEW i \in 1..(k - 1)
                 PROVE  total2[i] + Contribution(ls2[i], p) = total2[i + 1]
      BY <1>1
    <2>1. i \in 1..k /\ i + 1 \in 1..k /\ ls2[i] = ls[i + 1] /\ i + 1 \in 1..(k + 1) /\ (i + 1) + 1 \in 1..(k + 1)
      BY <1>1
    <2>2. total[i + 1] + Contribution(ls[i + 1], p) = total[(i + 1) + 1]
      BY <1>2, <2>1
    <2>3. total[i + 1] \in Int /\ total[(i + 1) + 1] \in Int /\ Contribution(ls[i + 1], p) \in Int
      BY <1>3, <1>5a, <2>1
    <2> QED
      BY <1>5, <2>1, <2>2, <2>3
  <1>9. Settled(ls2, (supply + Contribution(Head(ls), p)) - d, held - d, p)
    BY <1>4, <1>6b, <1>7, <1>8 DEF Settled
  <1> QED
    BY <1>6, <1>6a, <1>9 DEF ls2

\* The supply a chain of totals starts from is at most what it ends in.
LEMMA SettledBound ==
    ASSUME NEW ls \in Seq(Log), NEW supply \in Int, NEW held \in Int, NEW p \in Pairs,
           Settled(ls, supply, held, p)
    PROVE  supply <= held
  <1>1. PICK total \in [1..(Len(ls) + 1) -> Int] :
          /\ supply = total[1]
          /\ total[Len(ls) + 1] = held
          /\ \A i, j \in 1..(Len(ls) + 1) : i <= j => total[i] <= total[j]
    BY DEF Settled
  <1>2. Len(ls) \in Nat /\ 1 \in 1..(Len(ls) + 1) /\ Len(ls) + 1 \in 1..(Len(ls) + 1)
    OBVIOUS
  <1> QED
    BY <1>1, <1>2

\* What is claimed of the tokens the module holds, none of a module-owned pair
\* and the coins of an external one, and what is not: Stranded, of the ledger in
\* the middle of a transaction.
Claimed(p) == IF p \in ModuleOwned THEN 0 ELSE coinSupply[p]
StrandedNow(p) == tokens[p][Module] - Claimed(p)

\* In a transaction under way the module holds, of what is neither claimed nor
\* was stranded before, what the logs to go through brought.
LogsSettled ==
    \A p \in Pairs : Settled(logs, Claimed(p) + Stranded(saved, p), tokens[p][Module], p)

\* The hook runs only where it is set, and there nothing is stranded.
StrandedInv ==
    /\ TypeOK
    /\ phase = "hook" => HooksSet
    /\ phase # "idle" => LogsSettled
    /\ HooksSet => \A p \in Pairs : Stranded(Committed, p) = 0

\* What a step may change of what is stranded.
StrandedStep ==
    \A p \in Pairs :
        Stranded(Committed', p) # Stranded(Committed, p) =>
            /\ phase = "evm"
            /\ ~HooksSet
            /\ Stranded(Committed', p) > Stranded(Committed, p)

\* The stranded tokens are the present ones between transactions.
LEMMA CommittedStranded ==
    ASSUME NEW p
    PROVE  /\ Stranded(Committed, p) = IF phase = "idle" THEN StrandedNow(p) ELSE Stranded(saved, p)
           /\ Stranded(Committed', p) = IF phase' = "idle" THEN StrandedNow(p)' ELSE Stranded(saved', p)
  BY DEF Stranded, Committed, StrandedNow, Claimed

\* At the start the module holds nothing.
LEMMA StrandedInvInit == Init => StrandedInv
  <1> SUFFICES ASSUME Init
               PROVE  StrandedInv
    OBVIOUS
  <1>1. TypeOK /\ phase = "idle"
    BY TypeInit DEF Init
  <1>2. \A p \in Pairs : StrandedNow(p) = 0
    BY ConversionAssumption DEF Init, StrandedNow, Claimed, Accounts, External
  <1> QED
    BY <1>1, <1>2, CommittedStranded DEF StrandedInv

\* The hook, when it is there, goes through every log and burns or mints for
\* each what it brought; when it is not, what was brought stays.
LEMMA StrandedInvNext ==
    ASSUME ExactTransfer = Pairs, StrandedInv, [Next]_vars
    PROVE  StrandedInv' /\ StrandedStep
  <1>0. /\ TypeOK /\ TypeOK'
        /\ Module \in Accounts /\ Module \notin Users
        /\ \A u \in Users : u \in Accounts /\ u # Module
        /\ tokens \in Balances
        /\ \A q \in Pairs : coinSupply[q] \in Int /\ tokens[q][Module] \in Nat
        /\ \A q \in Pairs : Claimed(q) \in Int
        /\ logs \in Seq(Log)
    <2>1. TypeOK /\ TypeOK'
      BY TypeNext DEF StrandedInv
    <2>2. \A q \in Pairs : coinSupply[q] \in Int
      BY <2>1, TypeFacts
    <2>3. \A q \in Pairs : Claimed(q) \in Int
      BY <2>2 DEF Claimed
    <2> QED
      BY <2>1, <2>3, TypeFacts DEF TypeOK
  <1>a. \A q \in Pairs :
          /\ Stranded(Committed, q) = IF phase = "idle" THEN StrandedNow(q) ELSE Stranded(saved, q)
          /\ Stranded(Committed', q) = IF phase' = "idle" THEN StrandedNow(q)' ELSE Stranded(saved', q)
    BY CommittedStranded
  <1>b. phase # "idle" => \A q \in Pairs : Stranded(saved, q) \in Int
    <2>1. phase # "idle" => saved.tokens \in Balances /\ saved.coinSupply \in Supplies
      BY <1>0 DEF TypeOK, Ledger
    <2> QED
      BY <1>0, <2>1 DEF Balances, Supplies, Stranded
  <1>c. \A q \in Pairs : StrandedNow(q) \in Int
    BY <1>0 DEF StrandedNow
  \* What keeps the committed amounts keeps what is said of them.
  <1>d. ASSUME \A q \in Pairs : Stranded(Committed', q) = Stranded(Committed, q)
        PROVE  StrandedStep /\ (HooksSet => \A q \in Pairs : Stranded(Committed', q) = 0)
    BY <1>d DEF StrandedStep, StrandedInv
  <1>1. CASE MessageStep
    <2>1. phase = "idle" /\ phase' = "idle"
      BY <1>1 DEF MessageStep, transaction
    <2>2. \A q \in Pairs : /\ Spare(q)' = Spare(q)
                           /\ q \in ModuleOwned => tokens'[q][Module] = tokens[q][Module]
      BY <1>0, <1>1, ConvertsKeepsSpare DEF MessageStep
    <2>3. \A q \in Pairs : StrandedNow(q)' = StrandedNow(q)
      BY <2>2 DEF StrandedNow, Claimed, Spare
    <2> QED
      BY <1>0, <1>a, <1>d, <2>1, <2>3 DEF StrandedInv
  <1>2. CASE BeginEthereumTx
    <2>1. /\ phase = "idle" /\ phase' = "evm" /\ logs' = << >>
          /\ tokens' = tokens /\ coinSupply' = coinSupply
          /\ saved'.tokens = tokens /\ saved'.coinSupply = coinSupply
      BY <1>2 DEF BeginEthereumTx, ledger
    <2>2. \A q \in Pairs : Stranded(saved', q) = StrandedNow(q) /\ Claimed(q)' = Claimed(q)
      BY <2>1 DEF Stranded, StrandedNow, Claimed
    <2>3. ASSUME NEW q \in Pairs
          PROVE  Settled(logs', Claimed(q)' + Stranded(saved', q), tokens'[q][Module], q)
      <3>1. Claimed(q)' + Stranded(saved', q) = tokens[q][Module]
        BY <1>0, <2>2 DEF StrandedNow
      <3>2. Settled(<< >>, tokens[q][Module], tokens[q][Module], q)
        BY <1>0, SettledEmpty
      <3> QED
        BY <2>1, <3>1, <3>2
    <2> QED
      BY <1>0, <1>a, <1>d, <2>1, <2>2, <2>3 DEF StrandedInv, LogsSettled
  <1>3. CASE TransferStep
    <2>1. phase = "evm" /\ phase' = phase /\ saved' = saved
      BY <1>3 DEF TransferStep
    <2>2. PICK log \in Log :
            /\ logs' = Append(logs, log)
            /\ \A q \in Pairs :
                  /\ tokens'[q][Module] = tokens[q][Module] + Contribution(log, q)
                  /\ coins' = coins /\ coinSupply' = coinSupply /\ tokenSupply'[q] <= tokenSupply[q]
      BY <1>0, <1>3, TransferArrives
    <2>3. ASSUME NEW q \in Pairs
          PROVE  Settled(logs', Claimed(q)' + Stranded(saved', q), tokens'[q][Module], q)
      <3>1. Settled(logs, Claimed(q) + Stranded(saved, q), tokens[q][Module], q)
        BY <2>1 DEF StrandedInv, LogsSettled
      <3>0. Claimed(q) + Stranded(saved, q) \in Int /\ tokens[q][Module] \in Int
        BY <1>0, <1>b, <2>1
      <3>2. Settled(Append(logs, log), Claimed(q) + Stranded(saved, q),
                    tokens[q][Module] + Contribution(log, q), q)
        BY <1>0, <3>0, <3>1, SettledAppend
      <3>3. Claimed(q)' = Claimed(q)
        BY <2>2 DEF Claimed
      <3> QED
        BY <2>1, <2>2, <3>2, <3>3
    <2> QED
      BY <1>0, <1>a, <1>d, <2>1, <2>3 DEF StrandedInv, LogsSettled
  <1>4. CASE RevertStep
    <2>1. /\ phase # "idle" /\ phase' = "idle"
          /\ tokens' = saved.tokens /\ coinSupply' = saved.coinSupply
      BY <1>4 DEF RevertStep, Revert
    <2>2. \A q \in Pairs : StrandedNow(q)' = Stranded(saved, q)
      BY <2>1 DEF StrandedNow, Stranded, Claimed
    <2> QED
      BY <1>0, <1>a, <1>d, <2>1, <2>2 DEF StrandedInv
  <1>5. CASE CommitStep
    <2>1. /\ phase # "idle" /\ phase' = "idle"
          /\ (phase = "evm" /\ ~HooksSet) \/ (phase = "hook" /\ logs = << >>)
          /\ tokens' = tokens /\ coinSupply' = coinSupply
      BY <1>5 DEF CommitStep, Commit, ledger
    <2>2. ASSUME NEW q \in Pairs
          PROVE  /\ StrandedNow(q)' = StrandedNow(q)
                 /\ Stranded(saved, q) <= StrandedNow(q)
                 /\ logs = << >> => Stranded(saved, q) = StrandedNow(q)
      <3>1. Settled(logs, Claimed(q) + Stranded(saved, q), tokens[q][Module], q)
        BY <2>1 DEF StrandedInv, LogsSettled
      <3>2. Claimed(q) + Stranded(saved, q) \in Int /\ tokens[q][Module] \in Int
        BY <1>0, <1>b, <2>1
      <3>3. Claimed(q) + Stranded(saved, q) <= tokens[q][Module]
        BY <1>0, <3>1, <3>2, SettledBound
      <3>4. logs = << >> => Claimed(q) + Stranded(saved, q) = tokens[q][Module]
        BY <3>1, <3>2, SettledEmpty
      <3>5. StrandedNow(q)' = StrandedNow(q)
        BY <2>1 DEF StrandedNow, Claimed
      <3> QED
        BY <1>0, <1>b, <2>1, <3>3, <3>4, <3>5 DEF StrandedNow
    <2>3. CASE phase = "evm" /\ ~HooksSet
      <3>1. StrandedStep
        BY <1>a, <1>b, <1>c, <2>1, <2>2, <2>3 DEF StrandedStep
      <3> QED
        BY <1>0, <2>1, <2>3, <3>1 DEF StrandedInv
    <2>4. CASE phase = "hook" /\ logs = << >>
      <3>1. \A q \in Pairs : Stranded(Committed', q) = Stranded(Committed, q)
        BY <1>a, <2>1, <2>2, <2>4
      <3> QED
        BY <1>0, <1>d, <2>1, <3>1 DEF StrandedInv
    <2> QED
      BY <2>1, <2>3, <2>4
  <1>6. CASE HookCallStep
    <2>1. /\ phase = "evm" /\ phase' = "hook" /\ HooksSet
          /\ UNCHANGED <<tokens, coinSupply, logs, saved>>
      BY <1>6 DEF HookCallStep, ledger
    <2>2. LogsSettled'
      BY <2>1 DEF StrandedInv, LogsSettled, Claimed
    <2> QED
      BY <1>0, <1>a, <1>d, <2>1, <2>2 DEF StrandedInv
  <1>7. CASE HookLogStep
    <2> DEFINE log == Head(logs)
    <2>1. /\ phase = "hook" /\ phase' = phase /\ saved' = saved /\ logs' = Tail(logs)
          /\ HookEffect(log) /\ logs # << >>
      BY <1>7 DEF HookLogStep, NextLog
    <2>2. log.pair \in Pairs /\ log.from \in Users /\ log.amount \in Nat
      BY <1>0, <2>1, HeadOfLogs
    <2>h. Head(logs) = log
      OBVIOUS
    <2> HIDE DEF log
    <2>c. \A q \in Pairs : Contribution(log, q) = IF q = log.pair /\ log.to = Module THEN log.amount ELSE 0
      BY DEF Contribution
    <2>z. \A q \in Pairs : Stranded(saved, q) = 0
      BY <1>a, <2>1 DEF StrandedInv
    <2>y. \A q \in Pairs : Settled(logs, Claimed(q), tokens[q][Module], q)
      <3>1. \A q \in Pairs : Claimed(q) + 0 = Claimed(q)
        BY <1>0
      <3> QED
        BY <2>1, <2>z, <3>1 DEF StrandedInv, LogsSettled
    <2>3. ASSUME NEW q \in Pairs
          PROVE  Settled(Tail(logs), Claimed(q)', tokens'[q][Module], q)
      <3>0. Settled(logs, Claimed(q), tokens[q][Module], q) /\ Claimed(q) \in Int /\ tokens[q][Module] \in Int
        BY <1>0, <2>y
      <3>1. \A d \in Int :
              /\ Claimed(q) + Contribution(log, q) <= tokens[q][Module]
              /\ Settled(Tail(logs), (Claimed(q) + Contribution(log, q)) - d, tokens[q][Module] - d, q)
        BY <1>0, <2>1, <2>h, <3>0, SettledTail
      \* The hook adds c to the claims and takes d from what is held.
      <3>2. ASSUME NEW d \in Int, Claimed(q)' = (Claimed(q) + Contribution(log, q)) - d,
                   tokens'[q][Module] = tokens[q][Module] - d
            PROVE  Settled(Tail(logs), Claimed(q)', tokens'[q][Module], q)
        BY <3>1, <3>2
      <3>3. CASE UNCHANGED ledger /\ log.to # Module
        <4>1. Contribution(log, q) = 0 /\ Claimed(q)' = Claimed(q) /\ tokens'[q][Module] = tokens[q][Module]
          BY <2>c, <3>3 DEF ledger, Claimed
        <4>2. 0 \in Int /\ Claimed(q)' = (Claimed(q) + Contribution(log, q)) - 0 /\ tokens'[q][Module] = tokens[q][Module] - 0
          BY <3>0, <4>1
        <4> QED
          BY <3>2, <4>2
      <3>4. CASE log.to = Module /\ log.pair \in ModuleOwned /\ ~(tokens[log.pair][Module] >= log.amount)
        <4>1. Settled(logs, Claimed(log.pair), tokens[log.pair][Module], log.pair) /\ Claimed(log.pair) = 0
          BY <2>2, <2>y, <3>4 DEF Claimed
        <4>2. 0 + Contribution(log, log.pair) <= tokens[log.pair][Module]
          BY <1>0, <2>1, <2>2, <2>h, <4>1, SettledTail
        <4> QED
          BY <1>0, <2>2, <2>c, <3>4, <4>2
      <3>5. CASE /\ log.to = Module /\ log.pair \in ModuleOwned /\ coinSupply' = coinSupply
                 /\ Moved(tokens, tokens', log.pair, Module, log.amount, Module, 0)
        <4>1. tokens'[q][Module] = tokens[q][Module] - (IF q = log.pair THEN log.amount ELSE 0)
          BY <1>0, <2>2, <3>5, MovedAt
        <4>2. Claimed(q)' = Claimed(q)
          BY <3>5 DEF Claimed
        <4>3. /\ Contribution(log, q) \in Int
              /\ tokens'[q][Module] = tokens[q][Module] - Contribution(log, q)
              /\ Claimed(q)' = (Claimed(q) + Contribution(log, q)) - Contribution(log, q)
          BY <2>2, <2>c, <3>0, <3>5, <4>1, <4>2
        <4> QED
          BY <3>2, <4>3
      <3>6. CASE log.to = Module /\ MintsCoins(log.from, log.pair, log.amount)
        <4>1. /\ coinSupply'[q] = coinSupply[q] + (IF q = log.pair THEN log.amount ELSE 0)
              /\ tokens' = tokens /\ log.pair \notin ModuleOwned
          BY <3>6 DEF MintsCoins, Added, External
        <4>2. Claimed(q)' = (Claimed(q) + Contribution(log, q)) - 0 /\ tokens'[q][Module] = tokens[q][Module] - 0 /\ 0 \in Int
          BY <1>0, <2>2, <2>c, <3>0, <3>6, <4>1 DEF Claimed
        <4> QED
          BY <3>2, <4>2
      <3> QED
        BY <2>1, <3>3, <3>4, <3>5, <3>6 DEF HookEffect, BurnsTokens, ReleasesCoins
    <2>4. LogsSettled'
      <3> SUFFICES ASSUME NEW q \in Pairs
                   PROVE  Settled(logs', Claimed(q)' + Stranded(saved', q), tokens'[q][Module], q)
        BY DEF LogsSettled
      <3>1. Claimed(q)' \in Int
        BY <1>0 DEF TypeOK, Supplies, Claimed
      <3>2. Claimed(q)' + Stranded(saved', q) = Claimed(q)'
        BY <2>1, <2>z, <3>1
      <3> QED
        BY <2>1, <2>3, <3>2
    <2> QED
      BY <1>0, <1>a, <1>d, <2>1, <2>4 DEF StrandedInv
  <1>8. CASE OtherStep
    <2>1. UNCHANGED <<tokens, coinSupply, phase, logs, saved>>
      BY <1>8 DEF OtherStep, ledger, transaction
    <2>2. \A q \in Pairs : StrandedNow(q)' = StrandedNow(q)
      BY <2>1 DEF StrandedNow, Claimed
    <2> QED
      BY <1>0, <1>a, <1>d, <2>1, <2>2 DEF StrandedInv, LogsSettled, Claimed
  <1> QED
    BY <1>0, <1>1, <1>2, <1>3, <1>4, <1>5, <1>6, <1>7, <1>8, StepKinds

\* With contracts that transfer what they are told, tokens come to be with the
\* module account that nobody has a claim on only by an Ethereum transaction
\* that transfers them there where the application has set no hook, and what
\* there is of them is never released.
THEOREM OnlyUnhookedEverStrands == ExactTransfer = Pairs => (Spec => OnlyUnhookedStrands)
  <1> SUFFICES ASSUME ExactTransfer = Pairs
               PROVE  Spec => OnlyUnhookedStrands
    OBVIOUS
  <1>1. StrandedInv /\ [Next]_vars => StrandedInv'
    BY StrandedInvNext
  <1>2. StrandedInv /\ [Next]_vars =>
          [\A p \in Pairs :
             Stranded(Committed', p) # Stranded(Committed, p) =>
                 /\ phase = "evm"
                 /\ ~HooksSet
                 /\ Stranded(Committed', p) > Stranded(Committed, p)]_vars
    BY StrandedInvNext DEF StrandedStep
  <1> QED
    BY <1>1, <1>2, StrandedInvInit, PTL DEF Spec, OnlyUnhookedStrands
-----------------------------------------------------------------------------
(* Supplies are sums of balances.                                          *)

\* The supplies as sums of the terms of SumTheorems.
LEMMA SumOfIsSum ==
    ASSUME NEW b, NEW q
    PROVE  SumOf(b, q) = Sum(b[q], Accounts)
  BY DEF SumOf, Sum

\* There are finitely many accounts.
LEMMA FiniteAccounts == IsFiniteSet(Accounts) /\ Accounts \ {Module} = Users
  BY ConversionAssumption, FS_AddElement DEF Accounts

\* What a movement does to the sum over a set of accounts.
SumMoved(b, b2, p, a, n, c, m, q, S) ==
    /\ Sum(b[q], S) \in Nat /\ Sum(b2[q], S) \in Nat
    /\ Sum(b2[q], S) = Sum(b[q], S) - (IF q = p /\ a \in S THEN n ELSE 0)
                                    + (IF q = p /\ c \in S THEN m ELSE 0)

\* It changes by what leaves the accounts and what enters them.
LEMMA MovedSum ==
    ASSUME NEW S, IsFiniteSet(S), S \subseteq Accounts,
           NEW b \in Balances, NEW b2, NEW p \in Pairs, NEW a \in Accounts, NEW n \in Nat,
           NEW c \in Accounts, NEW m \in Nat, Moved(b, b2, p, a, n, c, m), b[p][a] >= n,
           NEW q \in Pairs
    PROVE  SumMoved(b, b2, p, a, n, c, m, q, S)
  <1>0. \A d \in S : b[q][d] \in Nat
    BY DEF Balances
  <1>1. CASE q = p
    <2> DEFINE f == b[p]
               g == b2[p]
    <2>1. Moves(f, g, a, n, c, m, S)
      BY <1>0, <1>1 DEF Moved, Moves
    <2> HIDE DEF f, g
    <2>2. /\ Sum(f, S) \in Nat /\ Sum(g, S) \in Nat
          /\ Sum(g, S) = Sum(f, S) - (IF a \in S THEN n ELSE 0) + (IF c \in S THEN m ELSE 0)
      BY <2>1, SumMove, Zenon
    <2> QED
      BY <1>1, <2>2 DEF f, g, SumMoved
  <1>2. CASE q # p
    <2> DEFINE f == b[q]
               g == b2[q]
    <2>1. \A x \in S : f[x] \in Nat /\ g[x] = f[x]
      BY <1>0, <1>2 DEF Moved
    <2> HIDE DEF f, g
    <2>2. Sum(g, S) = Sum(f, S) /\ Sum(f, S) \in Nat
      BY <2>1, SumAgree, SumNat
    <2> QED
      BY <1>2, <2>2 DEF f, g, SumMoved
  <1> QED
    BY <1>1, <1>2

\* Hence of all balances.
TotalMoved(b, b2, p, n, m, q) ==
    /\ SumOf(b, q) \in Nat
    /\ q = p => SumOf(b2, q) = SumOf(b, q) + (m - n)
    /\ q # p => SumOf(b2, q) = SumOf(b, q)

\* All accounts have together m more and n less.
LEMMA MovedTotal ==
    ASSUME NEW b \in Balances, NEW b2, NEW p \in Pairs, NEW a \in Accounts, NEW n \in Nat,
           NEW c \in Accounts, NEW m \in Nat, Moved(b, b2, p, a, n, c, m), b[p][a] >= n,
           NEW q \in Pairs
    PROVE  TotalMoved(b, b2, p, n, m, q)
  <1>1. IsFiniteSet(Accounts) /\ Accounts \subseteq Accounts
    BY FiniteAccounts
  <1>2. SumMoved(b, b2, p, a, n, c, m, q, Accounts)
    BY <1>1, MovedSum, Zenon
  <1> QED
    BY <1>2, SumOfIsSum DEF TotalMoved, SumMoved

\* The sums of the coins and of the tokens, and of the ledger that a
\* transaction goes back to.
CoinSums == \A p \in Pairs : coinSupply[p] = SumOf(coins, p)
TokenSums == \A p \in ExactTransfer : tokenSupply[p] = SumOf(tokens, p)
SavedSums ==
    phase # "idle" =>
        /\ \A p \in Pairs : saved.coinSupply[p] = SumOf(saved.coins, p)
        /\ \A p \in ExactTransfer : saved.tokenSupply[p] = SumOf(saved.tokens, p)

SupplyInv == TypeOK /\ CoinSums /\ TokenSums /\ SavedSums

\* What an effect on the coins, and one on the tokens, must do to their supply.
LEMMA CoinSumsKept ==
    ASSUME TypeOK, CoinSums, NEW p \in Pairs, NEW a \in Accounts, NEW n \in Nat,
           NEW c \in Accounts, NEW m \in Nat, Moved(coins, coins', p, a, n, c, m), coins[p][a] >= n,
           \A q \in Pairs : coinSupply'[q] = coinSupply[q] + (IF q = p THEN m - n ELSE 0)
    PROVE  CoinSums'
  <1> SUFFICES ASSUME NEW q \in Pairs
               PROVE  coinSupply'[q] = SumOf(coins', q)
    BY DEF CoinSums
  <1>1. coins \in Balances
    BY TypeFacts
  <1>2. coinSupply[q] = SumOf(coins, q)
    BY DEF CoinSums
  <1>3. TotalMoved(coins, coins', p, n, m, q)
    BY <1>1, MovedTotal, Zenon
  <1> QED
    BY <1>1, <1>2, <1>3 DEF TotalMoved

\* A contract that is not exact need not keep its supply.
LEMMA TokenSumsKept ==
    ASSUME TypeOK, TokenSums, NEW p \in Pairs, NEW a \in Accounts, NEW n \in Nat,
           NEW c \in Accounts, NEW m \in Nat, Moved(tokens, tokens', p, a, n, c, m), tokens[p][a] >= n,
           \A q \in ExactTransfer : tokenSupply'[q] = tokenSupply[q] + (IF q = p THEN m - n ELSE 0)
    PROVE  TokenSums'
  <1> SUFFICES ASSUME NEW q \in ExactTransfer
               PROVE  tokenSupply'[q] = SumOf(tokens', q)
    BY DEF TokenSums
  <1>1. tokens \in Balances /\ q \in Pairs
    BY TypeFacts, ConversionAssumption
  <1>2. tokenSupply[q] = SumOf(tokens, q)
    BY DEF TokenSums
  <1>3. TotalMoved(tokens, tokens', p, n, m, q)
    BY <1>1, MovedTotal, Zenon
  <1> QED
    BY <1>1, <1>2, <1>3 DEF TotalMoved

\* Every effect keeps both.
LEMMA EffectKeepsSums ==
    ASSUME TypeOK, CoinSums, TokenSums,
           NEW s \in Accounts, NEW r \in Accounts, NEW p \in Pairs, NEW n \in Nat
    PROVE  /\ Converts(s, r, p, n) => CoinSums' /\ TokenSums'
           /\ SendsCoins(s, r, p, n) => CoinSums' /\ TokenSums'
           /\ BurnsTokens(s, p, n) => CoinSums' /\ TokenSums'
           /\ MintsCoins(r, p, n) => CoinSums' /\ TokenSums'
           /\ \A m \in Nat : TransfersTokens(s, r, p, n, m) => CoinSums' /\ TokenSums'
  <1>0. /\ Module \in Accounts /\ 0 \in Nat
        /\ \A q \in Pairs : coinSupply[q] \in Int /\ tokenSupply[q] \in Int
        /\ \A q \in Pairs, d \in Accounts : coins[q][d] \in Nat /\ tokens[q][d] \in Nat
        /\ ExactTransfer \subseteq Pairs
        /\ \A d \in Accounts : coins[p][d] >= 0 /\ tokens[p][d] >= 0
    <2>1. \A q \in Pairs, d \in Accounts : coins[q][d] \in Nat /\ tokens[q][d] \in Nat
      BY TypeFacts
    <2>2. \A d \in Accounts : coins[p][d] >= 0 /\ tokens[p][d] >= 0
      BY <2>1
    <2> QED
      BY <2>1, <2>2, TypeFacts, ConversionAssumption
  <1>a. UNCHANGED <<coins, coinSupply>> => CoinSums'
    BY DEF CoinSums
  <1>b. UNCHANGED <<tokens, tokenSupply>> => TokenSums'
    BY DEF TokenSums
  <1>1. ASSUME EscrowsCoins(s, r, p, n)
        PROVE  CoinSums' /\ TokenSums'
    <2>1. /\ Moved(coins, coins', p, s, n, Module, n) /\ coins[p][s] >= n
          /\ Moved(tokens, tokens', p, r, 0, r, n)
          /\ coinSupply' = coinSupply /\ Added(tokenSupply, tokenSupply', p, n)
      BY <1>1 DEF EscrowsCoins
    <2>2. \A q \in Pairs : coinSupply'[q] = coinSupply[q] + (IF q = p THEN n - n ELSE 0)
      BY <1>0, <2>1
    <2>3. \A q \in ExactTransfer : tokenSupply'[q] = tokenSupply[q] + (IF q = p THEN n - 0 ELSE 0)
      BY <1>0, <2>1 DEF Added
    <2>4. CoinSums'
      BY <1>0, <2>1, <2>2, CoinSumsKept
    <2>5. TokenSums'
      BY <1>0, <2>1, <2>3, TokenSumsKept
    <2> QED
      BY <2>4, <2>5
  <1>2. ASSUME NEW m \in Nat, BurnsCoins(s, r, p, n, m)
        PROVE  CoinSums' /\ TokenSums'
    <2>1. /\ Moved(coins, coins', p, s, n, s, 0) /\ coins[p][s] >= n
          /\ Moved(tokens, tokens', p, Module, n, r, m) /\ tokens[p][Module] >= n
          /\ Added(coinSupply, coinSupply', p, 0 - n) /\ tokenSupply' = tokenSupply
          /\ p \in ExactTransfer => m = n
      BY <1>2 DEF BurnsCoins, Arrives
    <2>2. \A q \in Pairs : coinSupply'[q] = coinSupply[q] + (IF q = p THEN 0 - n ELSE 0)
      BY <2>1 DEF Added
    <2>3. \A q \in ExactTransfer : tokenSupply'[q] = tokenSupply[q] + (IF q = p THEN m - n ELSE 0)
      BY <1>0, <2>1
    <2>4. CoinSums'
      BY <1>0, <2>1, <2>2, CoinSumsKept
    <2>5. TokenSums'
      BY <1>0, <2>1, <2>3, TokenSumsKept
    <2> QED
      BY <2>4, <2>5
  <1>3. ASSUME ReleasesCoins(s, r, p, n)
        PROVE  CoinSums' /\ TokenSums'
    <2>1. /\ Moved(coins, coins', p, Module, n, r, n) /\ coins[p][Module] >= n
          /\ Moved(tokens, tokens', p, s, n, s, 0) /\ tokens[p][s] >= n
          /\ coinSupply' = coinSupply /\ Added(tokenSupply, tokenSupply', p, 0 - n)
      BY <1>3 DEF ReleasesCoins
    <2>2. \A q \in Pairs : coinSupply'[q] = coinSupply[q] + (IF q = p THEN n - n ELSE 0)
      BY <1>0, <2>1
    <2>3. \A q \in ExactTransfer : tokenSupply'[q] = tokenSupply[q] + (IF q = p THEN 0 - n ELSE 0)
      BY <1>0, <2>1 DEF Added
    <2>4. CoinSums'
      BY <1>0, <2>1, <2>2, CoinSumsKept
    <2>5. TokenSums'
      BY <1>0, <2>1, <2>3, TokenSumsKept
    <2> QED
      BY <2>4, <2>5
  <1>4. ASSUME NEW m \in Nat, EscrowsTokens(s, r, p, n, m)
        PROVE  CoinSums' /\ TokenSums'
    <2>1. /\ Moved(coins, coins', p, r, 0, r, n)
          /\ Moved(tokens, tokens', p, s, n, Module, m) /\ tokens[p][s] >= n
          /\ Added(coinSupply, coinSupply', p, n) /\ tokenSupply' = tokenSupply
          /\ p \in ExactTransfer => m = n
      BY <1>4 DEF EscrowsTokens, Arrives
    <2>2. \A q \in Pairs : coinSupply'[q] = coinSupply[q] + (IF q = p THEN n - 0 ELSE 0)
      BY <2>1 DEF Added
    <2>3. \A q \in ExactTransfer : tokenSupply'[q] = tokenSupply[q] + (IF q = p THEN m - n ELSE 0)
      BY <1>0, <2>1
    <2>4. CoinSums'
      BY <1>0, <2>1, <2>2, CoinSumsKept
    <2>5. TokenSums'
      BY <1>0, <2>1, <2>3, TokenSumsKept
    <2> QED
      BY <2>4, <2>5
  <1>5. ASSUME SendsCoins(s, r, p, n)
        PROVE  CoinSums' /\ TokenSums'
    <2>1. /\ Moved(coins, coins', p, s, n, r, n) /\ coins[p][s] >= n
          /\ UNCHANGED <<tokens, coinSupply, tokenSupply>>
      BY <1>5 DEF SendsCoins
    <2>2. \A q \in Pairs : coinSupply'[q] = coinSupply[q] + (IF q = p THEN n - n ELSE 0)
      BY <1>0, <2>1
    <2>3. CoinSums'
      BY <1>0, <2>1, <2>2, CoinSumsKept
    <2> QED
      BY <1>b, <2>1, <2>3
  <1>6. ASSUME BurnsTokens(s, p, n)
        PROVE  CoinSums' /\ TokenSums'
    <2>1. /\ Moved(tokens, tokens', p, s, n, s, 0) /\ tokens[p][s] >= n
          /\ UNCHANGED <<coins, coinSupply>> /\ Added(tokenSupply, tokenSupply', p, 0 - n)
      BY <1>6 DEF BurnsTokens
    <2>2. \A q \in ExactTransfer : tokenSupply'[q] = tokenSupply[q] + (IF q = p THEN 0 - n ELSE 0)
      BY <1>0, <2>1 DEF Added
    <2>3. TokenSums'
      BY <1>0, <2>1, <2>2, TokenSumsKept
    <2> QED
      BY <1>a, <2>1, <2>3
  <1>7. ASSUME MintsCoins(r, p, n)
        PROVE  CoinSums' /\ TokenSums'
    <2>1. /\ Moved(coins, coins', p, r, 0, r, n)
          /\ UNCHANGED <<tokens, tokenSupply>> /\ Added(coinSupply, coinSupply', p, n)
      BY <1>7 DEF MintsCoins
    <2>2. \A q \in Pairs : coinSupply'[q] = coinSupply[q] + (IF q = p THEN n - 0 ELSE 0)
      BY <2>1 DEF Added
    <2>3. CoinSums'
      BY <1>0, <2>1, <2>2, CoinSumsKept
    <2> QED
      BY <1>b, <2>1, <2>3
  <1>8. ASSUME NEW m \in Nat, TransfersTokens(s, r, p, n, m)
        PROVE  CoinSums' /\ TokenSums'
    <2>1. /\ Moved(tokens, tokens', p, s, n, r, m) /\ tokens[p][s] >= n
          /\ UNCHANGED <<coins, coinSupply, tokenSupply>>
          /\ p \in ExactTransfer => m = n
      BY <1>8 DEF TransfersTokens, Arrives
    <2>2. \A q \in ExactTransfer : tokenSupply'[q] = tokenSupply[q] + (IF q = p THEN m - n ELSE 0)
      BY <1>0, <2>1
    <2>3. TokenSums'
      BY <1>0, <2>1, <2>2, TokenSumsKept
    <2> QED
      BY <1>a, <2>1, <2>3
  <1> QED
    BY <1>1, <1>2, <1>3, <1>4, <1>5, <1>6, <1>7, <1>8 DEF Converts

\* The initial supplies are those of the users, the module having nothing.
LEMMA SupplyInvInit == Init => SupplyInv
  <1> SUFFICES ASSUME Init
               PROVE  SupplyInv
    OBVIOUS
  <1>0. TypeOK /\ phase = "idle"
    BY TypeInit DEF Init
  <1>1. ASSUME NEW b, NEW q \in Pairs, \A a \in Accounts : b[q][a] = 0
        PROVE  SumOf(b, q) = 0
    <2> DEFINE f == b[q]
    <2>1. \A a \in Accounts : f[a] = 0
      BY <1>1
    <2> HIDE DEF f
    <2>2. Sum(f, Accounts) = 0
      BY <2>1, FiniteAccounts, SumZero
    <2> QED
      BY <2>2, SumOfIsSum DEF f
  <1>2. ASSUME NEW b, NEW q \in Pairs,
               \A a \in Accounts : b[q][a] = IF a \in Users THEN InitialBalance[q][a] ELSE 0
        PROVE  SumOf(b, q) = InitialSupply[q]
    <2> DEFINE f == b[q]
               g == InitialBalance[q]
    <2>1. \A u \in Users : g[u] \in Nat
      BY ConversionAssumption
    <2>2. Module \in Accounts /\ Module \notin Users /\ Accounts \ {Module} = Users /\ Users \subseteq Accounts
      BY ConversionAssumption, FiniteAccounts DEF Accounts
    <2>3. f[Module] = 0 /\ \A u \in Users : f[u] = g[u]
      BY <1>2, <2>2
    <2>4. \A a \in Accounts : f[a] \in Nat
      BY <1>2, <2>1, <2>2
    <2>5. InitialSupply[q] = Sum(g, Users)
      BY SupplyAssumption DEF Sum
    <2> HIDE DEF f, g
    <2>6. Sum(f, Accounts) = f[Module] + Sum(f, Accounts \ {Module})
      BY <2>2, <2>4, FiniteAccounts, SumSplit
    <2>7. Sum(f, Users) = Sum(g, Users) /\ Sum(g, Users) \in Nat
      BY <2>1, <2>3, ConversionAssumption, SumAgree, SumNat
    <2>8. Sum(f, Accounts) = 0 + Sum(g, Users)
      BY <2>2, <2>3, <2>6, <2>7, Zenon
    <2> QED
      BY <2>5, <2>7, <2>8, SumOfIsSum DEF f
  <1>3. ASSUME NEW q \in Pairs
        PROVE  coinSupply[q] = SumOf(coins, q) /\ tokenSupply[q] = SumOf(tokens, q)
    <2>1. CASE q \in ModuleOwned
      <3>1. /\ \A a \in Accounts : coins[q][a] = IF a \in Users THEN InitialBalance[q][a] ELSE 0
            /\ \A a \in Accounts : tokens[q][a] = 0
            /\ coinSupply[q] = InitialSupply[q] /\ tokenSupply[q] = 0
        BY <2>1 DEF Init, External
      <3>2. SumOf(coins, q) = InitialSupply[q]
        BY <1>2, <3>1
      <3>3. SumOf(tokens, q) = 0
        BY <1>1, <3>1
      <3> QED
        BY <3>1, <3>2, <3>3
    <2>2. CASE q \notin ModuleOwned
      <3>1. /\ \A a \in Accounts : tokens[q][a] = IF a \in Users THEN InitialBalance[q][a] ELSE 0
            /\ \A a \in Accounts : coins[q][a] = 0
            /\ tokenSupply[q] = InitialSupply[q] /\ coinSupply[q] = 0
        BY <2>2 DEF Init, External
      <3>2. SumOf(tokens, q) = InitialSupply[q]
        BY <1>2, <3>1
      <3>3. SumOf(coins, q) = 0
        BY <1>1, <3>1
      <3> QED
        BY <3>1, <3>2, <3>3
    <2> QED
      BY <2>1, <2>2
  <1> QED
    BY <1>0, <1>3, ConversionAssumption DEF SupplyInv, CoinSums, TokenSums, SavedSums

\* Whatever is minted or burned is added to or taken from a balance as well.
LEMMA SupplyInvNext ==
    ASSUME SupplyInv, [Next]_vars
    PROVE  SupplyInv'
  <1>0. /\ TypeOK /\ TypeOK' /\ CoinSums /\ TokenSums
        /\ Module \in Accounts
        /\ \A u \in Users : u \in Accounts
        /\ \A n \in Amounts : n \in Nat
    <2>1. TypeOK /\ TypeOK'
      BY TypeNext DEF SupplyInv
    <2> QED
      BY <2>1, TypeFacts DEF SupplyInv
  <1>1. CASE MessageStep
    <2>1. CoinSums' /\ TokenSums'
      BY <1>0, <1>1, EffectKeepsSums DEF MessageStep
    <2> QED
      BY <1>0, <1>1, <2>1 DEF MessageStep, transaction, SupplyInv, SavedSums
  <1>2. CASE BeginEthereumTx
    <2>1. CoinSums' /\ TokenSums'
      BY <1>0, <1>2 DEF BeginEthereumTx, ledger, CoinSums, TokenSums
    <2>2. SavedSums'
      BY <1>0, <1>2 DEF BeginEthereumTx, CoinSums, TokenSums, SavedSums
    <2> QED
      BY <1>0, <2>1, <2>2 DEF SupplyInv
  <1>3. CASE TransferStep
    <2>1. CoinSums' /\ TokenSums'
      BY <1>0, <1>3, EffectKeepsSums DEF TransferStep
    <2> QED
      BY <1>0, <1>3, <2>1 DEF TransferStep, SupplyInv, SavedSums
  <1>4. CASE RevertStep
    <2>1. CoinSums' /\ TokenSums' /\ SavedSums'
      BY <1>4 DEF RevertStep, Revert, SupplyInv, CoinSums, TokenSums, SavedSums
    <2> QED
      BY <1>0, <2>1 DEF SupplyInv
  <1>5. CASE CommitStep
    <2>1. CoinSums' /\ TokenSums' /\ SavedSums'
      BY <1>0, <1>5 DEF CommitStep, Commit, ledger, CoinSums, TokenSums, SavedSums
    <2> QED
      BY <1>0, <2>1 DEF SupplyInv
  <1>6. CASE HookCallStep
    <2>1. CoinSums' /\ TokenSums' /\ SavedSums'
      BY <1>0, <1>6 DEF HookCallStep, ledger, SupplyInv, CoinSums, TokenSums, SavedSums
    <2> QED
      BY <1>0, <2>1 DEF SupplyInv
  <1>7. CASE HookLogStep
    <2> DEFINE log == Head(logs)
    <2>1. phase' = phase /\ saved' = saved /\ HookEffect(log)
      BY <1>7 DEF HookLogStep, NextLog
    <2>2. log.pair \in Pairs /\ log.from \in Accounts /\ log.amount \in Nat
      BY <1>0, <1>7, HeadOfLogs DEF HookLogStep
    <2> HIDE DEF log
    <2>3. UNCHANGED ledger => CoinSums' /\ TokenSums'
      BY <1>0 DEF ledger, CoinSums, TokenSums
    <2>4. CoinSums' /\ TokenSums'
      BY <1>0, <2>1, <2>2, <2>3, EffectKeepsSums DEF HookEffect, Converts
    <2> QED
      BY <1>0, <2>1, <2>4 DEF SupplyInv, SavedSums
  <1>8. CASE OtherStep
    <2>1. CoinSums' /\ TokenSums' /\ SavedSums'
      BY <1>0, <1>8 DEF OtherStep, ledger, transaction, SupplyInv, CoinSums, TokenSums, SavedSums
    <2> QED
      BY <1>0, <2>1 DEF SupplyInv
  <1> QED
    BY <1>0, <1>1, <1>2, <1>3, <1>4, <1>5, <1>6, <1>7, <1>8, StepKinds

\* The supplies of the bank, and those of exact contracts, are the sums of the
\* balances for any number of accounts, also in the middle of a transaction.
THEOREM SupplyAlwaysSum == Spec => []SupplyIsSum
  <1>1. SupplyInv /\ [Next]_vars => SupplyInv'
    BY SupplyInvNext
  <1>2. SupplyInv => SupplyIsSum
    BY DEF SupplyInv, CoinSums, TokenSums, SupplyIsSum
  <1> QED
    BY <1>1, <1>2, SupplyInvInit, PTL DEF Spec

\* What the module account holds of an exact contract's tokens is part of the
\* supply.
LEMMA HeldWithinSupply ==
    ASSUME TypeOK, TokenSums, NEW p \in ExactTransfer
    PROVE  tokens[p][Module] <= tokenSupply[p]
  <1> DEFINE f == tokens[p]
  <1>1. /\ p \in Pairs /\ Module \in Accounts /\ tokens \in Balances
        /\ IsFiniteSet(Accounts)
    BY TypeFacts, FiniteAccounts, ConversionAssumption
  <1>2. \A a \in Accounts : f[a] \in Nat
    BY <1>1 DEF Balances
  <1>3. tokenSupply[p] = Sum(f, Accounts)
    BY SumOfIsSum DEF TokenSums
  <1> HIDE DEF f
  <1>4. /\ Sum(f, Accounts) = f[Module] + Sum(f, Accounts \ {Module})
        /\ Sum(f, Accounts \ {Module}) \in Nat
    <2>1. IsFiniteSet(Accounts \ {Module}) /\ \A a \in Accounts \ {Module} : f[a] \in Nat
      BY <1>1, <1>2, FS_RemoveElement
    <2>2. Sum(f, Accounts \ {Module}) \in Nat
      BY <2>1, SumNat
    <2> QED
      BY <1>1, <1>2, <2>2, SumSplit
  <1>5. f[Module] <= tokenSupply[p]
    BY <1>1, <1>2, <1>3, <1>4
  <1> QED
    BY <1>5 DEF f

\* In a transaction of any length the hook finds what the log at hand brought,
\* the tokens to burn and the coins to release, whatever the logs before it took:
\* neither fails, so no half of a conversion is committed.
THEOREM HookAlwaysFindsTransfer == ExactTransfer = Pairs => (Spec => []HookFindsTransfer)
  <1> SUFFICES ASSUME ExactTransfer = Pairs
               PROVE  Spec => []HookFindsTransfer
    OBVIOUS
  <1> DEFINE FindInv == StrandedInv /\ CoinInv /\ SupplyInv
  <1>1. Init => FindInv
    BY StrandedInvInit, CoinInvInit, SupplyInvInit
  <1>2. FindInv /\ [Next]_vars => FindInv'
    BY StrandedInvNext, CoinInvNext, SupplyInvNext
  <1>3. FindInv => HookFindsTransfer
    <2> SUFFICES ASSUME FindInv, phase = "hook", logs # << >>,
                        Head(logs).pair \in ModuleOwned, Head(logs).to = Module
                 PROVE  /\ tokens[Head(logs).pair][Module] >= Head(logs).amount
                        /\ coins[Head(logs).pair][Module] >= Head(logs).amount
      BY DEF HookFindsTransfer
    <2> DEFINE log == Head(logs)
               p == log.pair
    <2>1. TypeOK /\ TokenSums /\ CoinsBackTokens /\ logs \in Seq(Log)
      BY DEF StrandedInv, CoinInv, SupplyInv, TypeOK
    <2>2. p \in Pairs /\ log.amount \in Nat
      BY <2>1, HeadOfLogs
    <2> HIDE DEF FindInv
    <2>3. Stranded(saved, p) = 0 /\ Settled(logs, Claimed(p) + Stranded(saved, p), tokens[p][Module], p)
      BY <2>2, CommittedStranded DEF FindInv, StrandedInv, LogsSettled
    <2>4. tokens[p][Module] \in Nat /\ coins[p][Module] \in Nat /\ tokenSupply[p] \in Int
      BY <2>1, <2>2, TypeFacts
    <2>5. Claimed(p) + Stranded(saved, p) = 0 /\ Contribution(log, p) = log.amount
      BY <2>3 DEF Claimed, Contribution
    <2>6. Settled(logs, 0, tokens[p][Module], p)
      BY <2>3, <2>5
    <2>7. 0 + Contribution(log, p) <= tokens[p][Module]
      BY <2>1, <2>2, <2>4, <2>6, SettledTail
    <2>8. tokens[p][Module] <= tokenSupply[p]
      BY <2>1, <2>2, HeldWithinSupply
    <2>9. tokenSupply[p] <= coins[p][Module]
      BY <2>1 DEF CoinsBackTokens
    <2> HIDE DEF p, log
    <2>10. tokens[p][Module] >= log.amount /\ coins[p][Module] >= log.amount
      BY <2>2, <2>4, <2>5, <2>7, <2>8, <2>9
    <2> QED
      BY <2>10 DEF p, log
  <1> HIDE DEF FindInv
  <1> QED
    BY <1>1, <1>2, <1>3, PTL DEF Spec
-----------------------------------------------------------------------------
(* No step makes the users richer.                                         *)

\* What is covered is covered after both sides are less by c.
LEMMA CoveredLess ==
    ASSUME NEW ls \in Seq(Log), NEW supply \in Int, NEW held \in Int, NEW p \in Pairs,
           Covered(ls, supply, held, p),
           NEW c \in Int, NEW supply2 \in Int, supply2 <= supply - c
    PROVE  Covered(ls, supply2, held - c, p)
  <1>1. PICK total \in [1..(Len(ls) + 1) -> Int] :
          /\ supply <= total[1]
          /\ total[Len(ls) + 1] <= held
          /\ \A i, j \in 1..(Len(ls) + 1) : i <= j => total[i] <= total[j]
          /\ \A i \in 1..Len(ls) : total[i] + Contribution(ls[i], p) <= total[i + 1]
    BY DEF Covered
  <1>2. Len(ls) \in Nat
    OBVIOUS
  <1>3. \A i \in 1..Len(ls) : Contribution(ls[i], p) \in Nat
    BY ContributionNat
  <1>4. \A i \in 1..(Len(ls) + 1) : total[i] \in Int
    BY <1>1
  <1> DEFINE less == [i \in 1..(Len(ls) + 1) |-> total[i] - c]
  <1>5. less \in [1..(Len(ls) + 1) -> Int] /\ \A i \in 1..(Len(ls) + 1) : less[i] = total[i] - c
    BY <1>4
  <1> HIDE DEF less
  <1>6. supply2 <= less[1] /\ less[Len(ls) + 1] <= held - c
    <2>1. 1 \in 1..(Len(ls) + 1) /\ Len(ls) + 1 \in 1..(Len(ls) + 1)
      BY <1>2
    <2>2. /\ less[1] = total[1] - c /\ less[Len(ls) + 1] = total[Len(ls) + 1] - c
          /\ total[1] \in Int /\ total[Len(ls) + 1] \in Int
      BY <1>4, <1>5, <2>1
    <2> QED
      BY <1>1, <2>2
  <1>7. \A i, j \in 1..(Len(ls) + 1) : i <= j => less[i] <= less[j]
    BY <1>1, <1>4, <1>5
  <1>8. \A i \in 1..Len(ls) : less[i] + Contribution(ls[i], p) <= less[i + 1]
    <2> SUFFICES ASSUME NEW i \in 1..Len(ls)
                 PROVE  less[i] + Contribution(ls[i], p) <= less[i + 1]
      OBVIOUS
    <2>1. i \in 1..(Len(ls) + 1) /\ i + 1 \in 1..(Len(ls) + 1)
      BY <1>2
    <2>2. /\ less[i] = total[i] - c /\ less[i + 1] = total[i + 1] - c
          /\ total[i] \in Int /\ total[i + 1] \in Int
      BY <1>4, <1>5, <2>1
    <2>3. total[i] + Contribution(ls[i], p) <= total[i + 1] /\ Contribution(ls[i], p) \in Nat
      BY <1>1, <1>3
    <2> QED
      BY <2>2, <2>3
  <1> QED
    BY <1>5, <1>6, <1>7, <1>8 DEF Covered

\* What the users have of pair q, and had when the transaction started.
Held(b, q) == Sum(b[q], Users)
WealthNow(q) == Held(coins, q) + Held(tokens, q)
SavedWealth(q) == Held(saved.coins, q) + Held(saved.tokens, q)

\* In a transaction the users have less than at its start, by no less than the
\* coins that the hook has yet to release or mint for them.
WealthInv ==
    TypeOK /\ (phase # "idle" => \A q \in Pairs : Covered(logs, WealthNow(q), SavedWealth(q), q))

\* The users of a ledger have a natural number.
LEMMA HeldNat ==
    ASSUME NEW b \in Balances, NEW q \in Pairs
    PROVE  Held(b, q) \in Nat
  <1> DEFINE f == b[q]
  <1>1. \A u \in Users : f[u] \in Nat
    BY DEF Balances, Accounts
  <1> HIDE DEF f
  <1>2. Sum(f, Users) \in Nat
    BY <1>1, SumNat, ConversionAssumption
  <1> QED
    BY <1>2 DEF f, Held

\* What a movement does to what the users have.
HeldMoved(b, b2, p, a, n, c, m, q) ==
    /\ Held(b, q) \in Nat /\ Held(b2, q) \in Nat
    /\ Held(b2, q) = Held(b, q) - (IF q = p /\ a \in Users THEN n ELSE 0)
                                + (IF q = p /\ c \in Users THEN m ELSE 0)

\* Users gain and lose by movements to and from their accounts only.
LEMMA MovedHeld ==
    ASSUME NEW b \in Balances, NEW b2, NEW p \in Pairs, NEW a \in Accounts, NEW n \in Nat,
           NEW c \in Accounts, NEW m \in Nat, Moved(b, b2, p, a, n, c, m), b[p][a] >= n,
           NEW q \in Pairs
    PROVE  HeldMoved(b, b2, p, a, n, c, m, q)
  <1>1. IsFiniteSet(Users) /\ Users \subseteq Accounts
    BY ConversionAssumption DEF Accounts
  <1>2. SumMoved(b, b2, p, a, n, c, m, q, Users)
    BY <1>1, MovedSum, Zenon
  <1> QED
    BY <1>2 DEF HeldMoved, Held, SumMoved

\* The types of the sums.
LEMMA WealthFacts ==
    ASSUME TypeOK, NEW q \in Pairs
    PROVE  /\ WealthNow(q) \in Int
           /\ phase # "idle" => SavedWealth(q) \in Int
           /\ Held(coins, q) \in Nat /\ Held(tokens, q) \in Nat
  <1>1. Held(coins, q) \in Nat /\ Held(tokens, q) \in Nat
    BY TypeFacts, HeldNat
  <1>2. phase # "idle" => Held(saved.coins, q) \in Nat /\ Held(saved.tokens, q) \in Nat
    BY HeldNat DEF TypeOK, Ledger
  <1> QED
    BY <1>1, <1>2 DEF WealthNow, SavedWealth

\* A message gives the users no more than it takes from them.
LEMMA MessageWealth ==
    ASSUME TypeOK, NEW s \in Users, NEW r \in Users, NEW p \in Pairs, NEW n \in Nat,
           Converts(s, r, p, n) \/ SendsCoins(s, r, p, n),
           NEW q \in Pairs
    PROVE  WealthNow(q)' <= WealthNow(q)
  <1>0. /\ Module \in Accounts /\ s \in Accounts /\ r \in Accounts /\ Module \notin Users
        /\ coins \in Balances /\ tokens \in Balances /\ 0 \in Nat
        /\ Held(coins, q) \in Nat /\ Held(tokens, q) \in Nat
    BY TypeFacts, WealthFacts
  <1>a. \A d \in Accounts : coins[p][d] >= 0 /\ tokens[p][d] >= 0
    <2>1. \A d \in Accounts : coins[p][d] \in Nat /\ tokens[p][d] \in Nat
      BY TypeFacts
    <2> QED
      BY <2>1
  <1>1. ASSUME EscrowsCoins(s, r, p, n)
        PROVE  WealthNow(q)' <= WealthNow(q)
    <2>1. HeldMoved(coins, coins', p, s, n, Module, n, q)
      BY <1>0, <1>1, MovedHeld, Zenon DEF EscrowsCoins
    <2>2. HeldMoved(tokens, tokens', p, r, 0, r, n, q)
      BY <1>0, <1>a, <1>1, MovedHeld, Zenon DEF EscrowsCoins
    <2> QED
      BY <1>0, <2>1, <2>2 DEF HeldMoved, WealthNow
  <1>2. ASSUME NEW m \in Nat, BurnsCoins(s, r, p, n, m)
        PROVE  WealthNow(q)' <= WealthNow(q)
    <2>1. HeldMoved(coins, coins', p, s, n, s, 0, q)
      BY <1>0, <1>2, MovedHeld, Zenon DEF BurnsCoins
    <2>2. HeldMoved(tokens, tokens', p, Module, n, r, m, q)
      BY <1>0, <1>2, MovedHeld, Zenon DEF BurnsCoins
    <2>3. m <= n
      BY <1>2 DEF BurnsCoins, Arrives
    <2> QED
      BY <1>0, <2>1, <2>2, <2>3 DEF HeldMoved, WealthNow
  <1>3. ASSUME ReleasesCoins(s, r, p, n)
        PROVE  WealthNow(q)' <= WealthNow(q)
    <2>1. HeldMoved(coins, coins', p, Module, n, r, n, q)
      BY <1>0, <1>3, MovedHeld, Zenon DEF ReleasesCoins
    <2>2. HeldMoved(tokens, tokens', p, s, n, s, 0, q)
      BY <1>0, <1>3, MovedHeld, Zenon DEF ReleasesCoins
    <2> QED
      BY <1>0, <2>1, <2>2 DEF HeldMoved, WealthNow
  <1>4. ASSUME NEW m \in Nat, EscrowsTokens(s, r, p, n, m)
        PROVE  WealthNow(q)' <= WealthNow(q)
    <2>1. HeldMoved(coins, coins', p, r, 0, r, n, q)
      BY <1>0, <1>a, <1>4, MovedHeld, Zenon DEF EscrowsTokens
    <2>2. HeldMoved(tokens, tokens', p, s, n, Module, m, q)
      BY <1>0, <1>4, MovedHeld, Zenon DEF EscrowsTokens
    <2> QED
      BY <1>0, <2>1, <2>2 DEF HeldMoved, WealthNow
  <1>5. ASSUME SendsCoins(s, r, p, n)
        PROVE  WealthNow(q)' <= WealthNow(q)
    <2>1. HeldMoved(coins, coins', p, s, n, r, n, q)
      BY <1>0, <1>5, MovedHeld, Zenon DEF SendsCoins
    <2>2. tokens' = tokens
      BY <1>5 DEF SendsCoins
    <2> QED
      BY <1>0, <2>1, <2>2 DEF HeldMoved, WealthNow
  <1> QED
    BY <1>1, <1>2, <1>3, <1>4, <1>5 DEF Converts

\* A transfer in the EVM takes from the users what its log will claim for them.
LEMMA TransferWealth ==
    ASSUME TypeOK, TransferStep
    PROVE  \E log \in Log :
              /\ logs' = Append(logs, log)
              /\ \A q \in Pairs : WealthNow(q)' <= WealthNow(q) - Contribution(log, q)
  <1>0. /\ Module \in Accounts /\ Module # Zero /\ Module \notin Users
        /\ \A u \in Users : u \in Accounts
        /\ \A n \in Amounts : n \in Nat
        /\ tokens \in Balances /\ 0 \in Nat
        /\ \A q \in Pairs : Held(coins, q) \in Nat /\ Held(tokens, q) \in Nat
    BY TypeFacts, WealthFacts, ConversionAssumption
  <1>1. PICK s \in Users, r \in Accounts \cup {Zero}, p \in Pairs, n \in Amounts :
          /\ logs' = Append(logs, [pair |-> p, from |-> s, to |-> r, amount |-> n])
          /\ \/ r \in Accounts /\ \E m \in Nat : TransfersTokens(s, r, p, n, m)
             \/ r = Zero /\ BurnsTokens(s, p, n)
    BY DEF TransferStep
  <1> DEFINE log == [pair |-> p, from |-> s, to |-> r, amount |-> n]
  <1>2. log \in Log /\ logs' = Append(logs, log)
    BY <1>1 DEF Log
  <1>3. \A q \in Pairs : Contribution(log, q) = IF p = q /\ r = Module THEN n ELSE 0
    BY DEF Contribution
  <1> HIDE DEF log
  <1>4. s \in Accounts /\ n \in Nat
    BY <1>0
  <1>5. ASSUME NEW m \in Nat, TransfersTokens(s, r, p, n, m), r \in Accounts, NEW q \in Pairs
        PROVE  WealthNow(q)' <= WealthNow(q) - Contribution(log, q)
    <2>1. HeldMoved(tokens, tokens', p, s, n, r, m, q)
      BY <1>0, <1>4, <1>5, MovedHeld, Zenon DEF TransfersTokens
    <2>2. m <= n /\ coins' = coins
      BY <1>5 DEF TransfersTokens, Arrives
    <2>3. Held(tokens', q) <= Held(tokens, q) - Contribution(log, q)
      BY <1>0, <1>3, <1>4, <2>1, <2>2 DEF HeldMoved
    <2>4. Held(tokens', q) \in Nat /\ Contribution(log, q) \in Nat
      BY <1>3, <1>4, <2>1 DEF HeldMoved
    <2> QED
      BY <1>0, <2>2, <2>3, <2>4 DEF WealthNow
  <1>6. ASSUME BurnsTokens(s, p, n), r = Zero, NEW q \in Pairs
        PROVE  WealthNow(q)' <= WealthNow(q) - Contribution(log, q)
    <2>1. HeldMoved(tokens, tokens', p, s, n, s, 0, q)
      BY <1>0, <1>4, <1>6, MovedHeld, Zenon DEF BurnsTokens
    <2>2. coins' = coins /\ Contribution(log, q) = 0
      BY <1>0, <1>3, <1>6 DEF BurnsTokens
    <2> QED
      BY <1>0, <1>4, <2>1, <2>2 DEF HeldMoved, WealthNow
  <1> QED
    BY <1>1, <1>2, <1>5, <1>6

\* The hook gives the users no more than the log it goes through claims.
LEMMA HookWealth ==
    ASSUME TypeOK, HookLogStep, NEW q \in Pairs
    PROVE  WealthNow(q)' <= WealthNow(q) + Contribution(Head(logs), q)
  <1> DEFINE log == Head(logs)
  <1>1. HookEffect(log)
    BY DEF HookLogStep
  <1>2. log.pair \in Pairs /\ log.from \in Users /\ log.amount \in Nat /\ log \in Log
    BY HeadOfLogs, HeadTailProperties DEF TypeOK, HookLogStep
  <1>3. Contribution(log, q) \in Nat
    BY <1>2, ContributionNat
  <1>h. Head(logs) = log
    OBVIOUS
  <1> HIDE DEF log
  <1>0. /\ Module \in Accounts /\ Module \notin Users /\ log.from \in Accounts
        /\ coins \in Balances /\ tokens \in Balances /\ 0 \in Nat
        /\ Held(coins, q) \in Nat /\ Held(tokens, q) \in Nat
    BY <1>2, TypeFacts, WealthFacts
  <1> SUFFICES WealthNow(q)' <= WealthNow(q) + Contribution(log, q)
    BY <1>h
  <1>4. CASE UNCHANGED ledger
    BY <1>0, <1>3, <1>4 DEF ledger, WealthNow
  <1>5. CASE BurnsTokens(Module, log.pair, log.amount)
    <2>1. HeldMoved(tokens, tokens', log.pair, Module, log.amount, Module, 0, q)
      BY <1>0, <1>2, <1>5, MovedHeld, Zenon DEF BurnsTokens
    <2>2. coins' = coins
      BY <1>5 DEF BurnsTokens
    <2> QED
      BY <1>0, <1>2, <1>3, <2>1, <2>2 DEF HeldMoved, WealthNow
  <1>6. CASE log.to = Module /\ ReleasesCoins(Module, log.from, log.pair, log.amount)
    <2>1. HeldMoved(tokens, tokens', log.pair, Module, log.amount, Module, 0, q)
      BY <1>0, <1>2, <1>6, MovedHeld, Zenon DEF ReleasesCoins
    <2>2. HeldMoved(coins, coins', log.pair, Module, log.amount, log.from, log.amount, q)
      BY <1>0, <1>2, <1>6, MovedHeld, Zenon DEF ReleasesCoins
    <2>3. Contribution(log, q) = IF q = log.pair THEN log.amount ELSE 0
      BY <1>6 DEF Contribution
    <2> QED
      BY <1>0, <1>2, <2>1, <2>2, <2>3 DEF HeldMoved, WealthNow
  <1>7. CASE log.to = Module /\ MintsCoins(log.from, log.pair, log.amount)
    <2>0. coins[log.pair][log.from] >= 0
      <3>1. coins[log.pair][log.from] \in Nat
        BY <1>0, <1>2 DEF Balances
      <3> QED
        BY <3>1
    <2>1. HeldMoved(coins, coins', log.pair, log.from, 0, log.from, log.amount, q)
      BY <1>0, <1>2, <1>7, <2>0, MovedHeld, Zenon DEF MintsCoins
    <2>2. tokens' = tokens /\ Contribution(log, q) = IF q = log.pair THEN log.amount ELSE 0
      BY <1>7 DEF MintsCoins, Contribution
    <2> QED
      BY <1>0, <1>2, <2>1, <2>2 DEF HeldMoved, WealthNow
  <1> QED
    BY <1>1, <1>4, <1>5, <1>6, <1>7 DEF HookEffect

\* What the users have as messages and blocks see it.
CommittedWealth(q) == IF phase = "idle" THEN WealthNow(q) ELSE SavedWealth(q)
WealthKept == \A q \in Pairs : CommittedWealth(q)' <= CommittedWealth(q)

\* Only a commit changes what messages and blocks see of a transaction, and it
\* leaves the users with what is covered.
LEMMA WealthInvNext ==
    ASSUME WealthInv, [Next]_vars
    PROVE  WealthInv' /\ WealthKept
  <1>0. /\ TypeOK /\ TypeOK'
        /\ logs \in Seq(Log)
        /\ \A q \in Pairs : WealthNow(q) \in Int /\ (phase # "idle" => SavedWealth(q) \in Int)
    <2>1. TypeOK /\ TypeOK'
      BY TypeNext DEF WealthInv
    <2>2. logs \in Seq(Log)
      BY <2>1 DEF TypeOK
    <2> QED
      BY <2>1, <2>2, WealthFacts
  <1>00. \A q \in Pairs : WealthNow(q)' \in Int
    <2> SUFFICES ASSUME NEW q \in Pairs
                 PROVE  WealthNow(q)' \in Int
      OBVIOUS
    <2>1. coins' \in Balances /\ tokens' \in Balances
      BY <1>0 DEF TypeOK
    <2>2. Held(coins', q) \in Nat /\ Held(tokens', q) \in Nat
      BY <2>1, HeldNat
    <2> QED
      BY <2>2 DEF WealthNow
  <1>1. CASE MessageStep
    <2>1. phase = "idle" /\ phase' = "idle"
      BY <1>1 DEF MessageStep, transaction
    <2>2. \A q \in Pairs : WealthNow(q)' <= WealthNow(q)
      BY <1>0, <1>1, MessageWealth DEF MessageStep
    <2> QED
      BY <1>0, <2>1, <2>2 DEF WealthInv, WealthKept, CommittedWealth
  <1>2. CASE BeginEthereumTx
    <2>1. /\ phase = "idle" /\ phase' = "evm" /\ logs' = << >>
          /\ UNCHANGED <<coins, tokens>>
      BY <1>2 DEF BeginEthereumTx, ledger
    <2>2. \A q \in Pairs : WealthNow(q)' = WealthNow(q) /\ SavedWealth(q)' = WealthNow(q)
      BY <1>2, <2>1 DEF BeginEthereumTx, WealthNow, SavedWealth
    <2>3. \A q \in Pairs : Covered(<< >>, WealthNow(q)', SavedWealth(q)', q)
      BY <1>0, <2>2, CoveredEmpty
    <2> QED
      BY <1>0, <2>1, <2>2, <2>3 DEF WealthInv, WealthKept, CommittedWealth
  <1>3. CASE TransferStep
    <2>1. phase = "evm" /\ phase' = phase /\ saved' = saved
      BY <1>3 DEF TransferStep
    <2>2. \A q \in Pairs : SavedWealth(q)' = SavedWealth(q)
      BY <2>1 DEF SavedWealth
    <2>3. PICK log \in Log :
            /\ logs' = Append(logs, log)
            /\ \A q \in Pairs : WealthNow(q)' <= WealthNow(q) - Contribution(log, q)
      BY <1>0, <1>3, TransferWealth
    <2>4. ASSUME NEW q \in Pairs
          PROVE  Covered(logs, WealthNow(q), SavedWealth(q), q)'
      <3>0. Contribution(log, q) \in Int /\ SavedWealth(q) \in Int /\ phase # "idle"
        BY <1>0, <2>1, ContributionNat
      <3>1. Covered(logs, WealthNow(q), SavedWealth(q), q)
        BY <3>0 DEF WealthInv
      <3>2. Covered(logs, WealthNow(q)', SavedWealth(q) - Contribution(log, q), q)
        BY <1>0, <1>00, <2>3, <3>0, <3>1, CoveredLess
      <3>3. /\ SavedWealth(q) - Contribution(log, q) \in Int
            /\ (SavedWealth(q) - Contribution(log, q)) + Contribution(log, q) <= SavedWealth(q)
        BY <3>0
      <3>4. Covered(Append(logs, log), WealthNow(q)', SavedWealth(q), q)
        BY <1>0, <1>00, <3>0, <3>2, <3>3, CoveredAppend
      <3> QED
        BY <2>2, <2>3, <3>4
    <2> QED
      BY <1>0, <2>1, <2>2, <2>4 DEF WealthInv, WealthKept, CommittedWealth
  <1>4. CASE RevertStep
    <2>1. phase # "idle" /\ phase' = "idle"
      BY <1>4 DEF RevertStep, Revert
    <2>2. \A q \in Pairs : WealthNow(q)' = SavedWealth(q)
      BY <1>4 DEF RevertStep, Revert, WealthNow, SavedWealth
    <2> QED
      BY <1>0, <2>1, <2>2 DEF WealthInv, WealthKept, CommittedWealth
  <1>5. CASE CommitStep
    <2>1. phase # "idle" /\ phase' = "idle"
      BY <1>5 DEF CommitStep, Commit
    <2>2. \A q \in Pairs : WealthNow(q)' = WealthNow(q)
      BY <1>5 DEF CommitStep, Commit, ledger, WealthNow
    <2>3. \A q \in Pairs : WealthNow(q) <= SavedWealth(q)
      BY <1>0, <2>1, CoveredBound DEF WealthInv
    <2> QED
      BY <1>0, <2>1, <2>2, <2>3 DEF WealthInv, WealthKept, CommittedWealth
  <1>6. CASE HookCallStep
    <2>1. phase = "evm" /\ phase' = "hook" /\ UNCHANGED <<coins, tokens, logs, saved>>
      BY <1>6 DEF HookCallStep, ledger
    <2>2. \A q \in Pairs : WealthNow(q)' = WealthNow(q) /\ SavedWealth(q)' = SavedWealth(q)
      BY <2>1 DEF WealthNow, SavedWealth
    <2> QED
      BY <1>0, <2>1, <2>2 DEF WealthInv, WealthKept, CommittedWealth
  <1>7. CASE HookLogStep
    <2>1. phase = "hook" /\ phase' = phase /\ saved' = saved /\ logs' = Tail(logs) /\ logs # << >>
      BY <1>7 DEF HookLogStep, NextLog
    <2>2. \A q \in Pairs : SavedWealth(q)' = SavedWealth(q)
      BY <2>1 DEF SavedWealth
    <2>3. \A q \in Pairs : WealthNow(q)' <= WealthNow(q) + Contribution(Head(logs), q)
      BY <1>0, <1>7, HookWealth
    <2>4. ASSUME NEW q \in Pairs
          PROVE  Covered(logs, WealthNow(q), SavedWealth(q), q)'
      <3>1. Covered(logs, WealthNow(q), SavedWealth(q), q) /\ SavedWealth(q) \in Int
        BY <1>0, <2>1 DEF WealthInv
      <3>2. Covered(Tail(logs), WealthNow(q)', SavedWealth(q), q)
        BY <1>0, <1>00, <2>1, <2>3, <3>1, CoveredTail
      <3> QED
        BY <2>1, <2>2, <3>2
    <2> QED
      BY <1>0, <2>1, <2>2, <2>4 DEF WealthInv, WealthKept, CommittedWealth
  <1>8. CASE OtherStep
    <2>1. UNCHANGED <<coins, tokens, phase, logs, saved>>
      BY <1>8 DEF OtherStep, ledger, transaction
    <2>2. \A q \in Pairs : WealthNow(q)' = WealthNow(q) /\ SavedWealth(q)' = SavedWealth(q)
      BY <2>1 DEF WealthNow, SavedWealth
    <2> QED
      BY <1>0, <2>1, <2>2 DEF WealthInv, WealthKept, CommittedWealth
  <1> QED
    BY <1>0, <1>1, <1>2, <1>3, <1>4, <1>5, <1>6, <1>7, <1>8, StepKinds

\* Which is the wealth of the property.
LEMMA CommittedSums == \A q \in Pairs : Wealth(Committed, q) = CommittedWealth(q)
  <1> SUFFICES ASSUME NEW q \in Pairs
               PROVE  Wealth(Committed, q) = CommittedWealth(q)
    OBVIOUS
  <1>1. Wealth(Committed, q) = Sum(Committed.coins[q], Users) + Sum(Committed.tokens[q], Users)
    BY DEF Wealth, Sum
  <1>2. Committed.coins = IF phase = "idle" THEN coins ELSE saved.coins
    BY DEF Committed
  <1>3. Committed.tokens = IF phase = "idle" THEN tokens ELSE saved.tokens
    BY DEF Committed
  <1> QED
    BY <1>1, <1>2, <1>3 DEF CommittedWealth, WealthNow, SavedWealth, Held

\* No message and no Ethereum transaction, of whatever contracts and however
\* many transfers, gives the users of a pair more than they had.
THEOREM WealthNeverCreated == Spec => NoWealthCreated
  <1>1. Init => WealthInv
    BY TypeInit DEF Init, WealthInv
  <1>2. WealthInv /\ [Next]_vars => WealthInv' /\ WealthKept
    BY WealthInvNext
  <1>3. \A q \in Pairs : Wealth(Committed, q) = CommittedWealth(q)
    BY CommittedSums
  <1>4. (\A q \in Pairs : Wealth(Committed, q) = CommittedWealth(q))'
    BY CommittedSums, PTL
  <1>5. WealthKept => \A p \in Pairs : Wealth(Committed', p) <= Wealth(Committed, p)
    BY <1>3, <1>4 DEF WealthKept
  <1> QED
    BY <1>1, <1>2, <1>5, PTL DEF Spec, NoWealthCreated
=============================================================================
