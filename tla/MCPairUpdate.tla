---------------------------- MODULE MCPairUpdate ----------------------------
(***************************************************************************)
(* Instances of PairUpdate: as those of Conversion, and the contract that  *)
(* a pair is updated to has the balances the former one began with.        *)
(***************************************************************************)
EXTENDS PairUpdate

CONSTANTS alice, bob, coin, erc20

MCBalance == [p \in Pairs |-> [u \in Users |-> IF u = alice THEN 2 ELSE 0]]
MCSupply == [p \in Pairs |-> 2]
=============================================================================
