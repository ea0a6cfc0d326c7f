---------------------------- MODULE MCConversion ----------------------------
(***************************************************************************)
(* Instances of Conversion: a registered coin and a registered ERC20, two  *)
(* users of whom one owns two units of each, and transactions of up to two *)
(* transfers.                                                              *)
(***************************************************************************)
EXTENDS Conversion

CONSTANTS alice, bob, coin, erc20

MCBalance == [p \in Pairs |-> [u \in Users |-> IF u = alice THEN 2 ELSE 0]]
MCSupply == [p \in Pairs |-> 2]
=============================================================================
