------------------------------ MODULE PairUpdate ------------------------------
(***************************************************************************)
(* Conversion together with the update of a pair to another contract       *)
(* (UpdateTokenPairERC20), which may come at any time between messages.    *)
(* The pair and its coin stay; what the module had escrowed in the former  *)
(* contract stays there, out of reach of the conversions that follow.      *)
(***************************************************************************)
EXTENDS Conversion

CONSTANT MaxUpdates   \* bound: updates of a pair

VARIABLES
    former,    \* tokens left to the module in the former contracts of a pair
    updates    \* updates of a pair so far

updateVars == <<vars, former, updates>>

UpdateInit ==
    /\ Init
    /\ former = [p \in Pairs |-> 0]
    /\ updates = [p \in Pairs |-> 0]

\* The description that the metadata must have is the one RegisterERC20 gives
\* to an external contract.  The new contract has balances of its own, none of
\* them the module's.  Neither parameter is looked at.
UpdateTokenPairERC20(p) ==
    /\ phase = "idle"
    /\ p \in External
    /\ updates[p] < MaxUpdates
    /\ updates' = [updates EXCEPT ![p] = @ + 1]
    /\ former' = [former EXCEPT ![p] = @ + tokens[p][Module]]
    /\ tokens' = [tokens EXCEPT ![p] = [a \in Accounts |->
                    IF a \in Users THEN InitialBalance[p][a] ELSE 0]]
    /\ tokenSupply' = [tokenSupply EXCEPT ![p] = InitialSupply[p]]
    /\ UNCHANGED <<coins, coinSupply, switches, transaction>>

UpdateNext ==
    \/ Next /\ UNCHANGED <<former, updates>>
    \/ \E p \in Pairs : UpdateTokenPairERC20(p)

UpdateSpec == UpdateInit /\ [][UpdateNext]_updateVars
-----------------------------------------------------------------------------
(* Properties.                                                             *)

EscrowedAnywhere == [p \in Pairs |-> Escrowed[p] + former[p]]
Total == INSTANCE Bridge WITH Pairs <- Pairs, reserve <- EscrowedAnywhere, claims <- Issued

\* Across updates a pair is still a bridge, when its reserve is what the module
\* holds in the present contract and in the former ones: an update puts coins
\* out of reach of a conversion, but neither it nor anything that is converted
\* afterwards issues a coin that no token was escrowed for, or releases a token
\* without burning its coin.
ImplementsBridgeAcrossUpdates == Total!Spec
=============================================================================
