------------------------ MODULE MCZeroHeightExport ------------------------
(***************************************************************************)
(* Two validators that compete for one place in the active set, the second *)
(* created by a transaction, and a delegator besides the operators.        *)
(***************************************************************************)
EXTENDS ZeroHeightExport

MCOperator == (1 :> "op1") @@ (2 :> "op2")
MCAllowLists == {{}, {1}, {1, BadAddress}}
=============================================================================
