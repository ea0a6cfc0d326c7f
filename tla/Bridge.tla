------------------------------- MODULE Bridge -------------------------------
(***************************************************************************)
(* What the conversion of token pairs promises: each pair has a reserve    *)
(* (the escrowed side) and claims on it (the issued side).  Reserve and    *)
(* claims move together when something is converted; besides, somebody may *)
(* add to the reserve or give up a claim.  A step may do this for several  *)
(* pairs at once.                                                          *)
(***************************************************************************)
EXTENDS Integers

CONSTANT Pairs

VARIABLES reserve, claims

Surplus(p) == reserve[p] - claims[p]

Init ==
    /\ reserve \in [Pairs -> Int]
    /\ claims \in [Pairs -> Int]
    /\ \A p \in Pairs : Surplus(p) >= 0

\* Conversions, donations and waivers: the surplus of no pair gets smaller.
Next ==
    /\ reserve' \in [Pairs -> Int]
    /\ claims' \in [Pairs -> Int]
    /\ \A p \in Pairs : Surplus(p)' >= Surplus(p)

Spec == Init /\ [][Next]_<<reserve, claims>>

\* Every claim on a pair can be met from its reserve.
Covered == \A p \in Pairs : claims[p] <= reserve[p]
=============================================================================
