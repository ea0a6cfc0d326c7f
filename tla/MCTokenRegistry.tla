--------------------------- MODULE MCTokenRegistry ---------------------------
(***************************************************************************)
(* Instances of TokenRegistry: three user contracts of which two present   *)
(* themselves alike, two coins, and genesis files without pairs, with one  *)
(* pair and with two pairs that spell one address in two ways.             *)
(***************************************************************************)
EXTENDS TokenRegistry

CONSTANTS c1, c2, c3, acoin, bcoin, gold, badName

MCCreateAddress(n) == <<"module", n>>
MCCreateDenom(a) == <<"intrarelayer", a>>

MCNames == {gold, badName}
MCValidNames == {gold}
MCUserERC20 ==
    [c \in Contracts |->
        CASE c = c1 -> [name |-> gold, symbol |-> "GLD", decimals |-> 18]
          [] c = c2 -> [name |-> gold, symbol |-> "GLD", decimals |-> 18]
          [] OTHER   -> [name |-> badName, symbol |-> "BAD", decimals |-> 18]]

MCMetadata(name, address) ==
    [name |-> name, description |-> address, display |-> gold,
     symbol |-> "GLD", exponent |-> 18]

\* Proposals with Name equal to Base and with another Name, and with
\* descriptions that name no contract, a user's or the first one deployed.
MCCoinProposals ==
    {<<acoin, MCMetadata(acoin, NoAddress)>>,
     <<acoin, MCMetadata(gold, c1)>>,
     <<bcoin, MCMetadata(bcoin, MCCreateAddress(0))>>}

NoMetadata == [d \in AllDenoms |-> Nil]

GenesisPair(address, spelling, denom) ==
    [erc20Address |-> <<address, spelling>>, denom |-> denom,
     enabled |-> TRUE, contractOwner |-> "OWNER_EXTERNAL"]

Genesis(pairs, md) ==
    [tokenPairs |-> pairs, enableIntrarelayer |-> TRUE, metadata |-> md]

\* Genesis files whose pairs have metadata and distinct addresses.
DistinctFiles ==
    {Genesis({}, NoMetadata),
     Genesis({GenesisPair(c1, "lower", acoin)},
             [NoMetadata EXCEPT ![acoin] = MCMetadata(acoin, c1)])}

\* With one in which two pairs have the same address, spelled in two ways.
CompleteFiles ==
    DistinctFiles \cup
        {Genesis({GenesisPair(c1, "lower", acoin), GenesisPair(c1, Checksum, bcoin)},
                 [NoMetadata EXCEPT ![acoin] = MCMetadata(acoin, c1),
                                    ![bcoin] = MCMetadata(bcoin, c1)])}
=============================================================================
