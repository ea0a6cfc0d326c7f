---------------------------- MODULE TokenRegistry ----------------------------
(***************************************************************************)
(* The token-pair registry of x/intrarelayer: three prefix stores (pairs   *)
(* by id, id by ERC20 address, id by coin denomination) kept consistent by *)
(* hand by every keeper operation that governance triggers, by InitGenesis *)
(* and by the export / import of a chain restart.                          *)
(*                                                                         *)
(* A keeper method that returns an error leaves no trace: gov runs every   *)
(* handler in a cache context that it only writes on success.  An error    *)
(* return is therefore an action that is not enabled.                      *)
(*                                                                         *)
(* Strings are abstracted to the members of small sets; what the code      *)
(* builds from an address (a denomination, a description) is an injective  *)
(* operator of the address.                                                *)
(***************************************************************************)
EXTENDS Naturals, FiniteSets

CONSTANTS
    Contracts,           \* addresses of ERC20 contracts deployed by users
    CreateAddress(_),    \* crypto.CreateAddress(ModuleAddress, nonce)
    Spellings,           \* the ways a hex address can be written
    Checksum,            \* the spelling common.Address.String() writes
    Denoms,              \* denominations ValidateIBCDenom accepts
    CreateDenom(_),      \* types.CreateDenom: the coin of an ERC20 address
    Names, Symbols,      \* texts of contracts and coin metadata
    ValidNames,          \* the names that sdk.ValidateDenom accepts
    Exponents,           \* decimals of contracts and of display units
    Nil, NoAddress,      \* an absent store entry; a text naming no address
    UserERC20,           \* what QueryERC20 reads from the users' contracts
    GenesisStates,       \* the genesis files considered
    CoinProposals,       \* the (base, metadata) of register-coin proposals
    MaxNonce             \* bound: module account sequence numbers considered

VARIABLES
    tokenPairs,          \* KeyPrefixTokenPair: the pairs, one per id
    denomMap,            \* KeyPrefixTokenPairByDenom: denom -> id
    erc20Map,            \* KeyPrefixTokenPairByERC20: address -> id
    enableIntrarelayer,  \* module parameter EnableIntrarelayer
    metadata,            \* bank: denomination -> metadata
    erc20,               \* EVM: address -> data of the ERC20 contract there
    nonce                \* sequence of the intrarelayer module account

vars == <<tokenPairs, denomMap, erc20Map, enableIntrarelayer, metadata, erc20, nonce>>
maps == <<denomMap, erc20Map>>
-----------------------------------------------------------------------------
Addresses == Contracts \cup {CreateAddress(n) : n \in 0..MaxNonce}
ERC20Denoms == {CreateDenom(a) : a \in Addresses}
AllDenoms == Denoms \cup ERC20Denoms

Owners == {"OWNER_MODULE", "OWNER_EXTERNAL"}

\* An address as a string in a stored pair: the address and how it is written.
HexStrings == Addresses \X Spellings
HexToAddress(s) == s[1]

TokenPair == [erc20Address : HexStrings, denom : AllDenoms,
              enabled : BOOLEAN, contractOwner : Owners]

NewTokenPair(address, denom, owner) ==
    [erc20Address |-> <<address, Checksum>>, denom |-> denom,
     enabled |-> TRUE, contractOwner |-> owner]

\* The SHA256 of "address|denom", taken to be injective.
GetID(pair) == <<pair.erc20Address, pair.denom>>
PairIDs == HexStrings \X AllDenoms
GetERC20Contract(pair) == HexToAddress(pair.erc20Address)

\* Bank metadata of a denomination.  The exponent is that of the display unit,
\* the description the address it was created for by CreateDenomDescription.
MetadataNames == Names \cup AllDenoms
Metadata == [name : MetadataNames, description : Addresses \cup {NoAddress},
             display : MetadataNames, symbol : Symbols, exponent : Exponents]

ERC20Data == [name : MetadataNames, symbol : Symbols, decimals : Exponents]
DefaultDecimals == 18

ASSUME AddressAssumption ==
    /\ \A m, n \in 0..MaxNonce : CreateAddress(m) = CreateAddress(n) => m = n
    /\ \A n \in 0..MaxNonce : CreateAddress(n) \notin Contracts
    /\ \A a, b \in Addresses : CreateDenom(a) = CreateDenom(b) => a = b
    /\ \A a \in Addresses : CreateDenom(a) \notin Denoms

ASSUME ConstantAssumption ==
    /\ Checksum \in Spellings
    /\ MaxNonce \in Nat
    /\ ValidNames \subseteq MetadataNames
    /\ DefaultDecimals \in Exponents
    /\ Exponents \subseteq Nat
    /\ Nil \notin PairIDs \cup Metadata \cup ERC20Data
    /\ UserERC20 \in [Contracts -> ERC20Data \cup {Nil}]
    /\ CoinProposals \subseteq Denoms \X Metadata
    /\ \A g \in GenesisStates :
          /\ g.tokenPairs \in SUBSET TokenPair
          /\ \A p \in g.tokenPairs : GetERC20Contract(p) \in Contracts
          /\ g.enableIntrarelayer \in BOOLEAN
          /\ g.metadata \in [AllDenoms -> Metadata \cup {Nil}]
-----------------------------------------------------------------------------
(* The stores.                                                             *)

GetTokenPairID(token) == IF token \in Addresses THEN erc20Map[token] ELSE denomMap[token]

IsERC20Registered(address) == erc20Map[address] # Nil
IsDenomRegistered(text) == text \in AllDenoms /\ denomMap[text] # Nil

\* The token pairs after SetTokenPair and after DeleteTokenPair.
DeleteTokenPair(pairs, pair) == {p \in pairs : GetID(p) # GetID(pair)}
SetTokenPair(pairs, pair) == DeleteTokenPair(pairs, pair) \cup {pair}

\* GenesisState.Validate: duplicates are looked for among the strings.
GenesisValidate(pairs) ==
    \A p, q \in pairs :
        (p.erc20Address = q.erc20Address \/ p.denom = q.denom) => p = q

\* The id InitGenesis leaves in a map for the pairs that share a key: the one
\* of the pair visited last.  Pairs are visited in the order of the genesis
\* file, which on export is the order of the SHA256 ids.
LastID(pairs) == IF pairs = {} THEN Nil ELSE GetID(CHOOSE p \in pairs : TRUE)

\* The pairs that may be the last ones of their contracts: a genesis file and
\* an export of the same pairs list them in different orders.
LastByContract(pairs) ==
    {last \in SUBSET pairs :
        /\ \A p \in pairs : \E q \in last : GetERC20Contract(q) = GetERC20Contract(p)
        /\ \A p, q \in last : GetERC20Contract(p) = GetERC20Contract(q) => p = q}
LoadDenomMap(pairs) == [d \in AllDenoms |-> LastID({p \in pairs : p.denom = d})]
\* Mutant: InitGenesis does not set the entries by address.
LoadERC20MapEmpty(last) == [a \in Addresses |-> Nil]

LoadERC20Map(last) == [a \in Addresses |-> LastID({p \in last : GetERC20Contract(p) = a})]

InitGenesis(genesis) ==
    /\ tokenPairs = genesis.tokenPairs
    /\ denomMap = LoadDenomMap(genesis.tokenPairs)
    /\ \E last \in LastByContract(genesis.tokenPairs) : erc20Map = LoadERC20Map(last)
    /\ enableIntrarelayer = genesis.enableIntrarelayer

Init ==
    \E genesis \in GenesisStates :
        /\ GenesisValidate(genesis.tokenPairs)
        /\ InitGenesis(genesis)
        /\ metadata = genesis.metadata
        /\ erc20 = [a \in Addresses |-> IF a \in Contracts THEN UserERC20[a] ELSE Nil]
        /\ nonce = 0
-----------------------------------------------------------------------------
(* Governance operations.                                                  *)

SetParams(enable) ==
    /\ enableIntrarelayer' = enable
    /\ UNCHANGED <<tokenPairs, maps, metadata, erc20, nonce>>

\* A metadata unit is compared by pointer, and a stored metadata is unmarshalled
\* anew: units that every valid metadata has are never the same pointers.
SamePointers == FALSE
equalMetadata(stored, proposed) == stored = proposed /\ SamePointers
\* Mutant: a metadata with the same fields as the one stored is accepted.
verifyMetadataByValue(base, md) == metadata[base] = Nil \/ metadata[base] = md

verifyMetadata(base, md) == metadata[base] = Nil \/ equalMetadata(metadata[base], md)

\* SetTokenPair, SetDenomMap and SetERC20Map, as both registrations do them.
AddPair(pair) ==
    /\ tokenPairs' = SetTokenPair(tokenPairs, pair)
    /\ denomMap' = [denomMap EXCEPT ![pair.denom] = GetID(pair)]
    /\ erc20Map' = [erc20Map EXCEPT ![GetERC20Contract(pair)] = GetID(pair)]

\* RegisterCoin looks up the metadata's Name and registers its Base.
RegisterCoin(base, md) ==
    LET contract == CreateAddress(nonce)
        pair == NewTokenPair(contract, base, "OWNER_MODULE")
    IN  /\ nonce < MaxNonce
        /\ enableIntrarelayer
        /\ ~IsDenomRegistered(md.name)
        /\ verifyMetadata(base, md)
        /\ metadata' = [metadata EXCEPT ![base] = md]
        /\ erc20' = [erc20 EXCEPT ![contract] =
              [name |-> md.name, symbol |-> md.symbol, decimals |-> DefaultDecimals]]
        /\ nonce' = nonce + 1
        /\ AddPair(pair)
        /\ UNCHANGED enableIntrarelayer

\* QueryERC20 makes three calls from the module account, name, symbol and
\* decimals, and each call takes a sequence number.
QueryERC20(contract) ==
    /\ nonce + 3 <= MaxNonce
    /\ erc20[contract] # Nil
    /\ nonce' = nonce + 3

\* Mutant: the description is built from the denomination.
CoinMetadataOfDenom(contract) ==
    [name |-> CreateDenom(contract), description |-> CreateDenom(contract),
     display |-> erc20[contract].name, symbol |-> erc20[contract].symbol,
     exponent |-> erc20[contract].decimals]

\* CreateCoinMetadata, the metadata it stores and what it checks.
CoinMetadata(contract) ==
    [name |-> CreateDenom(contract), description |-> contract,
     display |-> erc20[contract].name, symbol |-> erc20[contract].symbol,
     exponent |-> erc20[contract].decimals]

CreateCoinMetadata(contract) ==
    LET denom == CreateDenom(contract)
    IN  /\ QueryERC20(contract)
        /\ metadata[denom] = Nil
        /\ ~IsDenomRegistered(denom)
        /\ erc20[contract].name \in ValidNames \ {denom}
        /\ erc20[contract].decimals > 0
        /\ metadata' = [metadata EXCEPT ![denom] = CoinMetadata(contract)]

RegisterERC20(contract) ==
    /\ enableIntrarelayer
    /\ ~IsERC20Registered(contract)
    /\ CreateCoinMetadata(contract)
    /\ AddPair(NewTokenPair(contract, CreateDenom(contract), "OWNER_EXTERNAL"))
    /\ UNCHANGED <<enableIntrarelayer, erc20>>

ToggleRelay(token) ==
    /\ GetTokenPairID(token) # Nil
    /\ \E pair \in tokenPairs :
          /\ GetID(pair) = GetTokenPairID(token)
          /\ tokenPairs' = SetTokenPair(tokenPairs, [pair EXCEPT !.enabled = ~@])
    /\ UNCHANGED <<maps, enableIntrarelayer, metadata, erc20, nonce>>

\* Display, symbol and the decimals of the display unit agree with the contract,
\* and the description still names the old address.
MetadataMatches(md, oldAddress, data) ==
    /\ md.display = data.name
    /\ md.symbol = data.symbol
    /\ md.description = oldAddress
    /\ md.exponent = data.decimals

\* Mutant: the old entry is not deleted.
MoveERC20MapKeepsOld(map, old, new, id) == [map EXCEPT ![new] = id]

\* Mutant: the old entry is deleted after the new one is set.
MoveERC20MapSwapped(map, old, new, id) == [[map EXCEPT ![new] = id] EXCEPT ![old] = Nil]

\* The entry of the old address is deleted before the one of the new is set.
MoveERC20Map(map, old, new, id) == [[map EXCEPT ![old] = Nil] EXCEPT ![new] = id]

\* Mutant: the updated pair is built as a new one, enabled and external.
UpdatedPairRebuilt(pair, new) == NewTokenPair(new, pair.denom, "OWNER_EXTERNAL")

\* The pair under its new address: only the address changes.
UpdatedPair(pair, new) == [pair EXCEPT !.erc20Address = <<new, Checksum>>]

\* The id depends on the address: the old pair is deleted and the new one set.
ReplacePair(pairs, pair, updated) == SetTokenPair(DeleteTokenPair(pairs, pair), updated)

\* The new address is not looked up: another pair may have it.
UpdateTokenPairERC20(old, new) ==
    /\ erc20Map[old] # Nil
    /\ QueryERC20(new)
    /\ \E pair \in tokenPairs :
          LET updated == UpdatedPair(pair, new)
          IN  /\ GetID(pair) = erc20Map[old]
              /\ metadata[pair.denom] # Nil
              /\ MetadataMatches(metadata[pair.denom], old, erc20[new])
              /\ metadata' = [metadata EXCEPT ![pair.denom].description = new]
              /\ tokenPairs' = ReplacePair(tokenPairs, pair, updated)
              /\ denomMap' = [denomMap EXCEPT ![pair.denom] = GetID(updated)]
              /\ erc20Map' = MoveERC20Map(erc20Map, old, new, GetID(updated))
    /\ UNCHANGED <<enableIntrarelayer, erc20>>

\* ExportGenesis, then InitGenesis of a new chain from the exported file.  The
\* maps are not exported: they are rebuilt from the pairs.  The bank, auth and
\* evm modules export their own part.
Restart ==
    /\ tokenPairs' = tokenPairs
    /\ denomMap' = LoadDenomMap(tokenPairs)
    /\ \E last \in LastByContract(tokenPairs) : erc20Map' = LoadERC20Map(last)
    /\ UNCHANGED <<enableIntrarelayer, metadata, erc20, nonce>>

Next ==
    \/ \E enable \in BOOLEAN : SetParams(enable)
    \/ \E proposal \in CoinProposals : RegisterCoin(proposal[1], proposal[2])
    \/ \E contract \in Addresses : RegisterERC20(contract)
    \/ \E token \in AllDenoms \cup Addresses : ToggleRelay(token)
    \/ \E old, new \in Addresses : UpdateTokenPairERC20(old, new)
    \/ Restart

Spec == Init /\ [][Next]_vars
-----------------------------------------------------------------------------
(* Properties.                                                             *)

\* Every store holds values of its type.
TypeOK ==
    /\ tokenPairs \in SUBSET TokenPair
    /\ denomMap \in [AllDenoms -> PairIDs \cup {Nil}]
    /\ erc20Map \in [Addresses -> PairIDs \cup {Nil}]
    /\ enableIntrarelayer \in BOOLEAN
    /\ metadata \in [AllDenoms -> Metadata \cup {Nil}]
    /\ erc20 \in [Addresses -> ERC20Data \cup {Nil}]
    /\ nonce \in 0..MaxNonce

\* The pair store has one pair per id.
KeyedByID == \A p, q \in tokenPairs : GetID(p) = GetID(q) => p = q

\* An id that either map holds leads to a stored pair with that denomination,
\* or with that address: MintingEnabled and the EVM hook never work on a pair
\* other than the one they looked up, and "not registered" after a map lookup
\* succeeded (proposals.go:158, 176, mint.go:29) is unreachable.
IndexSound ==
    /\ \A d \in AllDenoms : denomMap[d] # Nil =>
          \E p \in tokenPairs : GetID(p) = denomMap[d] /\ p.denom = d
    /\ \A a \in Addresses : erc20Map[a] # Nil =>
          \E p \in tokenPairs : GetID(p) = erc20Map[a] /\ GetERC20Contract(p) = a

\* Every stored pair is the one its denomination leads to, so no two pairs
\* share a denomination, although RegisterCoin looks for the metadata's Name.
\* It needs bank metadata for every pair of the genesis file.
OnePairPerDenom == \A p \in tokenPairs : denomMap[p.denom] = GetID(p)

\* What makes it so: a registered denomination has bank metadata, for which
\* verifyMetadata turns a second registration down.
PairsHaveMetadata == \A p \in tokenPairs : metadata[p.denom] # Nil

CompleteGenesis ==
    \A g \in GenesisStates : \A p \in g.tokenPairs : g.metadata[p.denom] # Nil

\* The module "maintains a canonical one-to-one mapping" of denominations and
\* contracts: every stored pair is the one its contract leads to, so no two
\* pairs share a contract.  UpdateTokenPairERC20 breaks it.
OnePairPerContract == \A p \in tokenPairs : erc20Map[GetERC20Contract(p)] = GetID(p)

\* As long as each contract has one pair and leads to it, only one thing can
\* end that: an update of a pair to a contract that is another pair's already.
\* No registration does, though RegisterCoin looks no contract up, no restart
\* does, and an update to the pair's own contract loses no entry.
OnlyUpdatesShareContracts ==
    [][OnePairPerContract /\ ~OnePairPerContract' =>
          \E old, new \in Addresses :
              /\ UpdateTokenPairERC20(old, new)
              /\ new # old
              /\ IsERC20Registered(new)]_vars

\* What makes it so: the address of a deployment to come has neither a contract
\* nor a pair.
NothingAhead ==
    \A n \in nonce..MaxNonce :
        /\ erc20[CreateAddress(n)] = Nil
        /\ \A p \in tokenPairs : GetERC20Contract(p) # CreateAddress(n)

\* A pair is never lost and keeps its denomination and its owner; a step that
\* changes its address leaves alone whether it is enabled.  It needs bank
\* metadata for every pair of the genesis file, as OnePairPerDenom does.
PairsPersist ==
    [][\A p \in tokenPairs : \E q \in tokenPairs' :
          /\ q.denom = p.denom
          /\ q.contractOwner = p.contractOwner
          /\ q.enabled = p.enabled \/ q.erc20Address = p.erc20Address]_vars

\* Do several pairs have this contract?
Shared(a) ==
    \E p, q \in tokenPairs : p # q /\ GetERC20Contract(p) = a /\ GetERC20Contract(q) = a

\* The maps are not exported, yet a restart changes no entry, whatever updates
\* came before it, but those of contracts that several pairs share; and it
\* leaves no pair without an entry, though an update may have done so.  It needs
\* bank metadata for every pair of the genesis file, as OnePairPerDenom does.
RestartKeepsEntries ==
    [][Restart =>
          /\ denomMap' = denomMap
          /\ \A a \in Addresses :
                erc20Map[a] # Nil => erc20Map'[a] = erc20Map[a] \/ Shared(a)
          /\ \A p \in tokenPairs : erc20Map'[GetERC20Contract(p)] # Nil]_vars
=============================================================================
