------------------------- MODULE TokenRegistryProofs -------------------------
(***************************************************************************)
(* Proofs about TokenRegistry for every value of its constants.            *)
(***************************************************************************)
EXTENDS TokenRegistry, TLAPS

\* The three facts about a pair's id the proofs rest on: it has the type of an
\* id, and from it the address string and the denomination can be read back.
LEMMA IDFacts ==
    /\ \A p \in TokenPair : GetID(p) \in PairIDs /\ GetID(p) # Nil
    /\ \A p, q \in TokenPair : GetID(p) = GetID(q) =>
          p.denom = q.denom /\ GetERC20Contract(p) = GetERC20Contract(q)
  BY ConstantAssumption DEF TokenPair, GetID, PairIDs, GetERC20Contract, HexToAddress

\* NewTokenPair builds a pair with the given address and denomination.
LEMMA NewPairFacts ==
    ASSUME NEW a \in Addresses, NEW d \in AllDenoms, NEW o \in Owners
    PROVE  /\ NewTokenPair(a, d, o) \in TokenPair
           /\ NewTokenPair(a, d, o).denom = d
           /\ GetERC20Contract(NewTokenPair(a, d, o)) = a
  BY ConstantAssumption
  DEF NewTokenPair, TokenPair, GetERC20Contract, HexToAddress, HexStrings

\* What a step of a pair update does to the type and to the identity of a pair.
LEMMA UpdatedPairFacts ==
    ASSUME NEW p \in TokenPair, NEW a \in Addresses
    PROVE  /\ UpdatedPair(p, a) \in TokenPair
           /\ UpdatedPair(p, a).denom = p.denom
           /\ UpdatedPair(p, a).contractOwner = p.contractOwner
           /\ UpdatedPair(p, a).enabled = p.enabled
           /\ GetERC20Contract(UpdatedPair(p, a)) = a
  BY ConstantAssumption
  DEF UpdatedPair, TokenPair, GetERC20Contract, HexToAddress, HexStrings

\* A pair toggled keeps its id.
LEMMA ToggledPairFacts ==
    ASSUME NEW p \in TokenPair
    PROVE  /\ [p EXCEPT !.enabled = ~@] \in TokenPair
           /\ GetID([p EXCEPT !.enabled = ~@]) = GetID(p)
           /\ [p EXCEPT !.enabled = ~@].denom = p.denom
           /\ [p EXCEPT !.enabled = ~@].erc20Address = p.erc20Address
           /\ [p EXCEPT !.enabled = ~@].contractOwner = p.contractOwner
           /\ GetERC20Contract([p EXCEPT !.enabled = ~@]) = GetERC20Contract(p)
  BY DEF TokenPair, GetID, GetERC20Contract, HexToAddress

\* The id InitGenesis leaves for a key is Nil or that of one of the key's pairs.
LEMMA LastIDFacts ==
    ASSUME NEW S \in SUBSET TokenPair
    PROVE  /\ LastID(S) \in PairIDs \cup {Nil}
           /\ LastID(S) # Nil => \E p \in S : LastID(S) = GetID(p)
           /\ S # {} => \E p \in S : LastID(S) = GetID(p)
  <1>1. CASE S = {}
    BY <1>1 DEF LastID
  <1>2. CASE S # {}
    <2>1. (CHOOSE p \in S : TRUE) \in S
      BY <1>2
    <2>2. QED
      BY <1>2, <2>1, IDFacts DEF LastID
  <1>3. QED
    BY <1>1, <1>2

\* The addresses a registration uses are addresses, its denominations too.
LEMMA NameFacts ==
    /\ \A n \in 0..MaxNonce : CreateAddress(n) \in Addresses
    /\ \A a \in Addresses : CreateDenom(a) \in AllDenoms
    /\ Denoms \subseteq AllDenoms
    /\ "OWNER_MODULE" \in Owners /\ "OWNER_EXTERNAL" \in Owners
    /\ Contracts \subseteq Addresses
  BY DEF Addresses, AllDenoms, ERC20Denoms, Owners
\* The maps InitGenesis builds from any set of pairs are sound for it.
LEMMA LoadFacts ==
    ASSUME NEW S \in SUBSET TokenPair
    PROVE  /\ LoadDenomMap(S) \in [AllDenoms -> PairIDs \cup {Nil}]
           /\ LoadERC20Map(S) \in [Addresses -> PairIDs \cup {Nil}]
           /\ \A d \in AllDenoms : LoadDenomMap(S)[d] # Nil =>
                 \E p \in S : GetID(p) = LoadDenomMap(S)[d] /\ p.denom = d
           /\ \A a \in Addresses : LoadERC20Map(S)[a] # Nil =>
                 \E p \in S : GetID(p) = LoadERC20Map(S)[a] /\ GetERC20Contract(p) = a
           /\ \A p \in S : \E q \in S : LoadDenomMap(S)[p.denom] = GetID(q) /\ q.denom = p.denom
           /\ \A p \in S : \E q \in S :
                 /\ LoadERC20Map(S)[GetERC20Contract(p)] = GetID(q)
                 /\ GetERC20Contract(q) = GetERC20Contract(p)
  <1> DEFINE D(d) == {p \in S : p.denom = d}
             A(a) == {p \in S : GetERC20Contract(p) = a}
  <1>1. \A p \in S : p.denom \in AllDenoms /\ GetERC20Contract(p) \in Addresses
    BY DEF TokenPair, GetERC20Contract, HexToAddress, HexStrings
  <1>2. \A d \in AllDenoms : LoadDenomMap(S)[d] = LastID(D(d)) /\ D(d) \in SUBSET TokenPair
    BY DEF LoadDenomMap
  <1>3. \A a \in Addresses : LoadERC20Map(S)[a] = LastID(A(a)) /\ A(a) \in SUBSET TokenPair
    BY DEF LoadERC20Map
  <1>4. LoadDenomMap(S) \in [AllDenoms -> PairIDs \cup {Nil}]
    BY LastIDFacts DEF LoadDenomMap
  <1>5. LoadERC20Map(S) \in [Addresses -> PairIDs \cup {Nil}]
    BY LastIDFacts DEF LoadERC20Map
  <1>6. \A d \in AllDenoms : LoadDenomMap(S)[d] # Nil =>
                 \E p \in S : GetID(p) = LoadDenomMap(S)[d] /\ p.denom = d
    BY <1>2, LastIDFacts
  <1>7. \A a \in Addresses : LoadERC20Map(S)[a] # Nil =>
                 \E p \in S : GetID(p) = LoadERC20Map(S)[a] /\ GetERC20Contract(p) = a
    BY <1>3, LastIDFacts
  <1>8. ASSUME NEW p \in S
        PROVE  \E q \in S : LoadDenomMap(S)[p.denom] = GetID(q) /\ q.denom = p.denom
    <2>1. D(p.denom) # {}
      OBVIOUS
    <2>2. \E q \in D(p.denom) : LastID(D(p.denom)) = GetID(q)
      BY <1>1, <1>2, <2>1, LastIDFacts
    <2>3. QED
      BY <1>1, <1>2, <2>2
  <1>9. ASSUME NEW p \in S
        PROVE  \E q \in S : /\ LoadERC20Map(S)[GetERC20Contract(p)] = GetID(q)
                            /\ GetERC20Contract(q) = GetERC20Contract(p)
    <2>1. A(GetERC20Contract(p)) # {}
      OBVIOUS
    <2>2. \E q \in A(GetERC20Contract(p)) : LastID(A(GetERC20Contract(p))) = GetID(q)
      BY <1>1, <1>3, <2>1, LastIDFacts
    <2>3. QED
      BY <1>1, <1>3, <2>2
  <1>10. QED
    BY <1>4, <1>5, <1>6, <1>7, <1>8, <1>9

\* So is the map of the pairs that were loaded last, one for each contract.
LEMMA LastFacts ==
    ASSUME NEW S \in SUBSET TokenPair, NEW last \in LastByContract(S)
    PROVE  /\ LoadERC20Map(last) \in [Addresses -> PairIDs \cup {Nil}]
           /\ \A a \in Addresses : LoadERC20Map(last)[a] # Nil =>
                 \E p \in S : GetID(p) = LoadERC20Map(last)[a] /\ GetERC20Contract(p) = a
           /\ \A p \in S : \E q \in S :
                 /\ LoadERC20Map(last)[GetERC20Contract(p)] = GetID(q)
                 /\ GetERC20Contract(q) = GetERC20Contract(p)
  <1>1. /\ last \in SUBSET S
        /\ \A p \in S : \E q \in last : GetERC20Contract(q) = GetERC20Contract(p)
    BY DEF LastByContract
  <1>2. last \in SUBSET TokenPair
    BY <1>1
  <1>3. LoadERC20Map(last) \in [Addresses -> PairIDs \cup {Nil}]
    BY <1>2, LoadFacts
  <1>4. ASSUME NEW a \in Addresses, LoadERC20Map(last)[a] # Nil
        PROVE  \E p \in S : GetID(p) = LoadERC20Map(last)[a] /\ GetERC20Contract(p) = a
    BY <1>1, <1>2, <1>4, LoadFacts
  <1>5. ASSUME NEW p \in S
        PROVE  \E q \in S : /\ LoadERC20Map(last)[GetERC20Contract(p)] = GetID(q)
                            /\ GetERC20Contract(q) = GetERC20Contract(p)
    <2>1. PICK r \in last : GetERC20Contract(r) = GetERC20Contract(p)
      BY <1>1
    <2>2. PICK q \in last : /\ LoadERC20Map(last)[GetERC20Contract(r)] = GetID(q)
                            /\ GetERC20Contract(q) = GetERC20Contract(r)
      BY <1>2, LoadFacts
    <2>3. QED
      BY <1>1, <2>1, <2>2
  <1>6. QED
    BY <1>3, <1>4, <1>5

-----------------------------------------------------------------------------
(* Index soundness.                                                        *)

\* The inductive invariant: the types, one pair per id, and sound maps.
RegistryInv == TypeOK /\ KeyedByID /\ IndexSound

\* InitGenesis, of any valid genesis file, establishes the invariant.
LEMMA RegistryInvInit == Init => RegistryInv
  <1> SUFFICES ASSUME Init PROVE RegistryInv
    OBVIOUS
  <1>1. PICK genesis \in GenesisStates :
          /\ GenesisValidate(genesis.tokenPairs)
          /\ InitGenesis(genesis)
          /\ metadata = genesis.metadata
          /\ erc20 = [a \in Addresses |-> IF a \in Contracts THEN UserERC20[a] ELSE Nil]
          /\ nonce = 0
    BY DEF Init
  <1>2. tokenPairs \in SUBSET TokenPair
    BY <1>1, ConstantAssumption DEF InitGenesis
  <1>0. PICK last \in LastByContract(tokenPairs) : erc20Map = LoadERC20Map(last)
    BY <1>1 DEF InitGenesis
  <1>3. TypeOK
    <2>1. denomMap \in [AllDenoms -> PairIDs \cup {Nil}]
      BY <1>1, <1>2, LastIDFacts DEF InitGenesis, LoadDenomMap
    <2>2. erc20Map \in [Addresses -> PairIDs \cup {Nil}]
      BY <1>0, <1>2, LastFacts
    <2>3. erc20 \in [Addresses -> ERC20Data \cup {Nil}]
      BY <1>1, ConstantAssumption
    <2>4. /\ enableIntrarelayer \in BOOLEAN
          /\ metadata \in [AllDenoms -> Metadata \cup {Nil}]
          /\ nonce \in 0..MaxNonce
      BY <1>1, ConstantAssumption DEF InitGenesis
    <2>5. QED
      BY <1>2, <2>1, <2>2, <2>3, <2>4 DEF TypeOK
  <1>4. KeyedByID
    BY <1>1 DEF KeyedByID, GenesisValidate, GetID, InitGenesis
  <1>5. IndexSound
    <2>1. ASSUME NEW d \in AllDenoms, denomMap[d] # Nil
          PROVE  \E p \in tokenPairs : GetID(p) = denomMap[d] /\ p.denom = d
      <3>1. denomMap[d] = LastID({p \in tokenPairs : p.denom = d})
        BY <1>1 DEF InitGenesis, LoadDenomMap
      <3>2. QED
        BY <1>2, <2>1, <3>1, LastIDFacts
    <2>2. ASSUME NEW a \in Addresses, erc20Map[a] # Nil
          PROVE  \E p \in tokenPairs : GetID(p) = erc20Map[a] /\ GetERC20Contract(p) = a
      BY <1>0, <1>2, <2>2, LastFacts
    <2>3. QED
      BY <2>1, <2>2 DEF IndexSound
  <1>6. QED
    BY <1>3, <1>4, <1>5 DEF RegistryInv

\* The part of the type invariant about the registry's own stores.
StoresOK ==
    /\ tokenPairs \in SUBSET TokenPair
    /\ denomMap \in [AllDenoms -> PairIDs \cup {Nil}]
    /\ erc20Map \in [Addresses -> PairIDs \cup {Nil}]

\* Writing a pair and both its map entries keeps the stores sound.
LEMMA AddPairInv ==
    ASSUME RegistryInv, NEW pair \in TokenPair, AddPair(pair)
    PROVE  StoresOK' /\ KeyedByID' /\ IndexSound'
  <1> USE DEF RegistryInv, AddPair, SetTokenPair, DeleteTokenPair
  <1>1. pair.denom \in AllDenoms /\ GetERC20Contract(pair) \in Addresses
    BY DEF TokenPair, GetERC20Contract, HexToAddress, HexStrings
  <1>2. StoresOK'
    BY <1>1, IDFacts DEF StoresOK, TypeOK
  <1>3. KeyedByID'
    BY DEF KeyedByID
  <1>4. ASSUME NEW d \in AllDenoms, denomMap'[d] # Nil
        PROVE  \E p \in tokenPairs' : GetID(p) = denomMap'[d] /\ p.denom = d
    <2>1. CASE d = pair.denom
      BY <1>1, <2>1 DEF TypeOK
    <2>2. CASE d # pair.denom
      <3>1. PICK p \in tokenPairs : GetID(p) = denomMap[d] /\ p.denom = d
        BY <1>1, <1>4, <2>2 DEF TypeOK, IndexSound
      <3>2. GetID(p) # GetID(pair)
        BY <2>2, <3>1, IDFacts DEF TypeOK
      <3>3. QED
        BY <1>1, <2>2, <3>1, <3>2 DEF TypeOK
    <2>3. QED
      BY <2>1, <2>2
  <1>5. ASSUME NEW a \in Addresses, erc20Map'[a] # Nil
        PROVE  \E p \in tokenPairs' : GetID(p) = erc20Map'[a] /\ GetERC20Contract(p) = a
    <2>1. CASE a = GetERC20Contract(pair)
      BY <1>1, <2>1 DEF TypeOK
    <2>2. CASE a # GetERC20Contract(pair)
      <3>1. PICK p \in tokenPairs : GetID(p) = erc20Map[a] /\ GetERC20Contract(p) = a
        BY <1>1, <1>5, <2>2 DEF TypeOK, IndexSound
      <3>2. GetID(p) # GetID(pair)
        BY <2>2, <3>1, IDFacts DEF TypeOK
      <3>3. QED
        BY <1>1, <2>2, <3>1, <3>2 DEF TypeOK
    <2>3. QED
      BY <2>1, <2>2
  <1>6. QED
    BY <1>2, <1>3, <1>4, <1>5 DEF IndexSound

\* RegisterCoin preserves the invariant.
LEMMA RegisterCoinInv ==
    ASSUME RegistryInv, NEW proposal \in CoinProposals, RegisterCoin(proposal[1], proposal[2])
    PROVE  RegistryInv'
  <1> DEFINE base == proposal[1]
             md == proposal[2]
             contract == CreateAddress(nonce)
  <1>1. base \in Denoms /\ md \in Metadata
    BY ConstantAssumption
  <1>2. contract \in Addresses /\ nonce \in 0..MaxNonce /\ nonce' \in 0..MaxNonce
    BY NameFacts, ConstantAssumption DEF RegistryInv, TypeOK, RegisterCoin
  <1>3. NewTokenPair(contract, base, "OWNER_MODULE") \in TokenPair
    BY <1>1, <1>2, NameFacts, NewPairFacts
  <1>4. StoresOK' /\ KeyedByID' /\ IndexSound'
    BY <1>3, AddPairInv DEF RegisterCoin
  <1>5. metadata' \in [AllDenoms -> Metadata \cup {Nil}]
    BY <1>1, NameFacts DEF RegisterCoin, RegistryInv, TypeOK
  <1>6. erc20' \in [Addresses -> ERC20Data \cup {Nil}]
    <2>1. [name |-> md.name, symbol |-> md.symbol, decimals |-> DefaultDecimals] \in ERC20Data
      BY <1>1, ConstantAssumption DEF ERC20Data, Metadata
    <2>2. QED
      BY <1>2, <2>1 DEF RegisterCoin, RegistryInv, TypeOK
  <1>7. enableIntrarelayer' \in BOOLEAN
    BY DEF RegisterCoin, RegistryInv, TypeOK
  <1>8. QED
    BY <1>2, <1>4, <1>5, <1>6, <1>7 DEF RegistryInv, TypeOK, StoresOK

\* RegisterERC20 preserves the invariant.
LEMMA RegisterERC20Inv ==
    ASSUME RegistryInv, NEW contract \in Addresses, RegisterERC20(contract)
    PROVE  RegistryInv'
  <1>1. CreateDenom(contract) \in AllDenoms
    BY NameFacts
  <1>2. NewTokenPair(contract, CreateDenom(contract), "OWNER_EXTERNAL") \in TokenPair
    BY <1>1, NameFacts, NewPairFacts
  <1>3. StoresOK' /\ KeyedByID' /\ IndexSound'
    BY <1>2, AddPairInv DEF RegisterERC20
  <1>4. metadata' \in [AllDenoms -> Metadata \cup {Nil}]
    <2>1. erc20[contract] \in ERC20Data
      BY DEF RegisterERC20, CreateCoinMetadata, QueryERC20, RegistryInv, TypeOK
    <2>2. CoinMetadata(contract) \in Metadata
      BY <1>1, <2>1 DEF CoinMetadata, Metadata, ERC20Data, MetadataNames
    <2>3. QED
      BY <1>1, <2>2 DEF RegisterERC20, CreateCoinMetadata, RegistryInv, TypeOK
  <1>5. nonce' \in 0..MaxNonce
    BY ConstantAssumption
    DEF RegisterERC20, CreateCoinMetadata, QueryERC20, RegistryInv, TypeOK
  <1>6. QED
    BY <1>3, <1>4, <1>5 DEF RegisterERC20, RegistryInv, TypeOK, StoresOK

\* ToggleRelay preserves the invariant: the pair it writes has the id it read.
LEMMA ToggleRelayInv ==
    ASSUME RegistryInv, NEW token \in AllDenoms \cup Addresses, ToggleRelay(token)
    PROVE  RegistryInv'
  <1>1. PICK pair \in tokenPairs :
          /\ GetID(pair) = GetTokenPairID(token)
          /\ tokenPairs' = SetTokenPair(tokenPairs, [pair EXCEPT !.enabled = ~@])
    BY DEF ToggleRelay
  <1> DEFINE toggled == [pair EXCEPT !.enabled = ~@]
  <1>2. pair \in TokenPair
    BY DEF RegistryInv, TypeOK
  <1>3. /\ toggled \in TokenPair
        /\ GetID(toggled) = GetID(pair)
        /\ toggled.denom = pair.denom
        /\ GetERC20Contract(toggled) = GetERC20Contract(pair)
    BY <1>2, ToggledPairFacts
  <1> HIDE DEF toggled
  <1>4. tokenPairs' = {p \in tokenPairs : GetID(p) # GetID(pair)} \cup {toggled}
    BY <1>1, <1>3 DEF SetTokenPair, DeleteTokenPair, toggled
  <1>5. UNCHANGED <<denomMap, erc20Map, enableIntrarelayer, metadata, erc20, nonce>>
    BY DEF ToggleRelay, maps
  <1>6. TypeOK'
    BY <1>3, <1>4, <1>5 DEF RegistryInv, TypeOK
  <1>7. KeyedByID'
    BY <1>3, <1>4 DEF RegistryInv, KeyedByID
  <1>8. ASSUME NEW p \in tokenPairs
        PROVE  \E q \in tokenPairs' :
                  GetID(q) = GetID(p) /\ q.denom = p.denom
                  /\ GetERC20Contract(q) = GetERC20Contract(p)
    BY <1>3, <1>4 DEF RegistryInv, KeyedByID
  <1>9. IndexSound'
    <2>1. ASSUME NEW d \in AllDenoms, denomMap[d] # Nil
          PROVE  \E q \in tokenPairs' : GetID(q) = denomMap[d] /\ q.denom = d
      <3>1. PICK p \in tokenPairs : GetID(p) = denomMap[d] /\ p.denom = d
        BY <2>1 DEF RegistryInv, IndexSound
      <3>2. QED
        BY <3>1, <1>8
    <2>2. ASSUME NEW a \in Addresses, erc20Map[a] # Nil
          PROVE  \E q \in tokenPairs' : GetID(q) = erc20Map[a] /\ GetERC20Contract(q) = a
      <3>1. PICK p \in tokenPairs : GetID(p) = erc20Map[a] /\ GetERC20Contract(p) = a
        BY <2>2 DEF RegistryInv, IndexSound
      <3>2. QED
        BY <3>1, <1>8
    <2>3. QED
      BY <1>5, <2>1, <2>2 DEF IndexSound
  <1>10. QED
    BY <1>6, <1>7, <1>9 DEF RegistryInv

\* UpdateTokenPairERC20 preserves the invariant: the entries that pointed to the
\* deleted pair, one in each map, are the ones it overwrites or deletes.
LEMMA UpdateInv ==
    ASSUME RegistryInv, NEW old \in Addresses, NEW new \in Addresses,
           UpdateTokenPairERC20(old, new)
    PROVE  RegistryInv'
  <1>1. PICK pair \in tokenPairs :
          /\ GetID(pair) = erc20Map[old]
          /\ metadata[pair.denom] # Nil
          /\ metadata' = [metadata EXCEPT ![pair.denom].description = new]
          /\ tokenPairs' = SetTokenPair(DeleteTokenPair(tokenPairs, pair), UpdatedPair(pair, new))
          /\ denomMap' = [denomMap EXCEPT ![pair.denom] = GetID(UpdatedPair(pair, new))]
          /\ erc20Map' = MoveERC20Map(erc20Map, old, new, GetID(UpdatedPair(pair, new)))
    BY DEF UpdateTokenPairERC20, ReplacePair
  <1> DEFINE updated == UpdatedPair(pair, new)
  <1>2. pair \in TokenPair /\ pair.denom \in AllDenoms
    BY DEF RegistryInv, TypeOK, TokenPair
  <1>3. /\ updated \in TokenPair
        /\ updated.denom = pair.denom
        /\ GetERC20Contract(updated) = new
    BY <1>2, UpdatedPairFacts
  <1>4. GetID(updated) \in PairIDs
    BY <1>3, IDFacts
  <1>5. GetERC20Contract(pair) = old
    <2>1. PICK p \in tokenPairs : GetID(p) = erc20Map[old] /\ GetERC20Contract(p) = old
      BY DEF UpdateTokenPairERC20, ReplacePair, RegistryInv, IndexSound
    <2>2. QED
      BY <1>1, <2>1 DEF RegistryInv, KeyedByID
  <1> HIDE DEF updated
  <1>6. tokenPairs' = {p \in tokenPairs : GetID(p) # GetID(pair) /\ GetID(p) # GetID(updated)}
                        \cup {updated}
    BY <1>1 DEF SetTokenPair, DeleteTokenPair, updated
  <1>7. \A d \in AllDenoms :
          denomMap'[d] = IF d = pair.denom THEN GetID(updated) ELSE denomMap[d]
    BY <1>1, <1>2 DEF RegistryInv, TypeOK, updated
  <1>8. \A a \in Addresses :
          erc20Map'[a] = IF a = new THEN GetID(updated)
                         ELSE IF a = old THEN Nil ELSE erc20Map[a]
    BY <1>1 DEF RegistryInv, TypeOK, MoveERC20Map, updated
  <1>9. TypeOK'
    <2>1. metadata' \in [AllDenoms -> Metadata \cup {Nil}]
      <3>1. metadata[pair.denom] \in Metadata
        BY <1>1, <1>2 DEF RegistryInv, TypeOK
      <3>2. [metadata[pair.denom] EXCEPT !.description = new] \in Metadata
        BY <3>1 DEF Metadata
      <3>3. QED
        BY <1>1, <1>2, <3>2 DEF RegistryInv, TypeOK
    <2>2. nonce' \in 0..MaxNonce
      BY ConstantAssumption DEF UpdateTokenPairERC20, ReplacePair, QueryERC20, RegistryInv, TypeOK
    <2>3. denomMap' \in [AllDenoms -> PairIDs \cup {Nil}]
      BY <1>1, <1>2, <1>4 DEF RegistryInv, TypeOK, updated
    <2>4. erc20Map' \in [Addresses -> PairIDs \cup {Nil}]
      BY <1>1, <1>4 DEF RegistryInv, TypeOK, MoveERC20Map, updated
    <2>5. QED
      BY <1>3, <1>6, <2>1, <2>2, <2>3, <2>4 DEF UpdateTokenPairERC20, ReplacePair, RegistryInv, TypeOK
  <1>10. KeyedByID'
    BY <1>6 DEF RegistryInv, KeyedByID
  <1>11. ASSUME NEW d \in AllDenoms, denomMap'[d] # Nil
         PROVE  \E p \in tokenPairs' : GetID(p) = denomMap'[d] /\ p.denom = d
    <2>1. CASE d = pair.denom
      BY <1>3, <1>6, <1>7, <2>1
    <2>2. CASE d # pair.denom
      <3>1. PICK p \in tokenPairs : GetID(p) = denomMap[d] /\ p.denom = d
        BY <1>7, <1>11, <2>2 DEF RegistryInv, IndexSound
      <3>2. GetID(p) # GetID(pair) /\ GetID(p) # GetID(updated)
        BY <1>2, <1>3, <2>2, <3>1, IDFacts DEF RegistryInv, TypeOK
      <3>3. QED
        BY <1>6, <1>7, <2>2, <3>1, <3>2
    <2>3. QED
      BY <2>1, <2>2
  <1>12. ASSUME NEW a \in Addresses, erc20Map'[a] # Nil
         PROVE  \E p \in tokenPairs' : GetID(p) = erc20Map'[a] /\ GetERC20Contract(p) = a
    <2>1. CASE a = new
      BY <1>3, <1>6, <1>8, <2>1
    <2>2. CASE a # new
      <3>1. a # old /\ erc20Map'[a] = erc20Map[a]
        BY <1>8, <1>12, <2>2
      <3>2. PICK p \in tokenPairs : GetID(p) = erc20Map[a] /\ GetERC20Contract(p) = a
        BY <1>12, <3>1 DEF RegistryInv, IndexSound
      <3>3. GetID(p) # GetID(pair) /\ GetID(p) # GetID(updated)
        BY <1>2, <1>3, <1>5, <2>2, <3>1, <3>2, IDFacts DEF RegistryInv, TypeOK
      <3>4. QED
        BY <1>6, <3>1, <3>2, <3>3
    <2>3. QED
      BY <2>1, <2>2
  <1>13. QED
    BY <1>9, <1>10, <1>11, <1>12 DEF RegistryInv, IndexSound

\* A restart preserves the invariant.
LEMMA RestartInv ==
    ASSUME RegistryInv, Restart
    PROVE  RegistryInv'
  <1>1. tokenPairs \in SUBSET TokenPair
    BY DEF RegistryInv, TypeOK
  <1>0. PICK last \in LastByContract(tokenPairs) : erc20Map' = LoadERC20Map(last)
    BY DEF Restart
  <1>2. TypeOK'
    BY <1>0, <1>1, LoadFacts, LastFacts DEF Restart, RegistryInv, TypeOK
  <1>3. KeyedByID'
    BY DEF Restart, RegistryInv, KeyedByID
  <1>4. IndexSound'
    <2>1. ASSUME NEW d \in AllDenoms, denomMap'[d] # Nil
          PROVE  \E p \in tokenPairs' : GetID(p) = denomMap'[d] /\ p.denom = d
      BY <1>1, <2>1, LoadFacts DEF Restart
    <2>2. ASSUME NEW a \in Addresses, erc20Map'[a] # Nil
          PROVE  \E p \in tokenPairs' : GetID(p) = erc20Map'[a] /\ GetERC20Contract(p) = a
      BY <1>0, <1>1, <2>2, LastFacts DEF Restart
    <2>3. QED
      BY <2>1, <2>2 DEF IndexSound
  <1>5. QED
    BY <1>2, <1>3, <1>4 DEF RegistryInv

\* Every step preserves the invariant.
LEMMA RegistryInvNext == RegistryInv /\ [Next]_vars => RegistryInv'
  <1> SUFFICES ASSUME RegistryInv, [Next]_vars PROVE RegistryInv'
    OBVIOUS
  <1>1. ASSUME NEW enable \in BOOLEAN, SetParams(enable) PROVE RegistryInv'
    BY <1>1 DEF SetParams, maps, RegistryInv, TypeOK, KeyedByID, IndexSound
  <1>2. ASSUME NEW proposal \in CoinProposals, RegisterCoin(proposal[1], proposal[2])
        PROVE  RegistryInv'
    BY <1>2, RegisterCoinInv
  <1>3. ASSUME NEW contract \in Addresses, RegisterERC20(contract) PROVE RegistryInv'
    BY <1>3, RegisterERC20Inv
  <1>4. ASSUME NEW token \in AllDenoms \cup Addresses, ToggleRelay(token) PROVE RegistryInv'
    BY <1>4, ToggleRelayInv
  <1>5. ASSUME NEW old \in Addresses, NEW new \in Addresses, UpdateTokenPairERC20(old, new)
        PROVE  RegistryInv'
    BY <1>5, UpdateInv
  <1>6. CASE Restart
    BY <1>6, RestartInv
  <1>7. CASE UNCHANGED vars
    BY <1>7 DEF vars, RegistryInv, TypeOK, KeyedByID, IndexSound
  <1>8. QED
    BY <1>1, <1>2, <1>3, <1>4, <1>5, <1>6, <1>7 DEF Next

\* The registry's stores keep their types, whatever governance decides.
THEOREM TypeCorrect == Spec => []TypeOK
  <1>1. RegistryInv => TypeOK
    BY DEF RegistryInv
  <1>2. QED
    BY <1>1, RegistryInvInit, RegistryInvNext, PTL DEF Spec

\* Whatever the genesis file and the sequence of governance operations and of
\* restarts, an id found in a map leads to the stored pair that has that key.
THEOREM IndexAlwaysSound == Spec => []IndexSound
  <1>1. RegistryInv => IndexSound
    BY DEF RegistryInv
  <1>2. QED
    BY <1>1, RegistryInvInit, RegistryInvNext, PTL DEF Spec
-----------------------------------------------------------------------------
(* One pair per denomination.                                              *)

DenomInv == RegistryInv /\ OnePairPerDenom /\ PairsHaveMetadata

\* The genesis file gives each pair the entry of its denomination and metadata.
LEMMA DenomInvInit ==
    ASSUME CompleteGenesis, Init
    PROVE  DenomInv
  <1>1. PICK genesis \in GenesisStates :
          GenesisValidate(genesis.tokenPairs) /\ InitGenesis(genesis) /\ metadata = genesis.metadata
    BY DEF Init
  <1>2. tokenPairs = genesis.tokenPairs /\ tokenPairs \in SUBSET TokenPair
    BY <1>1, ConstantAssumption DEF InitGenesis
  <1>3. ASSUME NEW p \in tokenPairs PROVE denomMap[p.denom] = GetID(p)
    <2>1. PICK q \in tokenPairs : LoadDenomMap(tokenPairs)[p.denom] = GetID(q) /\ q.denom = p.denom
      BY <1>2, LoadFacts
    <2>2. q = p
      BY <1>1, <1>2, <2>1 DEF GenesisValidate
    <2>3. QED
      BY <1>1, <1>2, <2>1, <2>2 DEF InitGenesis
  <1>4. PairsHaveMetadata
    BY <1>1, <1>2 DEF CompleteGenesis, PairsHaveMetadata
  <1>5. QED
    BY <1>3, <1>4, RegistryInvInit DEF DenomInv, OnePairPerDenom

\* Writing a pair whose denomination had no metadata keeps the pairs apart.
LEMMA AddPairDenomInv ==
    ASSUME DenomInv, NEW pair \in TokenPair, AddPair(pair),
           metadata[pair.denom] = Nil, NEW md \in Metadata,
           metadata' = [metadata EXCEPT ![pair.denom] = md]
    PROVE  OnePairPerDenom' /\ PairsHaveMetadata'
  <1>1. pair.denom \in AllDenoms
    BY DEF TokenPair
  <1>2. tokenPairs' = {p \in tokenPairs : GetID(p) # GetID(pair)} \cup {pair}
    BY DEF AddPair, SetTokenPair, DeleteTokenPair
  <1>3. \A p \in tokenPairs : p.denom \in AllDenoms /\ p.denom # pair.denom
    BY DEF DenomInv, PairsHaveMetadata, RegistryInv, TypeOK, TokenPair
  <1>4. OnePairPerDenom'
    BY <1>1, <1>2, <1>3 DEF DenomInv, OnePairPerDenom, AddPair, RegistryInv, TypeOK
  <1>5. md # Nil
    BY ConstantAssumption
  <1>6. PairsHaveMetadata'
    BY <1>1, <1>2, <1>3, <1>5 DEF DenomInv, PairsHaveMetadata, RegistryInv, TypeOK
  <1>7. QED
    BY <1>4, <1>6

\* A denomination that RegisterCoin registers has no metadata, hence no pair.
LEMMA DenomInvRegisterCoin ==
    ASSUME DenomInv, NEW proposal \in CoinProposals, RegisterCoin(proposal[1], proposal[2])
    PROVE  OnePairPerDenom' /\ PairsHaveMetadata'
  <1> DEFINE pair == NewTokenPair(CreateAddress(nonce), proposal[1], "OWNER_MODULE")
  <1>1. proposal[1] \in AllDenoms /\ proposal[2] \in Metadata
    BY NameFacts, ConstantAssumption
  <1>2. CreateAddress(nonce) \in Addresses
    BY NameFacts DEF DenomInv, RegistryInv, TypeOK
  <1>3. pair \in TokenPair /\ pair.denom = proposal[1]
    BY <1>1, <1>2, NameFacts, NewPairFacts
  <1>4. metadata[proposal[1]] = Nil
    BY DEF RegisterCoin, verifyMetadata, equalMetadata, SamePointers
  <1>5. QED
    <2>1. AddPair(pair) /\ metadata' = [metadata EXCEPT ![proposal[1]] = proposal[2]]
      BY DEF RegisterCoin
    <2> HIDE DEF pair
    <2>2. QED
      BY <1>1, <1>3, <1>4, <2>1, AddPairDenomInv

\* A denomination made from a contract that has no metadata has no pair.
LEMMA DenomInvRegisterERC20 ==
    ASSUME DenomInv, NEW contract \in Addresses, RegisterERC20(contract)
    PROVE  OnePairPerDenom' /\ PairsHaveMetadata'
  <1> DEFINE pair == NewTokenPair(contract, CreateDenom(contract), "OWNER_EXTERNAL")
  <1>1. CreateDenom(contract) \in AllDenoms
    BY NameFacts
  <1>2. pair \in TokenPair /\ pair.denom = CreateDenom(contract)
    BY <1>1, NameFacts, NewPairFacts
  <1>3. /\ metadata[CreateDenom(contract)] = Nil
        /\ metadata' = [metadata EXCEPT ![CreateDenom(contract)] = CoinMetadata(contract)]
        /\ AddPair(pair)
    BY DEF RegisterERC20, CreateCoinMetadata
  <1>4. CoinMetadata(contract) \in Metadata
    <2>1. erc20[contract] \in ERC20Data
      BY DEF RegisterERC20, CreateCoinMetadata, QueryERC20, DenomInv, RegistryInv, TypeOK
    <2>2. QED
      BY <1>1, <2>1 DEF CoinMetadata, Metadata, ERC20Data, MetadataNames
  <1> HIDE DEF pair
  <1>5. QED
    BY <1>2, <1>3, <1>4, AddPairDenomInv

\* An update keeps the denomination and its metadata, and moves its entry.
LEMMA DenomInvUpdate ==
    ASSUME DenomInv, NEW old \in Addresses, NEW new \in Addresses,
           UpdateTokenPairERC20(old, new)
    PROVE  OnePairPerDenom' /\ PairsHaveMetadata'
  <1>1. PICK pair \in tokenPairs :
          /\ GetID(pair) = erc20Map[old]
          /\ metadata[pair.denom] # Nil
          /\ metadata' = [metadata EXCEPT ![pair.denom].description = new]
          /\ tokenPairs' = SetTokenPair(DeleteTokenPair(tokenPairs, pair), UpdatedPair(pair, new))
          /\ denomMap' = [denomMap EXCEPT ![pair.denom] = GetID(UpdatedPair(pair, new))]
    BY DEF UpdateTokenPairERC20, ReplacePair
  <1> DEFINE updated == UpdatedPair(pair, new)
  <1>2. pair \in TokenPair /\ pair.denom \in AllDenoms
    BY DEF DenomInv, RegistryInv, TypeOK, TokenPair
  <1>3. updated \in TokenPair /\ updated.denom = pair.denom
    BY <1>2, UpdatedPairFacts
  <1>4. /\ denomMap' = [denomMap EXCEPT ![pair.denom] = GetID(updated)]
        /\ tokenPairs' = {p \in tokenPairs : GetID(p) # GetID(pair) /\ GetID(p) # GetID(updated)}
                           \cup {updated}
    BY <1>1 DEF SetTokenPair, DeleteTokenPair
  <1> HIDE DEF updated
  <1>5. \A p \in tokenPairs : p.denom \in AllDenoms /\ (p.denom = pair.denom => GetID(p) = GetID(pair))
    BY DEF DenomInv, OnePairPerDenom, RegistryInv, TypeOK, TokenPair
  <1>6. OnePairPerDenom'
    BY <1>2, <1>3, <1>4, <1>5 DEF DenomInv, OnePairPerDenom, RegistryInv, TypeOK
  <1>7. \A d \in AllDenoms : metadata[d] # Nil => metadata'[d] # Nil
    <2>1. metadata[pair.denom] \in Metadata
      BY <1>1, <1>2 DEF DenomInv, RegistryInv, TypeOK
    <2>2. [metadata[pair.denom] EXCEPT !.description = new] \in Metadata
      BY <2>1 DEF Metadata
    <2>3. QED
      BY <1>1, <1>2, <2>2, ConstantAssumption DEF DenomInv, RegistryInv, TypeOK
  <1>8. PairsHaveMetadata'
    BY <1>1, <1>2, <1>3, <1>4, <1>5, <1>7 DEF DenomInv, PairsHaveMetadata
  <1>9. QED
    BY <1>6, <1>8

\* Every step keeps one pair per denomination.
LEMMA DenomInvNext == DenomInv /\ [Next]_vars => DenomInv'
  <1> SUFFICES ASSUME DenomInv, [Next]_vars PROVE OnePairPerDenom' /\ PairsHaveMetadata'
    BY RegistryInvNext DEF DenomInv
  <1> USE DEF DenomInv
  <1>1. ASSUME NEW enable \in BOOLEAN, SetParams(enable)
        PROVE  OnePairPerDenom' /\ PairsHaveMetadata'
    BY <1>1 DEF SetParams, maps, OnePairPerDenom, PairsHaveMetadata
  <1>2. ASSUME NEW proposal \in CoinProposals, RegisterCoin(proposal[1], proposal[2])
        PROVE  OnePairPerDenom' /\ PairsHaveMetadata'
    BY <1>2, DenomInvRegisterCoin
  <1>3. ASSUME NEW contract \in Addresses, RegisterERC20(contract)
        PROVE  OnePairPerDenom' /\ PairsHaveMetadata'
    BY <1>3, DenomInvRegisterERC20
  <1>4. ASSUME NEW token \in AllDenoms \cup Addresses, ToggleRelay(token)
        PROVE  OnePairPerDenom' /\ PairsHaveMetadata'
    <2>1. PICK pair \in tokenPairs :
            tokenPairs' = SetTokenPair(tokenPairs, [pair EXCEPT !.enabled = ~@])
      BY <1>4 DEF ToggleRelay
    <2> DEFINE toggled == [pair EXCEPT !.enabled = ~@]
    <2>2. toggled.denom = pair.denom /\ GetID(toggled) = GetID(pair)
      BY ToggledPairFacts DEF RegistryInv, TypeOK
    <2> HIDE DEF toggled
    <2>3. tokenPairs' \subseteq tokenPairs \cup {toggled}
      BY <2>1 DEF SetTokenPair, DeleteTokenPair, toggled
    <2>4. QED
      BY <1>4, <2>2, <2>3 DEF ToggleRelay, maps, OnePairPerDenom, PairsHaveMetadata
  <1>5. ASSUME NEW old \in Addresses, NEW new \in Addresses, UpdateTokenPairERC20(old, new)
        PROVE  OnePairPerDenom' /\ PairsHaveMetadata'
    BY <1>5, DenomInvUpdate
  <1>6. CASE Restart
    <2>1. ASSUME NEW p \in tokenPairs PROVE LoadDenomMap(tokenPairs)[p.denom] = GetID(p)
      <3>1. PICK q \in tokenPairs :
              LoadDenomMap(tokenPairs)[p.denom] = GetID(q) /\ q.denom = p.denom
        BY LoadFacts DEF RegistryInv, TypeOK
      <3>2. GetID(q) = GetID(p)
        BY <3>1 DEF OnePairPerDenom
      <3>3. QED
        BY <3>1, <3>2
    <2>2. QED
      BY <1>6, <2>1 DEF Restart, OnePairPerDenom, PairsHaveMetadata
  <1>7. CASE UNCHANGED vars
    BY <1>7 DEF vars, OnePairPerDenom, PairsHaveMetadata
  <1>8. QED
    BY <1>1, <1>2, <1>3, <1>4, <1>5, <1>6, <1>7 DEF Next

\* When every pair of the genesis file has bank metadata, no two pairs ever
\* share a denomination, although RegisterCoin checks the wrong field: the
\* metadata that verifyMetadata refuses to accept twice stands in for it.
THEOREM DenomAlwaysUnique == CompleteGenesis => (Spec => []OnePairPerDenom)
  <1> SUFFICES ASSUME CompleteGenesis PROVE Spec => []OnePairPerDenom
    OBVIOUS
  <1>1. Init => DenomInv
    BY DenomInvInit
  <1>2. DenomInv => OnePairPerDenom
    BY DEF DenomInv
  <1>3. QED
    BY <1>1, <1>2, DenomInvNext, PTL DEF Spec
-----------------------------------------------------------------------------
(* One pair per contract, until an update shares one.                      *)

AheadInv == RegistryInv /\ NothingAhead

\* None of the contracts of a genesis file is one the module will deploy.
LEMMA AheadInvInit == Init => AheadInv
  <1> SUFFICES ASSUME Init PROVE AheadInv
    OBVIOUS
  <1>1. PICK genesis \in GenesisStates :
          /\ InitGenesis(genesis)
          /\ erc20 = [a \in Addresses |-> IF a \in Contracts THEN UserERC20[a] ELSE Nil]
          /\ nonce = 0
    BY DEF Init
  <1>2. \A p \in tokenPairs : GetERC20Contract(p) \in Contracts
    BY <1>1, ConstantAssumption DEF InitGenesis
  <1>3. \A n \in 0..MaxNonce : CreateAddress(n) \in Addresses /\ CreateAddress(n) \notin Contracts
    BY NameFacts, AddressAssumption
  <1>4. NothingAhead
    BY <1>1, <1>2, <1>3 DEF NothingAhead
  <1>5. QED
    BY <1>4, RegistryInvInit DEF AheadInv

\* Writing a pair whose contract had none keeps the pairs apart.
LEMMA AddPairContracts ==
    ASSUME AheadInv, OnePairPerContract, NEW pair \in TokenPair, AddPair(pair),
           \A p \in tokenPairs : GetERC20Contract(p) # GetERC20Contract(pair)
    PROVE  OnePairPerContract'
  <1>1. tokenPairs' \subseteq tokenPairs \cup {pair}
    BY DEF AddPair, SetTokenPair, DeleteTokenPair
  <1>2. \A p \in tokenPairs \cup {pair} : GetERC20Contract(p) \in Addresses
    BY DEF AheadInv, RegistryInv, TypeOK, TokenPair, GetERC20Contract, HexToAddress, HexStrings
  <1>3. QED
    BY <1>1, <1>2 DEF AheadInv, OnePairPerContract, AddPair, RegistryInv, TypeOK

\* Deploying a coin's contract takes the first of the addresses ahead.
LEMMA ContractRegisterCoin ==
    ASSUME AheadInv, NEW proposal \in CoinProposals, RegisterCoin(proposal[1], proposal[2])
    PROVE  NothingAhead' /\ (OnePairPerContract => OnePairPerContract')
  <1> DEFINE pair == NewTokenPair(CreateAddress(nonce), proposal[1], "OWNER_MODULE")
  <1>1. proposal[1] \in AllDenoms /\ nonce \in 0..MaxNonce /\ nonce \in nonce..MaxNonce
    BY NameFacts, ConstantAssumption DEF AheadInv, RegistryInv, TypeOK
  <1>2. CreateAddress(nonce) \in Addresses
    BY <1>1, NameFacts
  <1>3. pair \in TokenPair /\ GetERC20Contract(pair) = CreateAddress(nonce)
    BY <1>1, <1>2, NameFacts, NewPairFacts
  <1>4. AddPair(pair)
    BY DEF RegisterCoin
  <1> HIDE DEF pair
  <1>5. \A p \in tokenPairs : GetERC20Contract(p) # GetERC20Contract(pair)
    BY <1>1, <1>3 DEF AheadInv, NothingAhead
  <1>6. OnePairPerContract => OnePairPerContract'
    BY <1>3, <1>4, <1>5, AddPairContracts
  <1>7. ASSUME NEW n \in nonce'..MaxNonce
        PROVE  /\ erc20'[CreateAddress(n)] = Nil
               /\ \A p \in tokenPairs' : GetERC20Contract(p) # CreateAddress(n)
    <2>1. n \in nonce..MaxNonce /\ n \in 0..MaxNonce /\ n # nonce
      BY <1>1, ConstantAssumption DEF RegisterCoin
    <2>2. CreateAddress(n) # CreateAddress(nonce)
      BY <1>1, <2>1, AddressAssumption
    <2>3. tokenPairs' \subseteq tokenPairs \cup {pair}
      BY <1>4 DEF AddPair, SetTokenPair, DeleteTokenPair
    <2>4. \A a \in Addresses : a # CreateAddress(nonce) => erc20'[a] = erc20[a]
      BY <1>2 DEF RegisterCoin, AheadInv, RegistryInv, TypeOK
    <2>5. CreateAddress(n) \in Addresses
      BY <2>1, NameFacts
    <2>6. QED
      BY <1>3, <2>1, <2>2, <2>3, <2>4, <2>5 DEF AheadInv, NothingAhead
  <1>8. QED
    BY <1>6, <1>7 DEF NothingAhead

\* A contract that RegisterERC20 registers has an ERC20 token and no entry.
LEMMA ContractRegisterERC20 ==
    ASSUME AheadInv, NEW contract \in Addresses, RegisterERC20(contract)
    PROVE  NothingAhead' /\ (OnePairPerContract => OnePairPerContract')
  <1> DEFINE pair == NewTokenPair(contract, CreateDenom(contract), "OWNER_EXTERNAL")
  <1>1. pair \in TokenPair /\ GetERC20Contract(pair) = contract
    BY NameFacts, NewPairFacts
  <1>2. AddPair(pair)
    BY DEF RegisterERC20
  <1> HIDE DEF pair
  <1>3. \A p \in tokenPairs : GetID(p) # Nil
    BY IDFacts DEF AheadInv, RegistryInv, TypeOK
  <1>4. OnePairPerContract =>
          \A p \in tokenPairs : GetERC20Contract(p) # GetERC20Contract(pair)
    BY <1>1, <1>3 DEF RegisterERC20, IsERC20Registered, OnePairPerContract
  <1>5. OnePairPerContract => OnePairPerContract'
    BY <1>1, <1>2, <1>4, AddPairContracts
  <1>6. nonce \in 0..MaxNonce /\ nonce' = nonce + 3 /\ erc20' = erc20 /\ erc20[contract] # Nil
    BY DEF RegisterERC20, CreateCoinMetadata, QueryERC20, AheadInv, RegistryInv, TypeOK
  <1>7. tokenPairs' \subseteq tokenPairs \cup {pair}
    BY <1>2 DEF AddPair, SetTokenPair, DeleteTokenPair
  <1>8. NothingAhead'
    <2>1. nonce'..MaxNonce \subseteq nonce..MaxNonce
      BY <1>6, ConstantAssumption
    <2>2. QED
      BY <1>1, <1>6, <1>7, <2>1 DEF AheadInv, NothingAhead
  <1>9. QED
    BY <1>5, <1>8

\* An update to an address without an entry gives the pair an address no other
\* pair has; the entry of the address it leaves is deleted.
LEMMA ContractUpdate ==
    ASSUME AheadInv, NEW old \in Addresses, NEW new \in Addresses,
           UpdateTokenPairERC20(old, new)
    PROVE  /\ NothingAhead'
           /\ OnePairPerContract /\ (new = old \/ ~IsERC20Registered(new)) => OnePairPerContract'
  <1>1. PICK pair \in tokenPairs :
          /\ GetID(pair) = erc20Map[old]
          /\ tokenPairs' = SetTokenPair(DeleteTokenPair(tokenPairs, pair), UpdatedPair(pair, new))
          /\ erc20Map' = MoveERC20Map(erc20Map, old, new, GetID(UpdatedPair(pair, new)))
    BY DEF UpdateTokenPairERC20, ReplacePair
  <1> DEFINE updated == UpdatedPair(pair, new)
  <1>2. pair \in TokenPair
    BY DEF AheadInv, RegistryInv, TypeOK
  <1>3. updated \in TokenPair /\ GetERC20Contract(updated) = new
    BY <1>2, UpdatedPairFacts
  <1>4. tokenPairs' = {p \in tokenPairs : GetID(p) # GetID(pair) /\ GetID(p) # GetID(updated)}
                        \cup {updated}
    BY <1>1 DEF SetTokenPair, DeleteTokenPair
  <1>5. \A a \in Addresses :
          erc20Map'[a] = IF a = new THEN GetID(updated)
                         ELSE IF a = old THEN Nil ELSE erc20Map[a]
    BY <1>1 DEF AheadInv, RegistryInv, TypeOK, MoveERC20Map
  <1> HIDE DEF updated
  <1>6. \A p \in tokenPairs : GetID(p) # Nil /\ GetERC20Contract(p) \in Addresses
    BY IDFacts DEF AheadInv, RegistryInv, TypeOK, TokenPair, GetERC20Contract,
                   HexToAddress, HexStrings
  <1>7. ASSUME OnePairPerContract, new = old \/ ~IsERC20Registered(new),
               NEW p \in tokenPairs, GetID(p) # GetID(pair)
        PROVE  GetERC20Contract(p) # old /\ GetERC20Contract(p) # new
    <2>1. erc20Map[GetERC20Contract(p)] = GetID(p)
      BY <1>7 DEF OnePairPerContract
    <2>2. new = old \/ erc20Map[new] = Nil
      BY <1>7 DEF IsERC20Registered
    <2>3. QED
      BY <1>1, <1>6, <1>7, <2>1, <2>2
  <1>8. ASSUME OnePairPerContract, new = old \/ ~IsERC20Registered(new)
        PROVE  OnePairPerContract'
    <2>1. ASSUME NEW p \in tokenPairs' PROVE erc20Map'[GetERC20Contract(p)] = GetID(p)
      <3>1. CASE p = updated
        BY <1>3, <1>5, <3>1
      <3>2. CASE p \in tokenPairs /\ GetID(p) # GetID(pair)
        BY <1>5, <1>6, <1>7, <1>8, <3>2 DEF OnePairPerContract
      <3>3. QED
        BY <1>4, <3>1, <3>2
    <2>2. QED
      BY <2>1 DEF OnePairPerContract
  <1>9. nonce \in 0..MaxNonce /\ nonce' = nonce + 3 /\ erc20' = erc20 /\ erc20[new] # Nil
    BY DEF UpdateTokenPairERC20, QueryERC20, AheadInv, RegistryInv, TypeOK
  <1>10. NothingAhead'
    <2>1. nonce'..MaxNonce \subseteq nonce..MaxNonce
      BY <1>9, ConstantAssumption
    <2>2. QED
      BY <1>3, <1>4, <1>9, <2>1 DEF AheadInv, NothingAhead
  <1>11. QED
    BY <1>8, <1>10

\* Rebuilding the maps gives each pair the entry of its contract.
LEMMA ContractRestart ==
    ASSUME AheadInv, Restart
    PROVE  NothingAhead' /\ (OnePairPerContract => OnePairPerContract')
  <1>1. PICK last \in LastByContract(tokenPairs) : erc20Map' = LoadERC20Map(last)
    BY DEF Restart
  <1>2. ASSUME OnePairPerContract, NEW p \in tokenPairs
        PROVE  erc20Map'[GetERC20Contract(p)] = GetID(p)
    <2>1. PICK q \in tokenPairs :
            /\ LoadERC20Map(last)[GetERC20Contract(p)] = GetID(q)
            /\ GetERC20Contract(q) = GetERC20Contract(p)
      BY LastFacts DEF AheadInv, RegistryInv, TypeOK
    <2>2. QED
      BY <1>1, <1>2, <2>1 DEF OnePairPerContract
  <1>3. QED
    BY <1>2 DEF Restart, AheadInv, OnePairPerContract, NothingAhead

\* What OnlyUpdatesShareContracts says of one step.
SharedByUpdate ==
    OnePairPerContract /\ ~OnePairPerContract' =>
        \E old, new \in Addresses :
            /\ UpdateTokenPairERC20(old, new)
            /\ new # old
            /\ IsERC20Registered(new)

\* Every step but such an update keeps one pair per contract.
LEMMA ContractNext == AheadInv /\ [Next]_vars => AheadInv' /\ SharedByUpdate
  <1> SUFFICES ASSUME AheadInv, [Next]_vars PROVE NothingAhead' /\ SharedByUpdate
    BY RegistryInvNext DEF AheadInv
  <1>1. ASSUME NEW enable \in BOOLEAN, SetParams(enable)
        PROVE  NothingAhead' /\ SharedByUpdate
    BY <1>1 DEF SetParams, maps, AheadInv, OnePairPerContract, NothingAhead, SharedByUpdate
  <1>2. ASSUME NEW proposal \in CoinProposals, RegisterCoin(proposal[1], proposal[2])
        PROVE  NothingAhead' /\ SharedByUpdate
    BY <1>2, ContractRegisterCoin DEF SharedByUpdate
  <1>3. ASSUME NEW contract \in Addresses, RegisterERC20(contract)
        PROVE  NothingAhead' /\ SharedByUpdate
    BY <1>3, ContractRegisterERC20 DEF SharedByUpdate
  <1>4. ASSUME NEW token \in AllDenoms \cup Addresses, ToggleRelay(token)
        PROVE  NothingAhead' /\ SharedByUpdate
    <2>1. PICK pair \in tokenPairs :
            tokenPairs' = SetTokenPair(tokenPairs, [pair EXCEPT !.enabled = ~@])
      BY <1>4 DEF ToggleRelay
    <2> DEFINE toggled == [pair EXCEPT !.enabled = ~@]
    <2>2. GetERC20Contract(toggled) = GetERC20Contract(pair) /\ GetID(toggled) = GetID(pair)
      BY ToggledPairFacts DEF AheadInv, RegistryInv, TypeOK
    <2> HIDE DEF toggled
    <2>3. tokenPairs' \subseteq tokenPairs \cup {toggled}
      BY <2>1 DEF SetTokenPair, DeleteTokenPair, toggled
    <2>4. NothingAhead' /\ (OnePairPerContract => OnePairPerContract')
      BY <1>4, <2>2, <2>3 DEF ToggleRelay, maps, AheadInv, OnePairPerContract, NothingAhead
    <2>5. QED
      BY <2>4 DEF SharedByUpdate
  <1>5. ASSUME NEW old \in Addresses, NEW new \in Addresses, UpdateTokenPairERC20(old, new)
        PROVE  NothingAhead' /\ SharedByUpdate
    BY <1>5, ContractUpdate DEF SharedByUpdate
  <1>6. CASE Restart
    BY <1>6, ContractRestart DEF SharedByUpdate
  <1>7. CASE UNCHANGED vars
    BY <1>7 DEF vars, AheadInv, OnePairPerContract, NothingAhead, SharedByUpdate
  <1>8. QED
    BY <1>1, <1>2, <1>3, <1>4, <1>5, <1>6, <1>7 DEF Next

\* Whatever the genesis file, only an update that names a contract registered
\* for another pair can end that each pair is the one its contract leads to: no
\* registration does, also not of a coin, whose contract is never looked up.
THEOREM SharedOnlyByUpdates == Spec => OnlyUpdatesShareContracts
  <1>1. QED
    BY AheadInvInit, ContractNext, PTL DEF Spec, OnlyUpdatesShareContracts, SharedByUpdate
-----------------------------------------------------------------------------
(* Restart.                                                                *)

\* The map by denomination is a function of the stored pairs.
LEMMA DenomMapDetermined ==
    ASSUME DenomInv
    PROVE  denomMap = LoadDenomMap(tokenPairs)
  <1>1. denomMap \in [AllDenoms -> PairIDs \cup {Nil}] /\ tokenPairs \in SUBSET TokenPair
    BY DEF DenomInv, RegistryInv, TypeOK
  <1>2. ASSUME NEW d \in AllDenoms PROVE denomMap[d] = LoadDenomMap(tokenPairs)[d]
    <2>1. CASE \E p \in tokenPairs : p.denom = d
      <3>1. PICK p \in tokenPairs : p.denom = d
        BY <2>1
      <3>2. PICK q \in tokenPairs : LoadDenomMap(tokenPairs)[d] = GetID(q) /\ q.denom = d
        BY <1>1, <3>1, LoadFacts
      <3>3. QED
        BY <3>2 DEF DenomInv, OnePairPerDenom
    <2>2. CASE ~\E p \in tokenPairs : p.denom = d
      <3>1. denomMap[d] = Nil
        BY <2>2 DEF DenomInv, RegistryInv, IndexSound
      <3>2. LoadDenomMap(tokenPairs)[d] = Nil
        BY <1>1, <2>2, LoadFacts
      <3>3. QED
        BY <3>1, <3>2
    <2>3. QED
      BY <2>1, <2>2
  <1>3. LoadDenomMap(tokenPairs) \in [AllDenoms -> PairIDs \cup {Nil}]
    BY <1>1, LoadFacts
  <1>4. QED
    BY <1>1, <1>2, <1>3

\* What RestartKeepsEntries says of one step.
EntriesKept ==
    /\ denomMap' = denomMap
    /\ \A a \in Addresses :
          erc20Map[a] # Nil => erc20Map'[a] = erc20Map[a] \/ Shared(a)
    /\ \A p \in tokenPairs : erc20Map'[GetERC20Contract(p)] # Nil

\* With metadata for the pairs of genesis, little is lost by not exporting the
\* maps, whatever updates came before: InitGenesis rebuilds every entry but
\* those of contracts that several pairs share.
THEOREM RestartAlwaysKeepsEntries == CompleteGenesis => (Spec => RestartKeepsEntries)
  <1> SUFFICES ASSUME CompleteGenesis PROVE Spec => RestartKeepsEntries
    OBVIOUS
  <1>1. Init => DenomInv
    BY DenomInvInit
  <1>2. DenomInv => (Restart => EntriesKept)
    <2> SUFFICES ASSUME DenomInv, Restart PROVE EntriesKept
      OBVIOUS
    <2>1. PICK last \in LastByContract(tokenPairs) : erc20Map' = LoadERC20Map(last)
      BY DEF Restart
    <2>2. tokenPairs \in SUBSET TokenPair
      BY DEF DenomInv, RegistryInv, TypeOK
    <2>3. ASSUME NEW p \in tokenPairs
          PROVE  \E q \in tokenPairs : /\ erc20Map'[GetERC20Contract(p)] = GetID(q)
                                       /\ GetERC20Contract(q) = GetERC20Contract(p)
      BY <2>1, <2>2, LastFacts
    <2>4. ASSUME NEW a \in Addresses, erc20Map[a] # Nil
          PROVE  erc20Map'[a] = erc20Map[a] \/ Shared(a)
      <3>1. PICK p \in tokenPairs : GetID(p) = erc20Map[a] /\ GetERC20Contract(p) = a
        BY <2>4 DEF DenomInv, RegistryInv, IndexSound
      <3>2. PICK q \in tokenPairs : erc20Map'[a] = GetID(q) /\ GetERC20Contract(q) = a
        BY <2>3, <3>1
      <3>3. QED
        BY <3>1, <3>2 DEF Shared
    <2>5. ASSUME NEW p \in tokenPairs PROVE erc20Map'[GetERC20Contract(p)] # Nil
      BY <2>2, <2>3, IDFacts
    <2>6. denomMap' = denomMap
      BY DenomMapDetermined DEF Restart
    <2>7. QED
      BY <2>4, <2>5, <2>6 DEF EntriesKept
  <1>3. QED
    BY <1>1, <1>2, DenomInvNext, PTL DEF Spec, RestartKeepsEntries, EntriesKept

\* What PairsPersist says of one step.
PairsKept ==
    \A p \in tokenPairs : \E q \in tokenPairs' :
        /\ q.denom = p.denom
        /\ q.contractOwner = p.contractOwner
        /\ q.enabled = p.enabled \/ q.erc20Address = p.erc20Address

\* A pair is never lost by a registration, a toggle, an update or a restart:
\* the only pair a new one may overwrite is the one it replaces.
THEOREM PairsAlwaysPersist == CompleteGenesis => (Spec => PairsPersist)
  <1> SUFFICES ASSUME CompleteGenesis PROVE Spec => PairsPersist
    OBVIOUS
  <1>1. Init => DenomInv
    BY DenomInvInit
  <1>2. DenomInv /\ [Next]_vars => PairsKept
    <2> SUFFICES ASSUME DenomInv, [Next]_vars PROVE PairsKept
      OBVIOUS
    <2>1. \A p \in tokenPairs : p \in TokenPair /\ p.denom \in AllDenoms
      BY DEF DenomInv, RegistryInv, TypeOK, TokenPair
    <2>2. ASSUME NEW pair, AddPair(pair), \A p \in tokenPairs : GetID(p) # GetID(pair)
          PROVE  PairsKept
      BY <2>2 DEF AddPair, SetTokenPair, DeleteTokenPair, PairsKept
    <2>3. ASSUME NEW proposal \in CoinProposals, RegisterCoin(proposal[1], proposal[2])
          PROVE  PairsKept
      <3> DEFINE pair == NewTokenPair(CreateAddress(nonce), proposal[1], "OWNER_MODULE")
      <3>1. pair.denom = proposal[1] /\ metadata[proposal[1]] = Nil
        BY <2>3 DEF NewTokenPair, RegisterCoin, verifyMetadata, equalMetadata, SamePointers
      <3>2. AddPair(pair)
        BY <2>3 DEF RegisterCoin
      <3> HIDE DEF pair
      <3>3. \A p \in tokenPairs : GetID(p) # GetID(pair)
        BY <3>1 DEF DenomInv, PairsHaveMetadata, GetID
      <3>4. QED
        BY <2>2, <3>2, <3>3
    <2>4. ASSUME NEW contract \in Addresses, RegisterERC20(contract) PROVE PairsKept
      <3> DEFINE pair == NewTokenPair(contract, CreateDenom(contract), "OWNER_EXTERNAL")
      <3>1. pair.denom = CreateDenom(contract) /\ metadata[CreateDenom(contract)] = Nil
        BY <2>4 DEF NewTokenPair, RegisterERC20, CreateCoinMetadata
      <3>2. AddPair(pair)
        BY <2>4 DEF RegisterERC20
      <3> HIDE DEF pair
      <3>3. \A p \in tokenPairs : GetID(p) # GetID(pair)
        BY <3>1 DEF DenomInv, PairsHaveMetadata, GetID
      <3>4. QED
        BY <2>2, <3>2, <3>3
    <2>5. ASSUME NEW token \in AllDenoms \cup Addresses, ToggleRelay(token) PROVE PairsKept
      <3>1. PICK pair \in tokenPairs :
              tokenPairs' = SetTokenPair(tokenPairs, [pair EXCEPT !.enabled = ~@])
        BY <2>5 DEF ToggleRelay
      <3> DEFINE toggled == [pair EXCEPT !.enabled = ~@]
      <3>2. /\ toggled.denom = pair.denom
            /\ toggled.contractOwner = pair.contractOwner
            /\ toggled.erc20Address = pair.erc20Address
            /\ GetID(toggled) = GetID(pair)
        BY <2>1, ToggledPairFacts
      <3> HIDE DEF toggled
      <3>3. tokenPairs' = {p \in tokenPairs : GetID(p) # GetID(pair)} \cup {toggled}
        BY <3>1, <3>2 DEF SetTokenPair, DeleteTokenPair, toggled
      <3>4. \A p \in tokenPairs : GetID(p) = GetID(pair) => p = pair
        BY DEF DenomInv, RegistryInv, KeyedByID
      <3>5. QED
        BY <3>2, <3>3, <3>4 DEF PairsKept
    <2>6. ASSUME NEW old \in Addresses, NEW new \in Addresses, UpdateTokenPairERC20(old, new)
          PROVE  PairsKept
      <3>1. PICK pair \in tokenPairs :
              tokenPairs' = SetTokenPair(DeleteTokenPair(tokenPairs, pair), UpdatedPair(pair, new))
        BY <2>6 DEF UpdateTokenPairERC20, ReplacePair
      <3> DEFINE updated == UpdatedPair(pair, new)
      <3>2. /\ updated.denom = pair.denom
            /\ updated.contractOwner = pair.contractOwner
            /\ updated.enabled = pair.enabled
        BY <2>1, UpdatedPairFacts
      <3>3. tokenPairs' = {p \in tokenPairs : GetID(p) # GetID(pair) /\ GetID(p) # GetID(updated)}
                            \cup {updated}
        BY <3>1 DEF SetTokenPair, DeleteTokenPair
      <3> HIDE DEF updated
      <3>4. ASSUME NEW p \in tokenPairs, GetID(p) = GetID(pair) \/ GetID(p) = GetID(updated)
            PROVE  p = pair
        <4>1. p.denom = pair.denom
          BY <3>2, <3>4 DEF GetID
        <4>2. GetID(p) = GetID(pair)
          BY <4>1 DEF DenomInv, OnePairPerDenom
        <4>3. QED
          BY <4>2 DEF DenomInv, RegistryInv, KeyedByID
      <3>5. QED
        BY <3>2, <3>3, <3>4 DEF PairsKept
    <2>7. CASE UNCHANGED tokenPairs
      BY <2>7 DEF PairsKept
    <2>8. QED
      BY <2>3, <2>4, <2>5, <2>6, <2>7 DEF Next, SetParams, Restart, vars
  <1>3. QED
    BY <1>1, <1>2, DenomInvNext, PTL DEF Spec, PairsPersist, PairsKept
=============================================================================
