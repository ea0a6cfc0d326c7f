# Specifications of the intrarelayer chain

TLA+ modules for the state machines of this repository, the TLC runs that check
them on small instances and the TLAPS proofs that hold for every instance.
`PROJECT.json` lists the runs, the mutants that show each property can fail, the
lines of code behind each definition (`map`), the disagreements found between
code and documentation, and the hazards the properties are for.

The repository is an application of the Cosmos SDK with an EVM (ethermint). Its
own code is the module `x/intrarelayer`, which pairs native coins with ERC20
contracts and converts between them, the application in `app/`, the commands in
`cmd/genesisd`, and scripts for operating a node. Everything else is vendored.

## 1. Inventory

### Token pair registry (`x/intrarelayer/keeper/token_pairs.go`, `proposals.go`, `genesis.go`)

* State: three prefix stores. Pairs by id, where the id is a hash of address
  and denomination; id by ERC20 address; id by denomination. The two maps are
  kept up to date by hand in every operation. Beside them the bank's metadata of
  a denomination, and the sequence number of the module account, which decides
  the address of the next contract the module deploys.
* Operations, all called by governance: `RegisterCoin`, `RegisterERC20`,
  `ToggleRelay`, `UpdateTokenPairERC20`; `InitGenesis` and `ExportGenesis`.
* Hard: a pair's id changes when its address does, so three stores have to be
  changed in the right order; duplicates are looked for under one key and
  registered under another; an export holds the pairs and not the maps.
* Correct means: a lookup never leads to another pair than the one asked for, no
  denomination and no contract has two pairs, no pair is lost, and a restart
  from an export gives the same maps.

### Conversion (`keeper/msg_server.go`, `mint.go`, `evm.go`, `evm_hooks.go`)

* State: balances and supplies, in the bank for coins and in contracts for
  tokens; the switches `EnableIntrarelayer`, `EnableEVMHook`, `Enabled` of a
  pair, and the bank's send switch.
* Operations: `ConvertCoin` and `ConvertERC20`, each with a case for pairs whose
  contract the module owns and a case for external contracts;
  `PostTxProcessing`, which the EVM calls after an Ethereum transaction with its
  logs and which converts what was transferred to the module account.
* Hard: two ledgers have to agree; the hook works through several logs after all
  their transfers have happened, ignores some failures and returns others, and
  an error must take back what earlier logs did in both ledgers.
* Correct means: what has been issued is backed by what is escrowed in every
  state, nobody gains by converting, holders can convert back, nothing sent to
  the module account is stuck, a disabled pair is not converted.

### Governance (`keeper/gov_hooks.go`, `proposal_handler.go`, `app/app.go`)

* State: proposals, the two time-ordered queues of the SDK's gov module,
  deposits, and the voting period parameters of gov and of the intrarelayer.
* Operations: submission (with a trial run of the handler), deposits, the hook
  `AfterProposalDeposit` that moves the end of the vote on a registration, the
  EndBlocker that drops and tallies, and the execution of a passed proposal.
* Hard: a queue entry's key contains the end time that the hook changes; hook
  and `AddDeposit` each hold a copy of the proposal; parameters can change while
  votes run; a panic in the EndBlocker stops every node.
* Correct means: each open proposal is in one queue at its own end time, is
  decided once and in the end, deposits are accounted for, the chain does not
  halt.

### Transaction counter (`app/tps_counter.go`)

* State: two atomic counters, and the local variables of a reporting goroutine.
* Operations: `DeliverTx` adds to a counter; on a tick the reporter loads both,
  records the differences and keeps the loaded values.
* Hard: the goroutines interleave between the loads; unsigned counters and a
  signed difference.
* Correct means: each transaction is recorded once, and in the end.

### Export for height zero (`app/export.go`)

* State: the stores of distribution (periods, reference counts, starting infos,
  slash events, what is outstanding), of staking (validators, shares, power
  index, unbonding and redelegation entries) and of slashing (signing infos).
* Operation: `prepForZeroHeightGenesis`, in passes: assert the invariants,
  withdraw all commissions and rewards, clear the history, reinitialise
  validators and delegations at height zero, reset the heights of entries,
  validators and signing infos, jail whoever is not on the allow list, apply the
  validator set.
* Hard: the passes undo and rebuild what x/distribution normally changes one
  delegation at a time; errors of the withdrawals are ignored; whether the result
  is right shows only once a chain has run on from it and been slashed.
* Correct means: the export goes through, only fractions go to the community
  pool, the bonded validators stay, no height lies ahead of the new chain, and
  the new chain pays everybody without a panic.

### Node operation scripts (`setup/`, `utils/backup/create.sh`)

* State: directories (the node's, the old one's, the backups'), each with a
  consensus key, the last signed height (`priv_validator_state.json`) and a
  database; the service; the backup directory and options of the script that runs.
* Operations: `node-setup-wizard.sh`, `quick-node-setup.sh`, `upgrade.sh` and
  `utils/backup/create.sh`, command by command; start of the service; signing.
* Hard: nothing stops at a failing command, a script may be interrupted anywhere,
  and the next one starts from what it left; moving the database takes the
  signing state along. A key that runs with an older signing state can sign a
  height twice.
* Correct means: a key that has signed is somewhere on disk together with a
  signing state that knows all of it, and a wizard that ends gives it back.

### Not modelled, or only in part

| Part | Why |
| --- | --- |
| `app/app.go` wiring | What decides behaviour is a constant of the module it bears on (`KeeperWired`, `HooksSet`, `BlockedAddrs`). |
| `types/msg.go`, `types/proposal.go` | Field checks, one message at a time; what they let through enters as sets. |
| `cmd/genesisd`, `cmd/config` | Files, keys, flags. `genaccounts.go` is a sequential edit of one file that is written at the end. |
| `client/`, `grpc_query.go`, `module.go`, `handler.go`, `keeper.go` | Reads, routing and registration, without decisions. |
| `utils/key`, `utils/info`, `utils/tools`, `utils/fetch`, `setup/dependencies.sh` | Print, install, download or edit one file. |
| `*.pb.go`, `*.pb.gw.go` | Generated. |
| `client/docs/swagger-ui`, `docs/.vuepress` | The repository's only JavaScript and Vue files: minified third-party bundles and the presentation of the documentation. They hold none of the program's state and take none of its decisions, so there is nothing in them to model. The program is written in Go and shell, and that is what `map` refers to. |
| `vendor/` | Only what the repository's own code runs inside: the gov module's queues, the bank's transfers, the frame of an Ethereum transaction, distribution, staking's delegations and validator set, slashing for downtime, the private validator's files. |

### How the parts interact

Governance executes the registry's operations; the conversion looks pairs up in
the registry and reads their `Enabled` flag; the EVM calls the conversion's hook;
gov calls the voting period hook; the application builds all keepers, runs the
EndBlockers and counts transactions. `Conversion` takes a set of pairs whose flag governance
toggles and, in `PairUpdate`, whose contract it replaces; `Governance` takes the
result of a keeper operation as a choice. The export reads what the chain's
modules have stored, and the scripts run the binary that serves and signs.

## 2. Modules

| Module | Models | EXTENDS |
| --- | --- | --- |
| `TokenRegistry` | the registry | |
| `MCTokenRegistry` | contracts, coins, genesis files for TLC | `TokenRegistry` |
| `TokenRegistryProofs` | theorems | `TokenRegistry`, TLAPS |
| `Bridge` | what conversion promises, abstractly: reserve and claims | |
| `Conversion` | messages, Ethereum transactions, the EVM hook | instantiates `Bridge` |
| `MCConversion` | users, pairs, balances for TLC | `Conversion` |
| `PairUpdate` | conversion composed with the registry's update of a pair's contract | `Conversion`, instantiates `Bridge` |
| `MCPairUpdate` | the same instance with updates, to be run by hand | `PairUpdate` |
| `ConversionProofs` | theorems: types and backing | `Conversion`, TLAPS |
| `BridgeProofs` | theorems: refinement, what is switched off, sums, what the module account holds | `PairUpdate`, `ConversionProofs`, instantiates `FoldTheorems` |
| `Governance` | proposals, queues, the voting period hook | |
| `GovernanceProofs` | theorems | `Governance`, TLAPS |
| `TPSCounter` | the counter and its reporter | |
| `TPSCounterProofs` | theorems | `TPSCounter`, TLAPS |
| `Distribution` | x/distribution's rewards, in decimals of `Prec` | |
| `ZeroHeightExport` | a chain of validators and delegations, its export for height zero, the chain that starts from it | `Distribution` |
| `MCZeroHeightExport` | operators and allow lists for TLC | `ZeroHeightExport` |
| `ZeroHeightExportProofs` | theorems | `ZeroHeightExport`, TLAPS, instantiates `FoldTheorems` |
| `NodeSetup` | the scripts that set up, back up and upgrade a node | |
| `NodeSetupProofs` | theorems | `NodeSetup`, TLAPS |
| `FoldTheorems` | induction over finite sets and over the folds of the community modules | TLAPS |

### Correspondence with the code

**Atomicity.** A message or a proposal handler runs in a cache context that is
dropped when it returns an error. An error return is therefore an action that is
not enabled, and a successful call is one step. Two things are not one step: an
Ethereum transaction with the hook (`BeginEthereumTx`, one `ERC20Transfer` per
transfer, one `PostTxProcessing` per log, then commit or `Revert` to the ledger
saved at the start), and the EndBlocker (one step per queue entry). In both the
intermediate states are where the hazards are. The reporter of `TPSCounter` has
one step per atomic load, since `DeliverTx` runs in another goroutine.

**TokenRegistry.** One action per keeper operation, with the calls it makes:
`RegisterCoin` deploys a contract at the address of the module account's
sequence number and takes that number; `QueryERC20` makes three calls and takes
three. Store entries are functions with `Nil` for absent. An id is the pair of
its two arguments, i.e. SHA256 is taken to be injective. A stored address is a
string, so it has a spelling besides its value, which is what the genesis check
compares. `equalMetadata` compares pointers of freshly unmarshalled units and so
never finds two metadata equal; the model has that. `Restart` is an export
followed by `InitGenesis` from the exported file.

**Conversion.** Contracts are their balances. Contracts the module deploys
transfer exactly; of external ones `ExactTransfer` says which do, and another may
deliver less than it is told. `HooksSet` says whether the EVM keeper was given
the hook: `app.go` does not do it. `ConvertibleDenom` says which denominations
`MsgConvertCoin` accepts: those of the coins, and those an external pair of the
genesis file may have, but not the `intrarelayer/0x...` that `RegisterERC20`
makes. Decoding of logs is left out: a log of the model is a Transfer of a
registered contract with a positive amount.

**Governance.** The SDK's queues and EndBlocker are modelled from the vendored
source because the hook writes into them. Votes are left out: a tally comes out
either way. `Handler` says how a proposal handler ends given how the keeper's
operation would: with the keeper that `app.go` hands over before it is built
(`KeeperWired` false) it panics, and the handler for ERC20 registrations always
panics on success because `RegisterERC20` returns no pair.

**PairUpdate.** An update gives the pair a contract with balances of its own;
what the module holds in the former contract is kept in `former`, since nothing
in the code reaches it any more: `Bridge` counts it as reserve, though no message
releases it. The model's updates name contracts in which the module has no
balance; an update back to a former contract, which the code allows, is not
modelled. Both specifications are shown to implement
`Bridge` through a refinement mapping (`INSTANCE Bridge WITH reserve <- ...,
claims <- ...`): in `Conversion` the reserve of a pair is what the module
account holds, in `PairUpdate` also what it holds in former contracts.

**Distribution and ZeroHeightExport.** Amounts are integers of `1/Prec`, and
`Mul`, `MulTruncate`, `Quo`, `QuoTruncate`, `QuoRoundUp` round as `sdk.Dec` does,
with banker's rounding: the stake sanity check of `CalculateDelegationRewards`
and the rest that goes to the community pool depend on it. A panic of a pure
operator sets `panicked` in the store it returns. A block is `BeginBlock` (fees to
a validator that voted), slashes for downtime, transactions, `EndBlock`. `KeyCut` is
the number of bytes the export cuts off a validator's key: 1 in the code, and 2 in
the run `export`, so that chains go on from an export and what lies beyond the
keys is looked at (`HeightsNotAhead` of the new chain, its withdrawals and its
slashes). With 1 the export of a chain with a validator ends in a panic
(`export_key`). `RebuildKeepsBooks` is about what the export has made of
x/distribution before it reads a key, so it holds with either. Left out: operators undelegating their own
stake, and with it the removal of validators; undelegating part of a delegation;
evidence, and slashes that reach back to unbonding and redelegation entries; ends
of unbonding. The power in a vote is that of an earlier block, and is taken from
`Powers` freely, which includes more than the chain would produce.

**NodeSetup.** One action per command that changes a key, a signing state or a
database. Commands themselves succeed (the binary is installed, `mv` stays on
one file system); `Interrupt` ends a script between two of them or in the middle
of `rm -rf`. The service does not run while a script does, apart from its end.
`forgone` holds the keys that a script says it resets or replaces, or whose
backup directory was named again with `--backup-dir` while it held another key
or a later state.

**TPSCounter.** `Width` is 64 in the code and small in the runs, so that the
counters wrap around.

## 3. Runs

Bounds are named in each module's CONSTANTS.

| Run | Checks | Result |
| --- | --- | --- |
| `registry` | `TypeOK`, `IndexSound`, `OnePairPerDenom`, `PairsPersist`, `OnlyUpdatesShareContracts`, `RestartKeepsEntries` | hold |
| `registry_update` | `OnePairPerContract` | violated: an update gives a pair the contract of another one |
| `conversion` | `TypeOK`, `CoinsBackTokens`, `TokensBackCoins`, `SupplyIsSum`, `EscrowExact`, `HookFindsTransfer`, `Redeemable`, `NoWealthCreated`, `DisabledPairFrozen`, `RelayerOffOneWay`, `ImplementsBridge`; hook set | hold |
| `conversion_unhooked` | `EscrowExact` as the application is wired | violated: transferred tokens are stuck |
| `conversion_denom` | `Redeemable` with the denomination `RegisterERC20` makes | violated: its holders cannot convert back |
| `governance` | `TypeOK`, `QueueConsistent`, `DepositsAccountedFor`, `NeverHalts`, `DecidedOnce`, `RegistrationPeriod`, `Resolved`; keeper wired | hold |
| `governance_app` | `CoinProposable` with the keeper `app.go` hands over | violated: no proposal of the module can be submitted |
| `tps` | `TypeOK`, `SuccessesRecordedOnce`, `NeverOverReported`, `SuccessesRecorded` | hold |
| `tps_failures` | `FailuresRecordedOnce` | violated: successes are recorded as failures |
| `export` | `TypeOK`, `ReferencesCounted`, `HoldingsBacked`, `NeverPanics`, `HeightsNotAhead`, `RebuildKeepsBooks`, `ScrapsAreFractions`, `ExportKeepsBonded`; two bytes cut off a validator's key, so that chains go on | hold |
| `export_key` | `ExportSucceeds` with the keys read as in the code | violated: no chain with a validator can be exported |
| `node_setup` | `TypeOK`, `Recoverable`, `RestoresSigningState` | hold |

The violated ones are findings, quoted in `PROJECT.json` with the sentence of the
documentation, comment or message they contradict.

### Bounds, and why they are enough

* Registry: three user contracts, two of which present the same name, symbol and
  decimals, so that updates between them pass the metadata checks; two coins,
  proposals with Name equal to Base and different from it, and sequence numbers
  up to 10, which is two registrations and updates in both directions, or a
  deployment between two of them. Updates name any contract, also another pair's.
  Genesis files without pairs, with one, and, in `registry`, with two pairs that
  spell one address in two ways; `registry_update` leaves the last one out, so
  that only operations can make two pairs share a contract.
* Conversion: one pair of each owner, two users, two units of each, and
  transactions of up to two transfers: enough for a transfer to the module
  beside another, for a pair disabled between two transactions, for a log of a
  disabled pair after one that was converted, and for part of the balance to be
  on each side.
* Governance: two proposals, two values of each period, and time up to 7, with
  gaps of one or two between blocks. Two proposals are needed for a parameter
  change to pass while another vote runs. `RoomAssumption` makes sure that no
  proposal is open when time comes to its bound.
* Export: two validators that compete for one place, so that a delegation or a
  slash changes the bonded set; a delegator beside the two operators; three
  blocks and three transactions, divided in any way between the chain before the
  export and the one after it. A validator is slashed at most from the second
  block on (`SignedBlocksWindow`), with powers above and below its present stake,
  so that a slash may take everything. `Prec` is 100 and the rates are chosen so
  that shares, rewards and slashes do not come out even. `MaxPeriod` bounds the
  keys of the historical rewards and no action: `PeriodAssumption` leaves room for
  the periods of all blocks and transactions and of withdrawing everything, and
  `TypeCorrect` proves that a chain stays below it.
* Node setup: three runs of scripts, three keys, two dated backups beside the
  named one, two heights. Three runs are a backup, a run that is interrupted, and
  one that follows it.
* Counter: three bits and ten transactions, so that the counter wraps around
  once and goes on.

`PairUpdate.cfg` is an instance of `PairUpdate` that no run of `PROJECT.json`
repeats, since `UpdatesImplementBridge` proves what it checks: the conversion's
instance as the application is wired, with one update of the external pair and
transactions of one transfer. An update falls before, between and after
conversions in both directions, with the relayer and the pair on or off.

`CHECK_DEADLOCK FALSE` is set in the registry and conversion runs, where sequence
numbers run out by the bound and users may have nothing to do, in the counter's,
where the reporter may be stopped, in the export's, where blocks run out and an
export may fail, and in the scripts', where runs and heights do.

### Fairness

`Governance!FairSpec` assumes weak fairness of the block's own steps: consensus
goes on making blocks, and a block ends. Nothing is assumed of users: nobody
need deposit or vote. `TPSCounter!FairSpec` assumes that the reporter's goroutine
is scheduled and its ticker ticks; nothing of `DeliverTx`, nor that the context
is cancelled. The other specifications state safety only.

### What the runs have to say beyond holding

* `OnePairPerDenom` holds by accident. `RegisterCoin` looks the metadata's *Name*
  up and registers its *Base*; a second registration is only turned down because
  the bank has metadata for the denomination and `equalMetadata` never finds two
  metadata equal. Its mutant, a comparison by value, breaks the property. For the
  same reason a genesis file whose pair has no bank metadata allows a second
  registration (`CompleteGenesis` rules this out), and a coin that has bank
  metadata already cannot be registered.
* `UpdateTokenPairERC20` does not look the new address up, so two pairs come to
  share a contract (`registry_update`), although `spec/01_concepts.md` speaks of a
  one-to-one mapping. One of the two is then left without an entry by contract,
  and the exported file no longer validates if both spell the address alike. What
  `registry` adds is how far that goes: such an update is the only operation that does
  it (`OnlyUpdatesShareContracts`), the entries that are there still lead to a pair
  with the key (`IndexSound`), no denomination gets a second pair and no pair is
  lost, and a restart, which rebuilds the maps from the pairs in the order of their
  ids, changes the entries of shared contracts only (`RestartKeepsEntries`). Its
  order is left open in the model, so that any of the sharing pairs may win.
* A genesis file may spell an address in two ways: `Validate` compares strings, the
  map's keys are bytes. Such a file starts with a shared contract, and all the
  properties of `registry` hold from it.
* `spec/07_parameters.md` says that with `EnableIntrarelayer` off all conversion is
  prevented. The hook looks at `EnableEVMHook` and not at that parameter, so in the
  run `conversion`, where the hook is set, tokens transferred to the module are
  converted all the same. `RelayerOffOneWay` says what the parameter does: no coin
  becomes a token, and tokens become coins only through an enabled hook. (In the
  application the hook is not set, and nothing is converted.)
* `HookFindsTransfer` is about the branches of the hook that log an error and go on:
  that the burn and the send of a module-owned pair cannot fail for want of a balance,
  however many logs of a transaction share one. Failures of other causes, such as the
  EVM running out of gas in the burn, are not modelled.
* The documentation gives equalities where the code keeps inequalities: a holder
  may burn tokens of a module-owned contract, which leaves escrowed coins that
  nobody has a claim on. `CoinsBackTokens` is the part that holds.
* `TokensBackCoins` needs contracts that transfer what they are told:
  `convertERC20NativeToken` mints the amount asked for.
* Behind `governance_app` there is a second defect: with a keeper that is set up,
  `RegisterERC20` returns no pair on success and the handler reads its fields
  (`proposal_handler.go:56`), so the trial run of an ERC20 registration panics.
  That is why no such proposal is ever stored and `NeverHalts` holds.
* After an update of a pair's contract, `Redeemable` and `TokensBackCoins` fail for
  the coins issued before: the escrow is in the former contract.
  `ImplementsBridgeAcrossUpdates` says that nothing worse happens.
* Behind `export_key` there is another defect: with an allow list the export panics
  when a validator it jails is visited in the power index, from which it is not
  removed. It is reached only once keys read right. And although the flag
  `--jail-allowed-addrs` is described as a list of "jailed validators to unjail",
  the code unjails nobody.
* `Recoverable` has exceptions, and `forgone` names them: a static `--backup-dir`
  that is used again loses what it held before the new backup is complete.
  An interruption of the wizard between restoring the key and restoring the
  signing state leaves a node that starts with the state of genesis or not at
  all; the full state is then in the backup only.
* The hook moves the votes on registrations only; votes on toggling or updating a
  pair keep gov's period, unlike `spec/05_hooks.md` says.

## 4. Proofs

`tlapm` proves these for every value of the constants that satisfies the
assumptions (`ASSUME` in the modules, evaluated by TLC in the runs).

| Module | Theorem | Statement |
| --- | --- | --- |
| `TokenRegistryProofs` | `TypeCorrect` | `Spec => []TypeOK` |
| | `IndexAlwaysSound` | `Spec => []IndexSound` |
| | `DenomAlwaysUnique` | `CompleteGenesis => (Spec => []OnePairPerDenom)` |
| | `PairsAlwaysPersist` | `CompleteGenesis => (Spec => PairsPersist)` |
| | `SharedOnlyByUpdates` | `Spec => OnlyUpdatesShareContracts` |
| | `RestartAlwaysKeepsEntries` | `CompleteGenesis => (Spec => RestartKeepsEntries)` |
| `ConversionProofs` | `TypeCorrect` | `Spec => []TypeOK` |
| | `CoinsAlwaysBackTokens` | `Spec => []CoinsBackTokens` |
| | `TokensAlwaysBackCoins` | `ExactTransfer = Pairs => (Spec => []TokensBackCoins)` |
| `BridgeProofs` | `ConversionsImplementBridge` | `ExactTransfer = Pairs => (Spec => ImplementsBridge)` |
| | `UpdatesImplementBridge` | `ExactTransfer = Pairs => (UpdateSpec => ImplementsBridgeAcrossUpdates)` |
| | `OnlyUnhookedEverStrands` | `ExactTransfer = Pairs => (Spec => OnlyUnhookedStrands)` |
| | `SupplyAlwaysSum` | `Spec => []SupplyIsSum` |
| | `HookAlwaysFindsTransfer` | `ExactTransfer = Pairs => (Spec => []HookFindsTransfer)` |
| | `WealthNeverCreated` | `Spec => NoWealthCreated` |
| | `DisabledPairsStayFrozen` | `Spec => DisabledPairFrozen` |
| | `RelayerOffAlwaysOneWay` | `Spec => RelayerOffOneWay` |
| `GovernanceProofs` | `TypeCorrect` | `Spec => []TypeOK` |
| | `QueuesAlwaysConsistent` | `Spec => []QueueConsistent` |
| | `DepositsAlwaysAccountedFor` | `Spec => []DepositsAccountedFor` |
| | `EndBlockerNeverHalts` | `Spec => []NeverHalts` |
| | `DecisionsStand` | `Spec => DecidedOnce` |
| | `RegistrationsGetTheirPeriod` | `Spec => RegistrationPeriod` |
| | `NoModuleProposalUnwired` | `~KeeperWired => (Spec => []NoneFromModule)` |
| | `NoERC20RegistrationStored` | `Spec => []NoERC20Registration` |
| `TPSCounterProofs` | `TypeCorrect` | `Spec => []TypeOK` |
| | `NeverReportsMore` | `Spec => []NeverOverReported` |
| | `SuccessesAlwaysRecordedOnce` | `Spec => []SuccessesRecordedOnce` |
| `ZeroHeightExportProofs` | `TypeCorrect` | `Spec => []TypeOK` |
| | `HeightsNeverAhead` | `Spec => []HeightsNotAhead` |
| | `ExportAlwaysKeepsBonded` | `Spec => ExportKeepsBonded` |
| | `JailedNeverVisited` | `Spec => []~JailedVisited(st)` |
| | `ReferencesAlwaysCounted` | `Spec => []ReferencesCounted` |
| | `HoldingsAlwaysBacked` | `Spec => []HoldingsBacked` |
| | `EveryReferenceCounted` | `Spec => []EachReferenceCounted` |
| | `RebuildAlwaysKeepsBooks` | `Spec => []RebuildKeepsBooks` |
| | `ExportNeverGoesThrough` | `KeyCut = 1 => (Spec => [][phase' = "exported" => Created = {}]_vars)` |
| `NodeSetupProofs` | `TypeCorrect` | `Spec => []TypeOK` |
| | `AlwaysRecoverable` | `Spec => []Recoverable` |
| | `AlwaysRestoresSigningState` | `Spec => RestoresSigningState` |

### Hypotheses and assumptions

Two hypotheses leave out a case the code does not exclude and in which the property
fails; section 3 says how. `CompleteGenesis` is about genesis files and
`ExactTransfer = Pairs` about external contracts. Whether the hook is set
(`HooksSet`) and how the keys are read (`KeyCut`) is open in every theorem but the two
below.

Two hypotheses are the code as it stands, and their theorems say that a finding
is the rule: with `KeyCut = 1` no chain with a validator is ever exported
(`export_key`), and with `~KeeperWired` no proposal of the module is ever stored
(`governance_app`).

The assumptions on constants give their types and, beyond that, say this: users,
validators and delegators are finitely many; addresses, denominations and
sequence numbers are told apart (`AddressAssumption`); the supplies of genesis
are the sums of its balances (`SupplyAssumption`); a slash takes no more than all
(`SlashFractionDowntime \in 0..Prec`); what is delegated is positive, as
`MsgDelegate.ValidateBasic` and `MsgCreateValidator.ValidateBasic` have it, and
what fees give a validator is not negative; `NoInfo` is not a starting info
(`NoInfo \notin StartingInfos`); the directories of the scripts are different
ones. `ModulusAssumption` follows from `Width > 0` and is stated because the
provers know nothing of powers. `PeriodAssumption` is about a bound of the model.

### Arguments

**Registry.** `RegistryInv` is `TypeOK`, `IndexSound` and `KeyedByID` (one pair
per id). The last is needed because an update deletes the pair with an id: were
there two, an entry of the other one would dangle. For the denominations
`DenomInv` adds `OnePairPerDenom` and `PairsHaveMetadata`: a pair's denomination
has metadata, for which `verifyMetadata` turns a second registration down. No
restriction on genesis files or updates is needed for `IndexAlwaysSound`.
For the contracts `AheadInv` adds `NothingAhead` to it: no pair has the address of a
contract that the module is still to deploy, or `RegisterCoin` would take another
pair's entry, since it looks up the denomination only. It needs no uniqueness, so it
goes on holding after an update has shared a contract, and `SharedOnlyByUpdates` has
no hypothesis. A restart leaves each key with the entry of some pair that has it
(`LoadFacts`): the old one where there is only one such pair, which by `DenomInv` is
so for every denomination.

**Conversion.** That escrowed coins back tokens is inductive together with the
types and the same statement about the ledger saved for a revert. That escrowed
tokens back coins is not: while the hook runs, the escrow holds the tokens of
logs whose coins are still to be minted, and the surplus must cover the sum over
those logs. The invariant `Covered` says so through a running total along the log
sequence, as an existential over functions, which needs no recursive definition;
appending a log extends the total, handling one drops its head.

**Refinement.** The variables of `Bridge` are read off the committed ledger, so a
transaction is one step of it, at its commit, and a revert is none. What has to be
shown at the commit is that all steps since the beginning together gave no more
claims than reserve. `BridgeInv` carries that: the reserve that no claim is on is
at least what it was at the beginning, and for external pairs covers the logs
still to come. `UpdatesImplementBridge` reuses it, with what is in former
contracts added to the reserve.

**What the module account holds.** `StrandedInv` is the same running total with an
equality (`Settled`): in a transaction the module holds what is claimed, what was
stranded before, and what the logs still to come have brought. A transaction that
ends without the hook keeps what they brought, and nothing else ever changes what is
stranded; that is `OnlyUnhookedStrands`, for either value of `HooksSet`. (With the hook
set, `EscrowExact` follows; TLC checks it in `conversion`, and its failure as the
application is wired in `conversion_unhooked`.) The theorem is its general form, and no
run lists it.
The first log's share of the total is there to be burned, and `CoinsBackTokens` and the
supply then say that the coins to release are there too: `HookAlwaysFindsTransfer`.

**What is switched off.** `FrozenInv` compares the ledger of the running transaction
with the saved one, pair by pair: a transfer between accounts converts nothing, the
hook converts pairs that are enabled only and to coins only, and it runs only where it is set
and `EnableEVMHook` is on.

**Sums.** `SupplyIsSum` and `NoWealthCreated` speak of sums over users. A sum of
natural numbers over a finite set is the cardinality of a set of pairs
(`IsHeap`), which the fold is shown to compute; with that, moving an amount
changes two terms. `WealthInv` says that while the hook runs the users'
wealth falls short of the saved one by at least what the logs are still to give.
It holds for contracts that deliver less than they are told as well.

**Folds.** `FoldTheorems` has the step of a fold and the property as operator
CONSTANTS. An induction is then an `INSTANCE` of the module: the operators are
substituted before a prover sees the obligation. `FiniteInduction` is proved from
the well-foundedness of strict inclusion, `FoldInduction` from it for the set
folds of the community modules, in whatever order they take the elements. `FoldAny`
says of a fold whose steps commute that any element may be taken last, which is
what splits one term off a sum (`SumSplit`, `SumChanged`).

**Governance.** `Inv` states the queues proposal by proposal (`Queued`, equivalent
to `QueueConsistent` by `QueuedIsConsistent`), the deposits, and three facts that
make them inductive: the entries a loop has yet to visit are still queued
(`TodoQueued`, or the EndBlocker would not find a proposal), ids to come are
unused (`Fresh`), and the handler of a stored proposal does not panic
(`Accepted`). What `ActivateVotingPeriod`, the hook and `AddDeposit` do to one
proposal and its entries is a lemma each, and `OthersKept` says that they touch
no other proposal's entries. `RegistrationsGetTheirPeriod` follows from those
lemmas step by step.

**Counter.** `LagInv` says that behind the reporter's last and latest values stand
the numbers of successes there were when they were loaded, and that what a value
has lost by wrapping around only grows from one load to the next: a difference is
then never more than was delivered between two loads. `OnceInv` is about counters
that do not wrap around: what has been recorded is what was last loaded.

**Export.** `ExportInv` has five parts: the counters; the types of the stores
together with what they rest on (`StateOK`: shares and tokens are natural
numbers, a validator that is not jailed is in the power index, one that was never
created has no shares and no period); who is bonded (`BondsInv`); the heights on record (`RecordsInv`);
and a bound of the periods (`PeriodsInv`).

* Tokens do not become negative because what an undelegation takes is rounded and
  truncated from shares times tokens over all shares, which is at most all tokens
  (lemma `TokensForShares`, from the rounding of `Mul` and `Quo`).
* Between blocks the bonded validators are those that a walk along the power index
  would bond (`Settled`). The export's own walk therefore changes nothing.
* An allow list jails validators that stay in the index. If one were ahead of the
  last place, the first such would be visited in the export, which then panics. So
  in an export that goes through the jailed validators are beyond the walk, and
  leaving them out of the index at the start of the new chain bonds the same
  validators (`JailedDoNotMatter`).
* A transaction ends at most one period of a validator, a block at most one, by a
  slash; a chain that starts from an export has begun two and one for each
  delegation.
* The passes of the export over validators and delegations are folds, and what each
  keeps is an instance of `FoldInduction`.

**Books.** `LedgerInv` adds `Ledger` to `ExportInv`: the books of x/distribution
(`Books`) and that no validator has more tokens than shares (`Covered`). `Books`
speaks of any store and of any set of validators and of delegations that are set
up, not only of those there are, because the passes of an export and the hooks of
a delegation go through stores in which one of them is missing. It has four parts.

* `Apart`: every delegation and every slash refers to a period of its own that has
  ended, and no validator that is not set up has a slash.
* `Counted`: each period has one reference if it is the last one that ended, one
  more if a delegation or a slash needs it, and none otherwise. That is exact, and
  it is what makes `Totalled`, the equation of `ReferenceCountInvariant`, inductive:
  `IncrementValidatorPeriod` drops a record when its count comes to zero, so the
  total alone does not say which records are left. `EveryReferenceCounted` reads off
  that no count passes two and none that is to be decremented is zero.
* `Balanced`: what is outstanding and the community pool together are the module
  account's balance, to the last unit of `Prec`. Every operation moves a decimal
  from one to the other, or takes whole coins from both sides, so no rounding is
  lost whatever was calculated; and nothing is outstanding for a validator that was
  never created.
* `Covered` is needed because x/staking rounds the shares it issues down: only since a
  validator's shares, in units of `Prec`, are at least its tokens does a delegation of
  one token issue any, so that what x/distribution starts is a delegation to staking too.

An operation is one lemma from books to books (`PeriodEndedBooks`,
`DelegationStarted`, `DelegationEnded`, `SlashRecorded`, `CoinsAllocated`,
`CommissionPaid`, `HistoryCleared`, `ValidatorSetUp`); a transaction and each pass
of the export compose them. `AllWithdrawn` and `ExportedBooks` carry the books
through the four passes, and the second also says that the passes after the
withdrawals do not panic: `RebuildAlwaysKeepsBooks`. It is stated of every committed
block and of the books alone, so nothing is assumed of the keys.

**Scripts.** `SetupInv` is the types, `Recoverable`, and two statements by command:
`PhaseInv` says what the backup and the node hold at each command of a script,
from whatever an interrupted script before it left (before `rm -rf` the backup has
the node's key with a state at least as late; once the node is made again its own
state is none or that of genesis), and `WizardInv` follows the key of a wizard that
started from an intact node.

### Only model-checked

* Liveness, `Resolved` and `SuccessesRecorded`, and what speaks of `ENABLED`,
  `Redeemable` and `CoinProposable`: the prover does not handle them.
* `NeverPanics`, but for its last conjunct, which is `JailedNeverVisited`, and for the
  reference counts, which are `EveryReferenceCounted`. What is left is rounding: that
  the stake of a delegation after all slashes exceeds its present one by three units
  at most, and that commissions and rewards never exceed what is outstanding. Each
  slash and each undelegation rounds once more, and we have no bound that holds for any
  number of them whatever `Prec` and the amounts are.
* `ScrapsAreFractions`, which rests on the same: what is outstanding of a validator
  after all withdrawals is less than a coin for each of them.
* `EscrowExact`, of which `OnlyUnhookedEverStrands` is the general form.

## 5. Plan

The parts of the system that keep state are modelled, and what is proved of each is
listed above. What is left to prove are bounds on rounding in the export:

1. `NonNegativeOutstandingInvariant`: that the claims on a validator (its commission,
   its current rewards and the ratio times the stake of each delegation) are at most
   what is outstanding. Stakes, ratios and rewards round down; the value of shares, by
   which a stake is capped and an undelegation paid, rounds to the nearest unit.
2. A bound of the stake check in the number of slashes and undelegations, in place of
   the constant three of the code.
