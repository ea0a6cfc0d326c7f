-------------------------- MODULE ZeroHeightExport --------------------------
(***************************************************************************)
(* A chain of validators and delegations, its export for height zero       *)
(* (app/export.go) and the chain that starts from the exported genesis.    *)
(*                                                                         *)
(* The export runs on a committed state.  It pays out and rebuilds the     *)
(* whole of x/distribution and sets to zero every height that staking and  *)
(* slashing record.  Only a chain run on from the result shows whether     *)
(* that was done right, so the new chain takes the same steps as the old.  *)
(***************************************************************************)
EXTENDS Distribution

CONSTANTS
    Operator,               \* the account of a validator's operator
    SelfDelegation,         \* tokens an operator bonds when creating a validator
    Amounts,                \* tokens of a later delegation
    Rewards,                \* coins a block's fees give to a validator
    Powers,                 \* powers the vote of a validator may carry
    PowerReduction,         \* tokens per unit of power
    SlashFractionDowntime,
    SignedBlocksWindow,
    MaxValidators,
    InitialValidators,      \* created by genesis transactions
    KeyCut,                 \* bytes the export cuts off a validator's key: 1 in the code
    AllowLists,             \* the lists given with --jail-allowed-addrs
    BadAddress,             \* an address that does not parse
    MaxHeight,              \* bound: blocks of one chain
    MaxTxs,                 \* bound: transactions of all chains
    MaxExports              \* bound: exports in a row

NoHeight == -1

ASSUME ExportAssumption ==
    /\ Validators \subseteq Nat /\ IsFiniteSet(Validators)
    /\ IsFiniteSet(Delegators)
    /\ Operator \in [Validators -> Delegators]
    /\ InitialValidators \subseteq Validators
    /\ SelfDelegation \in Nat \ {0}
    /\ Amounts \subseteq Nat \ {0}
    /\ Rewards \subseteq Nat
    /\ Powers \subseteq Nat
    /\ PowerReduction \in Nat \ {0}
    /\ SlashFractionDowntime \in 0..Prec
    /\ MaxValidators \in Nat
    /\ MaxHeight \in Nat
    /\ MaxTxs \in Nat
    /\ MaxExports \in Nat

\* The bound on periods leaves room for one from each transaction, each slash
\* and each delegation, and for those an export ends.
ASSUME PeriodAssumption ==
    MaxPeriod >= 2 + 2 * Cardinality(Delegators) + MaxTxs + MaxHeight

VARIABLES
    k,         \* the store of x/distribution
    st,        \* the store of x/staking, without the entries
    entries,   \* unbonding and redelegation entries: [kind, d, src, dst, height]
    start,     \* StartHeight of a validator's signing info
    height,
    phase,     \* "begun", "txs", "committed", "exported", "failed"
    txs,       \* transactions so far
    exports,   \* exports so far
    allow      \* the allow list of the last export

vars == <<k, st, entries, start, height, phase, txs, exports, allow>>
-----------------------------------------------------------------------------
(* Staking.                                                                *)

CreatedIn(s) == {v \in Validators : s.status[v] # "none"}
Created == CreatedIn(st)
Power(s, v) == s.tokens[v] \div PowerReduction

\* Order of ValidatorsPowerStoreIterator: power, then the smaller address.
Before(s, v, w) ==
    \/ Power(s, v) > Power(s, w)
    \/ Power(s, v) = Power(s, w) /\ v < w

\* The validators that ApplyAndReturnValidatorSetUpdates looks at: at most
\* MaxValidators, and none behind one without power.
Visited(s) ==
    {v \in s.index :
        LET ahead == {w \in s.index : Before(s, w, v)}
        IN  Cardinality(ahead) < MaxValidators /\ \A w \in ahead : Power(s, w) > 0}

JailedVisited(s) == \E v \in Visited(s) : s.jailed[v]

\* A validator that bonds loses nothing; one that is dropped starts to unbond.
ApplyAndReturnValidatorSetUpdates(s, h) ==
    LET bonded == {v \in Visited(s) : Power(s, v) > 0}
        dropped == {v \in Validators : s.status[v] = "bonded"} \ bonded
    IN  [s EXCEPT
            !.status = [v \in Validators |-> IF v \in bonded THEN "bonded"
                                             ELSE IF v \in dropped THEN "unbonding"
                                             ELSE s.status[v]],
            !.unbondingHeight = [v \in Validators |-> IF v \in dropped THEN h ELSE s.unbondingHeight[v]]]

\* AfterValidatorBonded of x/slashing.
SigningInfos(s, infos, h) ==
    [v \in Validators |-> IF s.status[v] = "bonded" /\ infos[v] = NoHeight THEN h ELSE infos[v]]

AddTokensFromDel(s, d, v, amount) ==
    LET issued == IF DelegatorShares(s, v) = 0 THEN ToDec(amount)
                  ELSE (DelegatorShares(s, v) * amount) \div s.tokens[v]
    IN  [s EXCEPT !.tokens[v] = @ + amount, !.shares[<<d, v>>] = @ + issued]

RemoveDelShares(s, d, v) ==
    LET left == DelegatorShares(s, v) - s.shares[<<d, v>>]
        issued == IF left = 0 THEN s.tokens[v] ELSE TruncateInt(TokensFromShares(s, d, v))
    IN  [s EXCEPT !.tokens[v] = @ - issued, !.shares[<<d, v>>] = 0]

InvalidExRate(s, v) == s.tokens[v] = 0 /\ DelegatorShares(s, v) > 0

\* The hooks that Delegate and Unbond call before they change the shares.
BeforeDelegation(kk, s, d, v, h) ==
    IF s.shares[<<d, v>>] > 0 THEN withdrawDelegationRewards(kk, s, d, v, h)
    ELSE IncrementValidatorPeriod(kk, s, v)

\* Delegate, with both of its hooks.
Delegate(state, d, v, amount, h) ==
    LET s == AddTokensFromDel(state.st, d, v, amount)
    IN  [k  |-> initializeDelegation(BeforeDelegation(state.k, state.st, d, v, h), s, d, v, h),
         st |-> s]

\* Unbond, of the whole delegation.
Unbond(state, d, v, h) ==
    [k  |-> BeforeDelegation(state.k, state.st, d, v, h),
     st |-> RemoveDelShares(state.st, d, v)]

\* CreateValidator: the record, its place in the power index, the operator's
\* own delegation.
Create(state, v, h) ==
    Delegate([k  |-> initializeValidator(state.k, v),
              st |-> [state.st EXCEPT !.status[v] = "unbonded", !.index = @ \cup {v}]],
             Operator[v], v, SelfDelegation, h)

NoStaking ==
    [tokens          |-> [v \in Validators |-> 0],
     shares          |-> [e \in Delegators \X Validators |-> 0],
     status          |-> [v \in Validators |-> "none"],
     jailed          |-> [v \in Validators |-> FALSE],
     unbondingHeight |-> [v \in Validators |-> 0],
     index           |-> {}]

\* The first genesis: its transactions create the validators at height 0.
Init ==
    /\ LET genesis == FoldSet(LAMBDA v, s : Create(s, v, 0),
                              [k |-> EmptyStore, st |-> NoStaking], InitialValidators)
       IN  /\ k = genesis.k
           /\ st = ApplyAndReturnValidatorSetUpdates(genesis.st, 0)
    /\ start = SigningInfos(st, [v \in Validators |-> NoHeight], 0)
    /\ entries = {}
    /\ height = 0
    /\ phase = "committed"
    /\ txs = 0
    /\ exports = 0
    /\ allow = {}
-----------------------------------------------------------------------------
(* A block.                                                                *)

Goto(p) == phase' = p /\ UNCHANGED <<exports, allow>>

\* AllocateTokens: to one of the validators that voted.
BeginBlock(v, n) ==
    /\ phase = "committed" /\ height < MaxHeight
    /\ st.status[v] = "bonded"
    /\ height' = height + 1
    /\ k' = AllocateTokensToValidator(k, v, n)
    /\ Goto("begun")
    /\ UNCHANGED <<st, entries, start, txs>>

\* Mutant: more is burned than the validator has left.
BurnAll(v, amount) == amount

\* Slash: "cannot decrease balance below zero".
TokensToBurn(v, amount) == Min({amount, st.tokens[v]})

\* HandleValidatorSignature of a validator that missed too many blocks: slash,
\* then jail.  The power is that of an earlier block.  The infraction lies
\* ahead of every entry that it could reach.
HandleValidatorSignature(v, power) ==
    LET amount == TruncateInt(MulDec(ToDec(power * PowerReduction), SlashFractionDowntime))
        burned == TokensToBurn(v, amount)
        fraction == Min({QuoRoundUp(ToDec(burned), ToDec(st.tokens[v])), Prec})
    IN  /\ phase = "begun"
        /\ st.status[v] = "bonded" /\ ~st.jailed[v]
        /\ height > start[v] + SignedBlocksWindow
        /\ \A e \in entries : e.src = v => e.height < height - 2
        /\ k' = IF st.tokens[v] > 0 THEN updateValidatorSlashFraction(k, st, v, height, fraction)
                ELSE k
        /\ st' = [st EXCEPT !.tokens[v] = @ - burned, !.jailed[v] = TRUE, !.index = @ \ {v}]
        /\ Goto("begun")
        /\ UNCHANGED <<entries, start, height, txs>>

\* Mutant: a block without transactions leaves the validators as they are.
EndBlockIfTxs ==
    /\ phase \in {"begun", "txs"}
    /\ st' = IF phase = "txs" THEN ApplyAndReturnValidatorSetUpdates(st, height) ELSE st
    /\ start' = SigningInfos(st', start, height)
    /\ Goto("committed")
    /\ UNCHANGED <<k, entries, height, txs>>

EndBlock ==
    /\ phase \in {"begun", "txs"}
    /\ ~JailedVisited(st)
    /\ st' = ApplyAndReturnValidatorSetUpdates(st, height)
    /\ start' = SigningInfos(st', start, height)
    /\ Goto("committed")
    /\ UNCHANGED <<k, entries, height, txs>>
-----------------------------------------------------------------------------
(* Transactions.                                                           *)

Transaction ==
    /\ phase \in {"begun", "txs"}
    /\ txs < MaxTxs
    /\ txs' = txs + 1
    /\ Goto("txs")
    /\ UNCHANGED <<start, height>>

MsgCreateValidator(v) ==
    /\ Transaction
    /\ st.status[v] = "none"
    /\ LET created == Create([k |-> k, st |-> st], v, height)
       IN  k' = created.k /\ st' = created.st
    /\ UNCHANGED entries

MsgDelegate(d, v, amount) ==
    /\ Transaction
    /\ v \in Created /\ ~InvalidExRate(st, v)
    /\ LET delegated == Delegate([k |-> k, st |-> st], d, v, amount, height)
       IN  k' = delegated.k /\ st' = delegated.st
    /\ UNCHANGED entries

\* Of a delegation that is not the operator's own.
MsgUndelegate(d, v) ==
    /\ Transaction
    /\ st.shares[<<d, v>>] > 0 /\ d # Operator[v] /\ ~InvalidExRate(st, v)
    /\ LET unbound == Unbond([k |-> k, st |-> st], d, v, height)
       IN  k' = unbound.k /\ st' = unbound.st
    /\ entries' = entries \cup
        {[kind |-> "unbonding", d |-> d, src |-> v, dst |-> v, height |-> height]}

\* getBeginInfo: no entry is left when the source is unbonded.
MsgBeginRedelegate(d, src, dst) ==
    LET unbound == Unbond([k |-> k, st |-> st], d, src, height)
        amount == st.tokens[src] - unbound.st.tokens[src]
        redelegated == Delegate(unbound, d, dst, amount, height)
        from == IF st.status[src] = "bonded" THEN height ELSE st.unbondingHeight[src]
    IN  /\ Transaction
        /\ src # dst /\ dst \in Created
        /\ st.shares[<<d, src>>] > 0 /\ d # Operator[src] /\ ~InvalidExRate(st, src)
        /\ ~\E e \in entries : e.kind = "redelegation" /\ e.d = d /\ e.dst = src
        /\ amount > 0 /\ ~InvalidExRate(st, dst)
        /\ k' = redelegated.k
        /\ st' = redelegated.st
        /\ entries' = entries \cup
            IF st.status[src] = "unbonded" THEN {}
            ELSE {[kind |-> "redelegation", d |-> d, src |-> src, dst |-> dst, height |-> from]}

MsgWithdrawDelegatorReward(d, v) ==
    /\ Transaction
    /\ st.shares[<<d, v>>] > 0
    /\ k' = WithdrawDelegationRewards(k, st, d, v, height)
    /\ UNCHANGED <<st, entries>>

MsgWithdrawValidatorCommission(v) ==
    /\ Transaction
    /\ k.commission[v] > 0
    /\ k' = WithdrawValidatorCommission(k, v)
    /\ UNCHANGED <<st, entries>>

\* A validator that was jailed in this block is still bonded, and its time in
\* jail is not over.
MsgUnjail(v) ==
    /\ Transaction
    /\ st.jailed[v] /\ st.status[v] # "bonded"
    /\ TruncateInt(TokensFromShares(st, Operator[v], v)) >= 1
    /\ st' = [st EXCEPT !.jailed[v] = FALSE, !.index = @ \cup {v}]
    /\ UNCHANGED <<k, entries>>
-----------------------------------------------------------------------------
(* The export.                                                             *)

AssertInvariants ==
    /\ ReferenceCountInvariant(k, st, Created)
    /\ NonNegativeOutstandingInvariant(k)
    /\ ModuleAccountInvariant(k)
    /\ CanWithdrawInvariant(k, st, Created, height)

\* Mutant: the slash events stay.
ClearHistoryOnly(kk) ==
    [kk EXCEPT !.historical = [v \in Validators |-> [p \in Periods |-> Absent]]]

\* DeleteAllValidatorSlashEvents and DeleteAllValidatorHistoricalRewards.
ClearHistory(kk) ==
    [kk EXCEPT !.slashes = [v \in Validators |-> {}],
               !.historical = [v \in Validators |-> [p \in Periods |-> Absent]]]

\* Mutant: the fractions are dropped with the record of what is outstanding.
DropScraps(kk, validators) ==
    FoldSet(LAMBDA v, s : initializeValidator(s, v), kk, validators)

\* What is still outstanding goes to the community pool; AfterValidatorCreated.
ReinitializeValidators(kk, validators) ==
    FoldSet(LAMBDA v, s : initializeValidator([s EXCEPT !.pool = @ + s.outstanding[v]], v),
            kk, validators)

\* Mutant: the periods of the validators are not ended.
ReinitializeWithoutPeriods(kk) ==
    FoldSet(LAMBDA e, s : initializeDelegation(s, st, e[1], e[2], 0), kk, Delegations(st))

\* Mutant: under the height of the export instead of zero.
ReinitializeAtExportHeight(kk) ==
    FoldSet(LAMBDA e, s : initializeDelegation(IncrementValidatorPeriod(s, st, e[2]),
                                               st, e[1], e[2], height),
            kk, Delegations(st))

\* BeforeDelegationCreated and AfterDelegationModified, at height zero.
ReinitializeDelegations(kk) ==
    FoldSet(LAMBDA e, s : initializeDelegation(IncrementValidatorPeriod(s, st, e[2]),
                                               st, e[1], e[2], 0),
            kk, Delegations(st))

ExportedDistribution ==
    ReinitializeDelegations(
        ReinitializeValidators(ClearHistory(WithdrawAll(k, st, Created, height)), Created))

\* Mutant: the entries of redelegations keep their height.
ResetUnbonding(es) ==
    {IF e.kind = "unbonding" THEN [e EXCEPT !.height = 0] ELSE e : e \in es}

ResetCreationHeights(es) == {[e EXCEPT !.height = 0] : e \in es}

\* The key of a validator is a prefix byte, a length byte and the address.
ValidatorKey(v) == <<"prefix", "length", v>>

AddressOfKey(key) == SubSeq(key, KeyCut + 1, Len(key))
KeyFound(v) == AddressOfKey(ValidatorKey(v)) = <<v>>

\* The power index stays as it is.
ResetValidators(s, list) ==
    [s EXCEPT
        !.unbondingHeight = [v \in Validators |-> 0],
        !.jailed = [v \in Validators |->
                      s.jailed[v] \/ (v \in CreatedIn(s) /\ list # {} /\ v \notin list)]]

ExportError(list) == BadAddress \in list \/ \E v \in Created : ~KeyFound(v)
ExportPanic(list) ==
    \/ ~AssertInvariants
    \/ ExportedDistribution.panicked
    \/ JailedVisited(ResetValidators(st, list))

\* prepForZeroHeightGenesis that goes through, and ExportGenesis.
Export(list) ==
    /\ phase = "committed" /\ exports < MaxExports
    /\ ~ExportError(list) /\ ~ExportPanic(list)
    /\ k' = ExportedDistribution
    /\ entries' = ResetCreationHeights(entries)
    /\ st' = ApplyAndReturnValidatorSetUpdates(ResetValidators(st, list), height)
    /\ start' = [v \in Validators |->
                   IF SigningInfos(st', start, height)[v] = NoHeight THEN NoHeight ELSE 0]
    /\ height' = 0
    /\ phase' = "exported"
    /\ exports' = exports + 1
    /\ allow' = list
    /\ UNCHANGED txs

\* The export gives up; the chain's database is as it was.
ExportFails(list) ==
    /\ phase = "committed" /\ exports < MaxExports
    /\ ExportError(list) \/ ExportPanic(list)
    /\ phase' = "failed"
    /\ allow' = list
    /\ UNCHANGED <<k, st, entries, start, height, txs, exports>>

\* InitGenesis of an exported state: the hooks are not called and the bonded
\* set is taken over, but the power index is written anew, without the jailed.
InitGenesis ==
    /\ phase = "exported"
    /\ ModuleAccountInvariant(k)
    /\ st' = [st EXCEPT !.index = {v \in Created : ~st.jailed[v]}]
    /\ Goto("committed")
    /\ UNCHANGED <<k, entries, start, height, txs>>

Next ==
    \/ \E v \in Validators, n \in Rewards : BeginBlock(v, n)
    \/ \E v \in Validators, p \in Powers : HandleValidatorSignature(v, p)
    \/ EndBlock
    \/ \E v \in Validators : \/ MsgCreateValidator(v)
                             \/ MsgWithdrawValidatorCommission(v)
                             \/ MsgUnjail(v)
    \/ \E d \in Delegators, v \in Validators :
        \/ \E n \in Amounts : MsgDelegate(d, v, n)
        \/ MsgUndelegate(d, v)
        \/ \E w \in Validators : MsgBeginRedelegate(d, v, w)
        \/ MsgWithdrawDelegatorReward(d, v)
    \/ \E list \in AllowLists : Export(list) \/ ExportFails(list)
    \/ InitGenesis

Spec == Init /\ [][Next]_vars
-----------------------------------------------------------------------------
(* Properties.                                                             *)

TypeOK ==
    /\ \A v \in Validators :
        /\ k.period[v] \in Periods
        /\ st.tokens[v] \in Nat
        /\ st.status[v] \in {"none", "unbonded", "bonded", "unbonding"}
        /\ st.jailed[v] \in BOOLEAN
        /\ start[v] \in {NoHeight} \cup 0..MaxHeight
    /\ st.index \subseteq Created
    /\ phase \in {"begun", "txs", "committed", "exported", "failed"}
    /\ height \in 0..MaxHeight /\ txs \in 0..MaxTxs /\ exports \in 0..MaxExports
    /\ allow \in AllowLists \cup {{}}

\* Every period that a validator, a delegation or a slash still needs is kept,
\* with the right count of uses, and no other: on the old chain, in the
\* exported genesis and on the chain that starts from it.
ReferencesCounted == ReferenceCountInvariant(k, st, Created)

\* The module account holds the whole coins of what is outstanding and of the
\* community pool, no coin more and no coin less: distribution's InitGenesis
\* panics on anything else.
HoldingsBacked == ModuleAccountInvariant(k)

\* No validator owes more than is outstanding, and every commission and every
\* reward can be withdrawn, in any state of either chain, without running into
\* a panic of the rewards' calculation (the stake after all slashes exceeds the
\* present one) or of the reference counts; and no end of a block meets a
\* jailed validator in the power index.
NeverPanics ==
    /\ ~k.panicked
    /\ NonNegativeOutstandingInvariant(k)
    /\ CanWithdrawInvariant(k, st, Created, height)
    /\ ~JailedVisited(st)

\* No height that is on record lies ahead of the chain.  In an exported genesis
\* all of them are zero: a start of signing, of unbonding or of a delegation
\* ahead of the new chain would hide slashes and downtime from it.
HeightsNotAhead ==
    /\ \A e \in entries : e.height <= height
    /\ \A v \in Validators :
        /\ start[v] <= height /\ st.unbondingHeight[v] <= height
        /\ \A s \in k.slashes[v] : s.height <= height
    /\ \A e \in Delegations(st) : k.starting[e].height <= height

\* What the export gives to the community pool are fractions ("donate any
\* unwithdrawn outstanding reward fraction tokens"): less than a coin for each
\* delegation and two for each validator, whatever the validators owed.
ScrapsAreFractions ==
    [][phase' = "exported" =>
        k'.pool - k.pool
            < ToDec(Cardinality(Delegations(st)) + 2 * Cardinality(Created))]_vars

\* The export bonds and unbonds nobody, with an allow list or without: the
\* validators of the new chain are those whose votes the last block of the old
\* one counts.
ExportKeepsBonded == [][phase' = "exported" => st'.status = st.status]_vars

\* Whenever a block has been committed, what the export makes of x/distribution,
\* before it comes to the keys of the validators, is in order: as many uses of
\* periods are counted as there are, the module account holds what is owed, and
\* neither clearing the history nor starting it anew runs into a panic of the
\* reference counts; only withdrawing can.
RebuildKeepsBooks ==
    phase = "committed" =>
        LET rebuilt == ExportedDistribution
        IN  /\ ReferenceCountInvariant(rebuilt, st, Created)
            /\ ModuleAccountInvariant(rebuilt)
            /\ rebuilt.panicked => WithdrawAll(k, st, Created, height).panicked

\* Without an allow list an export for height zero goes through, as the guide
\* for upgrades has it.
ExportSucceeds == phase = "failed" => allow # {}
=============================================================================
