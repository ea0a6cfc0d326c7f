---------------------------- MODULE Distribution ----------------------------
(***************************************************************************)
(* The bookkeeping of x/distribution that an export for height zero takes  *)
(* apart and builds up again: rewards by period, with reference counts on  *)
(* the periods that delegations and slashes still need.                    *)
(*                                                                         *)
(* The store is a record and each keeper function an operator from stores  *)
(* to stores.  A decimal is an integer number of units of 1/Prec.  What    *)
(* panics in the code sets the field panicked.                             *)
(***************************************************************************)
EXTENDS SequencesExt

CONSTANTS
    Validators,      \* operator addresses
    Delegators,      \* accounts
    Prec,            \* units of a decimal (10^18 in the code)
    CommissionRate,  \* share of a validator's rewards that is commission
    NoInfo,          \* no DelegatorStartingInfo
    MaxPeriod        \* bound: the largest period considered

Periods == 0..MaxPeriod
StartingInfos == [period : Periods, height : Nat, stake : Int]

ASSUME DistributionAssumption ==
    /\ Prec \in Nat \ {0}
    /\ CommissionRate \in 0..Prec
    /\ MaxPeriod \in Nat
    /\ NoInfo \notin StartingInfos

SumOver(f, S) == MapThenSumSet(LAMBDA x : f[x], S)
-----------------------------------------------------------------------------
(* Decimals.                                                               *)

\* chopPrecisionAndRound: to the nearest, a half to the even neighbour.
Chop(x) ==
    LET quo == x \div Prec
        rem == x % Prec
    IN  IF 2 * rem > Prec \/ (2 * rem = Prec /\ quo % 2 = 1) THEN quo + 1 ELSE quo

MulDec(x, y) == Chop(x * y)
MulTruncate(x, y) == (x * y) \div Prec
Quo(x, y) == Chop((x * Prec * Prec) \div y)
QuoTruncate(x, y) == ((x * Prec * Prec) \div y) \div Prec
QuoRoundUp(x, y) == (((x * Prec * Prec) \div y) + Prec - 1) \div Prec
ToDec(n) == n * Prec
TruncateInt(x) == x \div Prec
-----------------------------------------------------------------------------
(* Staking, as distribution sees it: st.tokens by validator and st.shares  *)
(* by delegation; a delegation is there when it has shares.                *)

Delegations(st) == {e \in Delegators \X Validators : st.shares[e] > 0}
DelegatorShares(st, v) == SumOver([d \in Delegators |-> st.shares[<<d, v>>]], Delegators)
TokensFromShares(st, d, v) == Quo(st.shares[<<d, v>>] * st.tokens[v], DelegatorShares(st, v))
TokensFromSharesTruncated(st, d, v) ==
    QuoTruncate(st.shares[<<d, v>>] * st.tokens[v], DelegatorShares(st, v))
-----------------------------------------------------------------------------
(* Validators and periods.                                                 *)

\* ValidatorHistoricalRewards of a period that is not stored.
Absent == [ratio |-> 0, refs |-> 0]

EmptyStore ==
    [historical  |-> [v \in Validators |-> [p \in Periods |-> Absent]],
     rewards     |-> [v \in Validators |-> 0],   \* ValidatorCurrentRewards
     period      |-> [v \in Validators |-> 0],
     commission  |-> [v \in Validators |-> 0],
     outstanding |-> [v \in Validators |-> 0],
     slashes     |-> [v \in Validators |-> {}],
     starting    |-> [e \in Delegators \X Validators |-> NoInfo],
     pool        |-> 0,                           \* the community pool
     balance     |-> 0,                           \* coins of the module account
     panicked    |-> FALSE]

initializeValidator(k, v) ==
    [k EXCEPT !.historical[v][0] = [ratio |-> 0, refs |-> 1],
              !.rewards[v] = 0,
              !.period[v] = 1,
              !.commission[v] = 0,
              !.outstanding[v] = 0]

incrementReferenceCount(k, v, p) ==
    [k EXCEPT !.historical[v][p].refs = @ + 1,
              !.panicked = @ \/ k.historical[v][p].refs > 2]

decrementReferenceCount(k, v, p) ==
    LET refs == k.historical[v][p].refs
    IN  IF refs = 0 THEN [k EXCEPT !.panicked = TRUE]
        ELSE [k EXCEPT !.historical[v][p] =
                IF refs = 1 THEN Absent ELSE [@ EXCEPT !.refs = refs - 1]]

\* Rewards of a validator without tokens go to the community pool.
IncrementValidatorPeriod(k, st, v) ==
    LET p == k.period[v]
        empty == st.tokens[v] = 0
        current == IF empty THEN 0 ELSE QuoTruncate(k.rewards[v], ToDec(st.tokens[v]))
        scraps == IF empty THEN k.rewards[v] ELSE 0
        ratio == k.historical[v][p - 1].ratio + current
    IN  [decrementReferenceCount(k, v, p - 1) EXCEPT
            !.historical[v][p] = [ratio |-> ratio, refs |-> 1],
            !.rewards[v] = 0,
            !.period[v] = p + 1,
            !.pool = @ + scraps,
            !.outstanding[v] = @ - scraps]

AllocateTokensToValidator(k, v, n) ==
    LET commission == MulDec(ToDec(n), CommissionRate)
    IN  [k EXCEPT !.commission[v] = @ + commission,
                  !.rewards[v] = @ + ToDec(n) - commission,
                  !.outstanding[v] = @ + ToDec(n),
                  !.balance = @ + n]

updateValidatorSlashFraction(k, st, v, height, fraction) ==
    LET p == k.period[v]
    IN  [incrementReferenceCount(IncrementValidatorPeriod(k, st, v), v, p) EXCEPT
            !.slashes[v] = @ \cup {[height |-> height, period |-> p, fraction |-> fraction]}]

\* The whole coins of the commission; an error when there is no commission.
WithdrawValidatorCommission(k, v) ==
    LET coins == TruncateInt(k.commission[v])
    IN  [k EXCEPT !.commission[v] = @ - ToDec(coins),
                  !.outstanding[v] = @ - ToDec(coins),
                  !.balance = @ - coins]
-----------------------------------------------------------------------------
(* Delegations.                                                            *)

initializeDelegation(k, st, d, v, height) ==
    LET previous == k.period[v] - 1
    IN  [incrementReferenceCount(k, v, previous) EXCEPT
            !.starting[<<d, v>>] = [period |-> previous, height |-> height,
                                stake |-> TokensFromSharesTruncated(st, d, v)]]

BetweenPeriods(k, v, from, to, stake) ==
    MulTruncate(k.historical[v][to].ratio - k.historical[v][from].ratio, stake)

\* The slashes of a delegation's validator since the delegation was last
\* initialized.
SlashEventsSince(k, d, v, height) ==
    LET info == k.starting[<<d, v>>]
    IN  {e \in k.slashes[v] : e.height \in info.height..height /\ e.period > info.period}

\* The event that the store's iterator comes to last.
Latest(events) == CHOOSE e \in events : \A f \in events : f.period <= e.period

\* The rewards up to the last of these slashes; the stake shrinks with each.
SlashedRewards(k, d, v, height) ==
    LET info == k.starting[<<d, v>>]
    IN  MapThenFoldSet(
            LAMBDA e, a : [rewards |-> a.rewards + BetweenPeriods(k, v, a.from, e.period, a.stake),
                           stake |-> MulTruncate(a.stake, Prec - e.fraction),
                           from |-> e.period],
            [rewards |-> 0, stake |-> info.stake, from |-> info.period],
            LAMBDA e : e, Latest, SlashEventsSince(k, d, v, height))

\* At the end the stake may exceed the present stake by three units at most.
CalculateDelegationRewards(k, st, d, v, height, ending) ==
    LET slashed == SlashedRewards(k, d, v, height)
        present == TokensFromShares(st, d, v)
        stake == Min({slashed.stake, present})
    IN  IF k.starting[<<d, v>>].height = height THEN [rewards |-> 0, panicked |-> FALSE]
        ELSE [rewards  |-> slashed.rewards + BetweenPeriods(k, v, slashed.from, ending, stake),
              panicked |-> \/ slashed.stake > present + 3
                           \/ k.historical[v][ending].ratio < k.historical[v][slashed.from].ratio]

\* Ends the period, pays the whole coins of the rewards and gives the rest to
\* the community pool.
withdrawDelegationRewards(k, st, d, v, height) ==
    LET ending == k.period[v]
        ended == IncrementValidatorPeriod(k, st, v)
        calculated == CalculateDelegationRewards(ended, st, d, v, height, ending)
        rewards == Min({calculated.rewards, ended.outstanding[v]})
        coins == TruncateInt(rewards)
        withdrawn == [ended EXCEPT !.outstanding[v] = @ - rewards,
                                   !.pool = @ + rewards - ToDec(coins),
                                   !.balance = @ - coins,
                                   !.panicked = @ \/ calculated.panicked]
    IN  [decrementReferenceCount(withdrawn, v, k.starting[<<d, v>>].period) EXCEPT
            !.starting[<<d, v>>] = NoInfo]

\* An error, with no effect, when there is no starting info.
WithdrawDelegationRewards(k, st, d, v, height) ==
    IF k.starting[<<d, v>>] = NoInfo THEN k
    ELSE initializeDelegation(withdrawDelegationRewards(k, st, d, v, height), st, d, v, height)
-----------------------------------------------------------------------------
(* The module's invariants.                                                *)

\* How often the periods of a validator are referred to.
References(k, v) == SumOver([p \in Periods |-> k.historical[v][p].refs], Periods)

ReferenceCountInvariant(k, st, validators) ==
    SumOver([v \in Validators |-> References(k, v)], Validators)
        = Cardinality(validators) + Cardinality(Delegations(st))
            + SumOver([v \in Validators |-> Cardinality(k.slashes[v])], Validators)

NonNegativeOutstandingInvariant(k) == \A v \in Validators : k.outstanding[v] >= 0

ModuleAccountInvariant(k) ==
    k.balance = TruncateInt(SumOver(k.outstanding, Validators) + k.pool)

\* Mutant: commission and rewards in one pass over the delegations' validators.
WithdrawAllNoCommission(k, st, validators, height) ==
    FoldSet(LAMBDA e, s : WithdrawDelegationRewards(s, st, e[1], e[2], height), k, Delegations(st))

\* Every validator's commission, then every delegation's rewards.
WithdrawAll(k, st, validators, height) ==
    LET commissions == FoldSet(LAMBDA v, s : WithdrawValidatorCommission(s, v), k, validators)
    IN  FoldSet(LAMBDA e, s : WithdrawDelegationRewards(s, st, e[1], e[2], height),
                commissions, Delegations(st))

CanWithdrawInvariant(k, st, validators, height) ==
    LET withdrawn == WithdrawAll(k, st, validators, height)
    IN  ~withdrawn.panicked /\ NonNegativeOutstandingInvariant(withdrawn)
=============================================================================
