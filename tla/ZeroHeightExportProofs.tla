----------------------- MODULE ZeroHeightExportProofs -----------------------
(***************************************************************************)
(* Proofs about the export for height zero, for any validators, stakes,    *)
(* slashes and allow lists and for any number of exports in a row.  First, *)
(* that the stores keep their types, that an export bonds and unbonds      *)
(* nobody and that no height on record lies ahead of the chain.  Then,     *)
(* about the books of x/distribution: that every period is kept as often   *)
(* as it is needed, that the module account holds exactly what is          *)
(* outstanding and in the community pool, and that an export rebuilds them *)
(* in order.                                                               *)
(***************************************************************************)
EXTENDS ZeroHeightExport, FiniteSetTheorems, TLAPS
-----------------------------------------------------------------------------
(* Decimals.                                                               *)

\* What division by a positive number gives.
LEMMA Division ==
    ASSUME NEW a \in Nat, NEW b \in Nat, b > 0
    PROVE  /\ a \div b \in Nat
           /\ b * (a \div b) <= a
           /\ a % b \in Nat
           /\ a = b * (a \div b) + (a % b)
           /\ a % b < b
  <1>1. a \div b \in Nat
    OBVIOUS
  <1>2. a % b \in 0..(b - 1)
    OBVIOUS
  <1>3. a = b * (a \div b) + (a % b)
    OBVIOUS
  <1> DEFINE q == a \div b
             r == a % b
  <1>4. q \in Nat /\ r \in 0..(b - 1) /\ a = b * q + r
    BY <1>1, <1>2, <1>3
  <1> HIDE DEF q, r
  <1>5. b * q <= a /\ r \in Nat /\ r < b
    BY <1>4
  <1> QED
    BY <1>4, <1>5 DEF q, r

\* A quotient is bounded as the dividend is.
LEMMA DivisionBound ==
    ASSUME NEW a \in Nat, NEW b \in Nat, b > 0, NEW c \in Nat, a <= b * c
    PROVE  a \div b <= c
  <1> DEFINE q == a \div b
  <1>1. q \in Nat /\ b * q <= a
    BY Division
  <1> HIDE DEF q
  <1>2. b * q <= b * c
    BY <1>1
  <1>3. q <= c
    BY <1>1, <1>2
  <1> QED
    BY <1>3 DEF q

\* Rounding does not go beyond a whole number.
LEMMA ChopBound ==
    ASSUME NEW x \in Nat, NEW c \in Nat, x <= Prec * c
    PROVE  Chop(x) \in Nat /\ Chop(x) <= c
  <1> DEFINE q == x \div Prec
             r == x % Prec
  <1>0. Prec \in Nat /\ Prec > 0
    BY DistributionAssumption
  <1>1. q \in Nat /\ r \in Nat /\ x = Prec * q + r /\ r < Prec
    BY <1>0, Division
  <1>2. Chop(x) = IF 2 * r > Prec \/ (2 * r = Prec /\ q % 2 = 1) THEN q + 1 ELSE q
    BY DEF Chop
  <1>3. q <= c
    BY <1>0, DivisionBound
  <1> HIDE DEF q, r
  <1>4. CASE r = 0
    BY <1>0, <1>1, <1>2, <1>3, <1>4
  <1>5. CASE r # 0
    <2>1. Prec * q < Prec * c
      BY <1>0, <1>1, <1>5
    <2>2. q < c
      BY <1>0, <1>1, <2>1
    <2> QED
      BY <1>1, <1>2, <2>2
  <1> QED
    BY <1>4, <1>5

\* The tokens for some of the shares are no more than the tokens there are.
LEMMA TokensForShares ==
    ASSUME NEW s \in Nat, NEW total \in Nat, total > 0, s <= total, NEW t \in Nat
    PROVE  TruncateInt(Quo(s * t, total)) \in Nat /\ TruncateInt(Quo(s * t, total)) <= t
  <1>0. Prec \in Nat /\ Prec > 0
    BY DistributionAssumption
  <1> DEFINE X == t * Prec * Prec
             q == (s * t * Prec * Prec) \div total
  <1>1. X \in Nat /\ s * t * Prec * Prec = s * X /\ s * X \in Nat
    BY <1>0
  <1>2. s * X <= total * X
    <2> HIDE DEF X
    <2> QED
      BY <1>1
  <1>3. q \in Nat /\ q <= X
    <2>1. s * t * Prec * Prec \in Nat /\ s * t * Prec * Prec <= total * X
      BY <1>1, <1>2
    <2> HIDE DEF X
    <2> QED
      BY <1>1, <2>1, Division, DivisionBound
  <1>4. X = Prec * (t * Prec) /\ t * Prec \in Nat
    BY <1>0
  <1> HIDE DEF q, X
  <1>5. Chop(q) \in Nat /\ Chop(q) <= t * Prec
    BY <1>3, <1>4, ChopBound
  <1>6. t * Prec = Prec * t
    BY <1>0
  <1> DEFINE z == Chop(q)
  <1>7. z \in Nat /\ z <= Prec * t
    BY <1>5, <1>6
  <1> HIDE DEF z
  <1>8. z \div Prec \in Nat /\ z \div Prec <= t
    BY <1>0, <1>7, Division, DivisionBound
  <1> QED
    BY <1>8 DEF TruncateInt, Quo, q, z
-----------------------------------------------------------------------------
(* The store of x/distribution.                                            *)

\* The fields that periods, slashes and starting infos are in.
StoreOK(kk) ==
    /\ {"period", "slashes", "starting"} \subseteq DOMAIN kk
    /\ kk.period \in [Validators -> Nat]
    /\ DOMAIN kk.slashes = Validators
    /\ DOMAIN kk.starting = Delegators \X Validators

\* The heights of slashes and of the starting infos in E.
StoreHeights(kk, E, h) ==
    /\ \A v \in Validators : \A e \in kk.slashes[v] : e.height \in 0..h
    /\ \A e \in E : kk.starting[e].height \in 0..h

\* A step that only counts references and coins and may end periods.
Keeps(k1, k2) ==
    /\ StoreOK(k2)
    /\ k2.slashes = k1.slashes
    /\ k2.starting = k1.starting

\* At most one period is ended, of validator v.
Ends(k1, k2, v) ==
    \A w \in Validators : k2.period[w] <= k1.period[w] + (IF w = v THEN 1 ELSE 0)

\* A validator that was never created has not begun a period.
Unused(kk, s) == \A w \in Validators : s.status[w] = "none" => kk.period[w] = 0

\* Of a created validator periods may end.
LEMMA StaysUnused ==
    ASSUME NEW k1, StoreOK(k1), NEW k2, StoreOK(k2), NEW v \in Validators, Ends(k1, k2, v),
           NEW s, Unused(k1, s), s.status[v] # "none"
    PROVE  Unused(k2, s)
  BY DEF StoreOK, Ends, Unused

\* Reference counts go up and down and nothing else does.
LEMMA Increments ==
    ASSUME NEW kk, StoreOK(kk), NEW v \in Validators, NEW p
    PROVE  /\ Keeps(kk, incrementReferenceCount(kk, v, p))
           /\ incrementReferenceCount(kk, v, p).period = kk.period
           /\ Keeps(kk, decrementReferenceCount(kk, v, p))
           /\ decrementReferenceCount(kk, v, p).period = kk.period
  <1>1. /\ Keeps(kk, incrementReferenceCount(kk, v, p))
        /\ incrementReferenceCount(kk, v, p).period = kk.period
    BY DEF Keeps, StoreOK, incrementReferenceCount
  <1>2. /\ Keeps(kk, decrementReferenceCount(kk, v, p))
        /\ decrementReferenceCount(kk, v, p).period = kk.period
    BY DEF Keeps, StoreOK, decrementReferenceCount
  <1> QED
    BY <1>1, <1>2

\* A period of a validator ends.
LEMMA EndsPeriod ==
    ASSUME NEW kk, StoreOK(kk), NEW v \in Validators, NEW s
    PROVE  /\ Keeps(kk, IncrementValidatorPeriod(kk, s, v))
           /\ Ends(kk, IncrementValidatorPeriod(kk, s, v), v)
  <1> DEFINE p == kk.period[v]
             dec == decrementReferenceCount(kk, v, p - 1)
             k2 == IncrementValidatorPeriod(kk, s, v)
  <1>1. Keeps(kk, dec) /\ p \in Nat /\ dec.period = kk.period
    BY Increments DEF StoreOK
  <1> HIDE DEF dec
  <1>2. Keeps(kk, k2) /\ k2.period = [kk.period EXCEPT ![v] = p + 1]
    BY <1>1 DEF Keeps, StoreOK, IncrementValidatorPeriod, dec
  <1> HIDE DEF k2
  <1>3. Ends(kk, k2, v)
    BY <1>2 DEF Ends, StoreOK
  <1> QED
    BY <1>2, <1>3 DEF k2

\* Rewards are allocated.
LEMMA Allocates ==
    ASSUME NEW kk, StoreOK(kk), NEW v \in Validators, NEW n
    PROVE  /\ Keeps(kk, AllocateTokensToValidator(kk, v, n))
           /\ AllocateTokensToValidator(kk, v, n).period = kk.period
  BY DEF Keeps, StoreOK, AllocateTokensToValidator

\* A commission is withdrawn.
LEMMA WithdrawsCommission ==
    ASSUME NEW kk, StoreOK(kk), NEW v \in Validators
    PROVE  /\ Keeps(kk, WithdrawValidatorCommission(kk, v))
           /\ WithdrawValidatorCommission(kk, v).period = kk.period
  BY DEF Keeps, StoreOK, WithdrawValidatorCommission

\* A validator is set up.
LEMMA InitializesValidator ==
    ASSUME NEW kk, StoreOK(kk), NEW v \in Validators
    PROVE  /\ Keeps(kk, initializeValidator(kk, v))
           /\ initializeValidator(kk, v).period = [kk.period EXCEPT ![v] = 1]
  BY DEF Keeps, StoreOK, initializeValidator

\* A slash is recorded.
LEMMA RecordsSlash ==
    ASSUME NEW kk, StoreOK(kk), NEW v \in Validators, NEW s, NEW h, NEW fraction
    PROVE  LET k2 == updateValidatorSlashFraction(kk, s, v, h, fraction)
           IN  /\ StoreOK(k2)
               /\ k2.starting = kk.starting
               /\ Ends(kk, k2, v)
               /\ \A w \in Validators : \A x \in k2.slashes[w] : x \in kk.slashes[w] \/ x.height = h
  <1> DEFINE inc == IncrementValidatorPeriod(kk, s, v)
             p == kk.period[v]
             ref == incrementReferenceCount(inc, v, p)
  <1>1. Keeps(kk, inc) /\ Ends(kk, inc, v)
    BY EndsPeriod
  <1>2. Keeps(inc, ref) /\ ref.period = inc.period
    <2> HIDE DEF inc, p
    <2> QED
      BY <1>1, Increments DEF Keeps
  <1>3. updateValidatorSlashFraction(kk, s, v, h, fraction) =
            [ref EXCEPT !.slashes[v] = @ \cup {[height |-> h, period |-> p, fraction |-> fraction]}]
    BY DEF updateValidatorSlashFraction
  <1> HIDE DEF inc, p, ref
  <1> DEFINE k2 == updateValidatorSlashFraction(kk, s, v, h, fraction)
  <1>4. /\ StoreOK(k2) /\ k2.starting = kk.starting /\ k2.period = ref.period
        /\ \A w \in Validators : \A x \in k2.slashes[w] : x \in kk.slashes[w] \/ x.height = h
    BY <1>1, <1>2, <1>3 DEF Keeps, StoreOK
  <1> HIDE DEF k2
  <1>5. Ends(kk, k2, v)
    BY <1>1, <1>2, <1>4 DEF Ends
  <1> QED
    BY <1>4, <1>5 DEF k2

\* A delegation starts.
LEMMA StartsDelegation ==
    ASSUME NEW kk, StoreOK(kk), NEW d \in Delegators, NEW v \in Validators, NEW s, NEW h
    PROVE  LET k2 == initializeDelegation(kk, s, d, v, h)
           IN  /\ StoreOK(k2)
               /\ k2.slashes = kk.slashes
               /\ k2.period = kk.period
               /\ k2.starting[<<d, v>>].height = h
               /\ \A f \in Delegators \X Validators : f # <<d, v>> => k2.starting[f] = kk.starting[f]
  <1> DEFINE p == kk.period[v] - 1
             ref == incrementReferenceCount(kk, v, p)
             stake == TokensFromSharesTruncated(s, d, v)
  <1>1. Keeps(kk, ref) /\ ref.period = kk.period
    BY Increments
  <1>2. initializeDelegation(kk, s, d, v, h) =
            [ref EXCEPT !.starting[<<d, v>>] = [period |-> p, height |-> h, stake |-> stake]]
    BY DEF initializeDelegation
  <1> HIDE DEF p, ref, stake
  <1> QED
    BY <1>1, <1>2 DEF Keeps, StoreOK

\* A delegation's rewards are paid and its starting info removed.
LEMMA EndsDelegation ==
    ASSUME NEW kk, StoreOK(kk), NEW d \in Delegators, NEW v \in Validators, NEW s, NEW h
    PROVE  LET k2 == withdrawDelegationRewards(kk, s, d, v, h)
           IN  /\ StoreOK(k2)
               /\ k2.slashes = kk.slashes
               /\ Ends(kk, k2, v)
               /\ \A f \in Delegators \X Validators : f # <<d, v>> => k2.starting[f] = kk.starting[f]
  <1> DEFINE ending == kk.period[v]
             ended == IncrementValidatorPeriod(kk, s, v)
             calculated == CalculateDelegationRewards(ended, s, d, v, h, ending)
             rewards == Min({calculated.rewards, ended.outstanding[v]})
             coins == TruncateInt(rewards)
             withdrawn == [ended EXCEPT !.outstanding[v] = @ - rewards,
                                        !.pool = @ + rewards - ToDec(coins),
                                        !.balance = @ - coins,
                                        !.panicked = @ \/ calculated.panicked]
             dec == decrementReferenceCount(withdrawn, v, kk.starting[<<d, v>>].period)
  <1>1. Keeps(kk, ended) /\ Ends(kk, ended, v)
    BY EndsPeriod
  <1>2. withdrawDelegationRewards(kk, s, d, v, h) = [dec EXCEPT !.starting[<<d, v>>] = NoInfo]
    BY DEF withdrawDelegationRewards
  <1> HIDE DEF calculated, rewards, coins, ended
  <1>3. Keeps(ended, withdrawn) /\ withdrawn.period = ended.period
    BY <1>1 DEF Keeps, StoreOK
  <1> HIDE DEF withdrawn
  <1>4. Keeps(withdrawn, dec) /\ dec.period = withdrawn.period
    BY <1>3, Increments DEF Keeps
  <1> HIDE DEF dec
  <1> DEFINE k2 == withdrawDelegationRewards(kk, s, d, v, h)
  <1>5. /\ StoreOK(k2) /\ k2.slashes = kk.slashes /\ k2.period = dec.period
        /\ \A f \in Delegators \X Validators : f # <<d, v>> => k2.starting[f] = kk.starting[f]
    BY <1>1, <1>2, <1>3, <1>4 DEF Keeps, StoreOK
  <1> HIDE DEF k2
  <1>6. Ends(kk, k2, v)
    BY <1>1, <1>3, <1>4, <1>5 DEF Ends
  <1> QED
    BY <1>5, <1>6 DEF k2

\* A delegation's rewards are paid and it starts anew, if it has started.
LEMMA RestartsDelegation ==
    ASSUME NEW kk, StoreOK(kk), NEW d \in Delegators, NEW v \in Validators, NEW s, NEW h
    PROVE  LET k2 == WithdrawDelegationRewards(kk, s, d, v, h)
           IN  /\ StoreOK(k2)
               /\ k2.slashes = kk.slashes
               /\ Ends(kk, k2, v)
               /\ k2.starting[<<d, v>>].height = h \/ k2.starting[<<d, v>>] = kk.starting[<<d, v>>]
               /\ \A f \in Delegators \X Validators : f # <<d, v>> => k2.starting[f] = kk.starting[f]
  <1> DEFINE k1 == withdrawDelegationRewards(kk, s, d, v, h)
             k2 == initializeDelegation(k1, s, d, v, h)
  <1>1. /\ StoreOK(k1)
        /\ k1.slashes = kk.slashes
        /\ Ends(kk, k1, v)
        /\ \A f \in Delegators \X Validators : f # <<d, v>> => k1.starting[f] = kk.starting[f]
    BY EndsDelegation
  <1> HIDE DEF k1
  <1>2. /\ StoreOK(k2)
        /\ k2.slashes = k1.slashes
        /\ k2.period = k1.period
        /\ k2.starting[<<d, v>>].height = h
        /\ \A f \in Delegators \X Validators : f # <<d, v>> => k2.starting[f] = k1.starting[f]
    BY <1>1, StartsDelegation
  <1> HIDE DEF k2
  <1>3. WithdrawDelegationRewards(kk, s, d, v, h) = IF kk.starting[<<d, v>>] = NoInfo THEN kk ELSE k2
    BY DEF WithdrawDelegationRewards, k1, k2
  <1>4. Ends(kk, k2, v) /\ Ends(kk, kk, v)
    BY <1>1, <1>2 DEF Ends, StoreOK
  <1> QED
    BY <1>1, <1>2, <1>3, <1>4
-----------------------------------------------------------------------------
(* Shares of a validator.                                                  *)

\* The element a fold of the community modules takes last.
Chosen(s) == CHOOSE x \in s : TRUE

AddShares(c, d, a) == c[d] + a

\* What is known of the shares of some of the delegators.
SharesOf(c, T, a) ==
    (\A d \in T : c[d] \in Nat) =>
        /\ a \in Nat
        /\ \A d \in T : c[d] <= a
        /\ (\A d \in T : c[d] = 0) => a = 0

Shares == INSTANCE FoldTheorems WITH Step <- AddShares, Pick <- Chosen, P <- SharesOf

\* A delegation has no more shares than there are, and there are none if none
\* has any.
LEMMA SharesBound ==
    ASSUME NEW s, NEW v \in Validators, s.shares \in [Delegators \X Validators -> Nat]
    PROVE  /\ DelegatorShares(s, v) \in Nat
           /\ \A d \in Delegators : s.shares[<<d, v>>] <= DelegatorShares(s, v)
           /\ (\A d \in Delegators : s.shares[<<d, v>>] = 0) => DelegatorShares(s, v) = 0
  <1> DEFINE c == [d \in Delegators |-> s.shares[<<d, v>>]]
  <1>1. SharesOf(c, {}, 0)
    BY DEF SharesOf
  <1>2. ASSUME NEW T \in SUBSET Delegators, NEW x \in T, NEW a, SharesOf(c, T \ {x}, a)
        PROVE  SharesOf(c, T, AddShares(c, x, a))
    <2> DEFINE f(d) == c[d]
    <2> HIDE DEF c
    <2> SUFFICES ASSUME \A d \in T : f(d) \in Nat
                 PROVE  /\ f(x) + a \in Nat
                        /\ \A d \in T : f(d) <= f(x) + a
                        /\ (\A d \in T : f(d) = 0) => f(x) + a = 0
      BY DEF SharesOf, AddShares
    <2>1. /\ a \in Nat
          /\ \A d \in T \ {x} : f(d) <= a
          /\ (\A d \in T \ {x} : f(d) = 0) => a = 0
      BY <1>2 DEF SharesOf
    <2> HIDE DEF f
    <2> QED
      BY <2>1
  <1>3. Shares!Inductive(c, 0, Delegators)
    BY <1>1, <1>2 DEF Shares!Inductive, Shares!Picks, Chosen
  <1>4. Shares!IsFiniteSet(Delegators)
    BY ExportAssumption DEF IsFiniteSet, Shares!IsFiniteSet
  <1>5. SharesOf(c, Delegators, Shares!Fold(c, 0, Delegators))
    BY <1>3, <1>4, Shares!FoldInduction
  <1>6. DelegatorShares(s, v) = Shares!Fold(c, 0, Delegators)
    BY DEF DelegatorShares, SumOver, MapThenSumSet, MapThenFoldSet, Shares!Fold, Chosen, AddShares
  <1>7. SharesOf(c, Delegators, DelegatorShares(s, v))
    BY <1>5, <1>6
  <1> QED
    BY <1>7 DEF SharesOf
-----------------------------------------------------------------------------
(* Staking.                                                                *)

Stakings ==
    [tokens          : [Validators -> Nat],
     shares          : [Delegators \X Validators -> Nat],
     status          : [Validators -> {"none", "unbonded", "bonded", "unbonding"}],
     jailed          : [Validators -> BOOLEAN],
     unbondingHeight : [Validators -> Nat],
     index           : SUBSET Validators]

\* Who is not there is not in the index, not in jail and has no shares; who is
\* there and not in jail is in the index.
StakingOK(s) ==
    /\ s \in Stakings
    /\ \A v \in Validators :
          /\ s.status[v] = "none" =>
                /\ v \notin s.index
                /\ ~s.jailed[v]
                /\ \A d \in Delegators : s.shares[<<d, v>>] = 0
          /\ s.status[v] # "none" /\ ~s.jailed[v] => v \in s.index

\* The shares of delegation <<d, v>> change, and with them the tokens of v.
ChangesShares(s, s2, d, v) ==
    /\ StakingOK(s2)
    /\ s2.status = s.status /\ s2.jailed = s.jailed
    /\ s2.unbondingHeight = s.unbondingHeight /\ s2.index = s.index
    /\ \A w \in Validators : w # v => s2.tokens[w] = s.tokens[w]
    /\ \A f \in Delegators \X Validators : f # <<d, v>> => s2.shares[f] = s.shares[f]

\* A change of one validator's tokens and one delegation's shares.
LEMMA SharesChanged ==
    ASSUME NEW s, StakingOK(s), NEW d \in Delegators, NEW v \in Validators, s.status[v] # "none",
           NEW n \in Nat, NEW m \in Nat
    PROVE  ChangesShares(s, [s EXCEPT !.tokens[v] = n, !.shares[<<d, v>>] = m], d, v)
  <1> DEFINE s2 == [s EXCEPT !.tokens[v] = n, !.shares[<<d, v>>] = m]
  <1>1. s \in Stakings
    BY DEF StakingOK
  <1>2. /\ s2.status = s.status /\ s2.jailed = s.jailed
        /\ s2.unbondingHeight = s.unbondingHeight /\ s2.index = s.index
        /\ s2.tokens = [s.tokens EXCEPT ![v] = n]
        /\ s2.shares = [s.shares EXCEPT ![<<d, v>>] = m]
    BY <1>1 DEF Stakings
  <1>3. s2 \in Stakings
    BY <1>1 DEF Stakings
  <1> HIDE DEF s2
  <1>4. \A w \in Validators : w # v => s2.tokens[w] = s.tokens[w]
    BY <1>1, <1>2 DEF Stakings
  <1>5. \A f \in Delegators \X Validators : f # <<d, v>> => s2.shares[f] = s.shares[f]
    BY <1>1, <1>2 DEF Stakings
  <1>6. ASSUME NEW w \in Validators, s2.status[w] = "none", NEW c \in Delegators
        PROVE  s2.shares[<<c, w>>] = 0
    <2>1. s.shares[<<c, w>>] = 0 /\ w # v
      BY <1>2, <1>6 DEF StakingOK
    <2> QED
      BY <1>5, <2>1
  <1>7. StakingOK(s2)
    BY <1>2, <1>3, <1>6 DEF StakingOK
  <1> QED
    BY <1>2, <1>4, <1>5, <1>7 DEF ChangesShares, s2

\* Tokens are added for shares.
LEMMA AddsTokens ==
    ASSUME NEW s, StakingOK(s), NEW d \in Delegators, NEW v \in Validators, NEW amount \in Nat,
           s.status[v] # "none", ~InvalidExRate(s, v)
    PROVE  ChangesShares(s, AddTokensFromDel(s, d, v, amount), d, v)
  <1>0. Prec \in Nat /\ Prec > 0
    BY DistributionAssumption
  <1> DEFINE total == DelegatorShares(s, v)
             issued == IF total = 0 THEN ToDec(amount) ELSE (total * amount) \div s.tokens[v]
  <1>1. total \in Nat /\ s.tokens[v] \in Nat
    BY SharesBound DEF StakingOK, Stakings
  <1>2. issued \in Nat
    <2>1. CASE total = 0
      <3>1. ToDec(amount) \in Nat
        BY <1>0 DEF ToDec
      <3> QED
        BY <2>1, <3>1
    <2>2. CASE total # 0
      <3>1. s.tokens[v] > 0
        BY <1>1, <2>2 DEF InvalidExRate
      <3> DEFINE t == s.tokens[v]
                 n == total * amount
      <3>2. n \in Nat /\ t \in Nat /\ t > 0
        BY <1>1, <3>1
      <3> HIDE DEF t, n
      <3>3. n \div t \in Nat
        BY <3>2, Division
      <3> QED
        BY <2>2, <3>3 DEF n, t
    <2> QED
      BY <2>1, <2>2
  <1>3. AddTokensFromDel(s, d, v, amount) =
            [s EXCEPT !.tokens[v] = @ + amount, !.shares[<<d, v>>] = @ + issued]
    BY DEF AddTokensFromDel
  <1> HIDE DEF issued
  <1> DEFINE n == s.tokens[v] + amount
             m == s.shares[<<d, v>>] + issued
  <1>4. n \in Nat /\ m \in Nat
    BY <1>1, <1>2 DEF StakingOK, Stakings
  <1>5. AddTokensFromDel(s, d, v, amount) = [s EXCEPT !.tokens[v] = n, !.shares[<<d, v>>] = m]
    BY <1>3
  <1> HIDE DEF n, m
  <1>6. ChangesShares(s, [s EXCEPT !.tokens[v] = n, !.shares[<<d, v>>] = m], d, v)
    BY <1>4, SharesChanged
  <1> QED
    BY <1>5, <1>6, Zenon

\* Shares are removed for tokens.
LEMMA RemovesShares ==
    ASSUME NEW s, StakingOK(s), NEW d \in Delegators, NEW v \in Validators,
           s.shares[<<d, v>>] > 0
    PROVE  /\ ChangesShares(s, RemoveDelShares(s, d, v), d, v)
           /\ RemoveDelShares(s, d, v).shares[<<d, v>>] = 0
           /\ s.tokens[v] - RemoveDelShares(s, d, v).tokens[v] \in Nat
  <1> DEFINE total == DelegatorShares(s, v)
             share == s.shares[<<d, v>>]
             t == s.tokens[v]
             issued == IF total - share = 0 THEN t ELSE TruncateInt(TokensFromShares(s, d, v))
  <1>1. total \in Nat /\ share \in Nat /\ share <= total /\ share > 0 /\ t \in Nat
    BY SharesBound DEF StakingOK, Stakings
  <1>2. issued \in Nat /\ issued <= t
    <2>1. TokensFromShares(s, d, v) = Quo(share * t, total)
      BY DEF TokensFromShares
    <2> HIDE DEF total, share, t
    <2>a. total > 0
      BY <1>1
    <2>2. TruncateInt(Quo(share * t, total)) \in Nat /\ TruncateInt(Quo(share * t, total)) <= t
      BY <1>1, <2>a, TokensForShares, Zenon
    <2> QED
      BY <1>1, <2>1, <2>2
  <1>3. RemoveDelShares(s, d, v) = [s EXCEPT !.tokens[v] = @ - issued, !.shares[<<d, v>>] = 0]
    BY DEF RemoveDelShares
  <1> HIDE DEF issued, total
  <1> DEFINE n == t - issued
             s2 == [s EXCEPT !.tokens[v] = n, !.shares[<<d, v>>] = 0]
  <1>4. n \in Nat /\ t - n \in Nat
    BY <1>1, <1>2
  <1>5. RemoveDelShares(s, d, v) = s2
    BY <1>3
  <1>6. s.status[v] # "none"
    BY DEF StakingOK
  <1>7. s2.shares[<<d, v>>] = 0 /\ s2.tokens[v] = n
    BY DEF StakingOK, Stakings
  <1>8. ChangesShares(s, s2, d, v)
    <2> HIDE DEF n
    <2> QED
      BY <1>4, <1>6, SharesChanged
  <1> QED
    BY <1>4, <1>5, <1>7, <1>8
\* Stores that go together at height h.
StateOK(kk, s, h) ==
    /\ StakingOK(s)
    /\ StoreOK(kk)
    /\ StoreHeights(kk, Delegations(s), h)
    /\ Unused(kk, s)

\* The hooks before shares change touch the starting info of their delegation
\* only.
LEMMA BeforeDelegationKeeps ==
    ASSUME NEW kk, StoreOK(kk), NEW d \in Delegators, NEW v \in Validators, NEW s, NEW h
    PROVE  LET k2 == BeforeDelegation(kk, s, d, v, h)
           IN  /\ StoreOK(k2)
               /\ k2.slashes = kk.slashes
               /\ Ends(kk, k2, v)
               /\ \A f \in Delegators \X Validators : f # <<d, v>> => k2.starting[f] = kk.starting[f]
  <1>1. CASE s.shares[<<d, v>>] > 0
    <2>1. BeforeDelegation(kk, s, d, v, h) = withdrawDelegationRewards(kk, s, d, v, h)
      BY <1>1 DEF BeforeDelegation
    <2> QED
      BY <2>1, EndsDelegation
  <1>2. CASE ~(s.shares[<<d, v>>] > 0)
    <2>1. BeforeDelegation(kk, s, d, v, h) = IncrementValidatorPeriod(kk, s, v)
      BY <1>2 DEF BeforeDelegation
    <2>2. /\ Keeps(kk, IncrementValidatorPeriod(kk, s, v))
          /\ Ends(kk, IncrementValidatorPeriod(kk, s, v), v)
      BY EndsPeriod
    <2> QED
      BY <2>1, <2>2 DEF Keeps
  <1> QED
    BY <1>1, <1>2

\* Tokens are delegated.
LEMMA Delegates ==
    ASSUME NEW kk, NEW s, NEW h \in Nat, StateOK(kk, s, h),
           NEW d \in Delegators, NEW v \in Validators, NEW amount \in Nat,
           s.status[v] # "none", ~InvalidExRate(s, v)
    PROVE  LET delegated == Delegate([k |-> kk, st |-> s], d, v, amount, h)
           IN  /\ StateOK(delegated.k, delegated.st, h)
               /\ ChangesShares(s, delegated.st, d, v)
               /\ Ends(kk, delegated.k, v)
  <1> DEFINE s2 == AddTokensFromDel(s, d, v, amount)
             k1 == BeforeDelegation(kk, s, d, v, h)
             k2 == initializeDelegation(k1, s2, d, v, h)
  <1>1. ChangesShares(s, s2, d, v)
    BY AddsTokens DEF StateOK
  <1>2. /\ StoreOK(k1)
        /\ k1.slashes = kk.slashes
        /\ Ends(kk, k1, v)
        /\ \A f \in Delegators \X Validators : f # <<d, v>> => k1.starting[f] = kk.starting[f]
    BY BeforeDelegationKeeps DEF StateOK
  <1> HIDE DEF k1, s2
  <1>3. /\ StoreOK(k2)
        /\ k2.slashes = k1.slashes
        /\ k2.period = k1.period
        /\ k2.starting[<<d, v>>].height = h
        /\ \A f \in Delegators \X Validators : f # <<d, v>> => k2.starting[f] = k1.starting[f]
    BY <1>2, StartsDelegation
  <1> HIDE DEF k2
  <1>4. StoreHeights(k2, Delegations(s2), h)
    <2>1. ASSUME NEW f \in Delegations(s2)
          PROVE  k2.starting[f].height \in 0..h
      <3>1. f \in Delegators \X Validators
        BY DEF Delegations
      <3>2. CASE f = <<d, v>>
        BY <1>3, <3>2
      <3>3. CASE f # <<d, v>>
        <4>1. s2.shares[f] = s.shares[f]
          BY <1>1, <3>1, <3>3 DEF ChangesShares
        <4>2. f \in Delegations(s)
          BY <3>1, <4>1 DEF Delegations
        <4>3. kk.starting[f].height \in 0..h
          BY <4>2 DEF StateOK, StoreHeights
        <4> QED
          BY <1>2, <1>3, <3>1, <3>3, <4>3
      <3> QED
        BY <3>2, <3>3
    <2> QED
      BY <1>2, <1>3, <2>1 DEF StoreHeights, StateOK
  <1>5. Delegate([k |-> kk, st |-> s], d, v, amount, h) = [k |-> k2, st |-> s2]
    BY DEF Delegate, k2, k1, s2
  <1>6. Ends(kk, k2, v)
    BY <1>2, <1>3 DEF Ends
  <1>7. Unused(k2, s2)
    <2>1. Unused(k2, s)
      BY <1>3, <1>6, StaysUnused DEF StateOK
    <2> QED
      BY <1>1, <2>1 DEF Unused, ChangesShares
  <1> QED
    BY <1>1, <1>3, <1>4, <1>5, <1>6, <1>7 DEF StateOK, ChangesShares

\* A whole delegation is taken back.
LEMMA Unbonds ==
    ASSUME NEW kk, NEW s, NEW h \in Nat, StateOK(kk, s, h),
           NEW d \in Delegators, NEW v \in Validators, s.shares[<<d, v>>] > 0
    PROVE  LET unbound == Unbond([k |-> kk, st |-> s], d, v, h)
           IN  /\ StateOK(unbound.k, unbound.st, h)
               /\ ChangesShares(s, unbound.st, d, v)
               /\ Ends(kk, unbound.k, v)
               /\ s.tokens[v] - unbound.st.tokens[v] \in Nat
  <1> DEFINE s2 == RemoveDelShares(s, d, v)
             k1 == BeforeDelegation(kk, s, d, v, h)
  <1>1. /\ ChangesShares(s, s2, d, v)
        /\ s2.shares[<<d, v>>] = 0
        /\ s.tokens[v] - s2.tokens[v] \in Nat
    BY RemovesShares DEF StateOK
  <1>2. /\ StoreOK(k1)
        /\ k1.slashes = kk.slashes
        /\ Ends(kk, k1, v)
        /\ \A f \in Delegators \X Validators : f # <<d, v>> => k1.starting[f] = kk.starting[f]
    BY BeforeDelegationKeeps DEF StateOK
  <1> HIDE DEF k1, s2
  <1>3. StoreHeights(k1, Delegations(s2), h)
    <2>1. ASSUME NEW f \in Delegations(s2)
          PROVE  k1.starting[f].height \in 0..h
      <3>1. f \in Delegators \X Validators /\ f # <<d, v>>
        BY <1>1 DEF Delegations
      <3>2. s2.shares[f] = s.shares[f]
        BY <1>1, <3>1 DEF ChangesShares
      <3>3. f \in Delegations(s)
        BY <3>1, <3>2 DEF Delegations
      <3>4. kk.starting[f].height \in 0..h
        BY <3>3 DEF StateOK, StoreHeights
      <3> QED
        BY <1>2, <3>1, <3>4
    <2> QED
      BY <1>2, <2>1 DEF StoreHeights, StateOK
  <1>4. Unbond([k |-> kk, st |-> s], d, v, h) = [k |-> k1, st |-> s2]
    BY DEF Unbond, k1, s2
  <1>5. Unused(k1, s2)
    <2>1. s.status[v] # "none"
      BY DEF StateOK, StakingOK
    <2>2. Unused(k1, s)
      BY <1>2, <2>1, StaysUnused DEF StateOK
    <2> QED
      BY <1>1, <2>2 DEF Unused, ChangesShares
  <1> QED
    BY <1>1, <1>2, <1>3, <1>4, <1>5 DEF StateOK, ChangesShares

\* A validator is created.
LEMMA Creates ==
    ASSUME NEW kk, NEW s, NEW h \in Nat, StateOK(kk, s, h),
           NEW v \in Validators, s.status[v] = "none"
    PROVE  LET created == Create([k |-> kk, st |-> s], v, h)
           IN  /\ StateOK(created.k, created.st, h)
               /\ created.st.status = [s.status EXCEPT ![v] = "unbonded"]
               /\ created.st.jailed = s.jailed
               /\ created.st.unbondingHeight = s.unbondingHeight
               /\ created.st.index = s.index \cup {v}
               /\ \A w \in Validators : created.k.period[w] <= kk.period[w] + (IF w = v THEN 2 ELSE 0)
  <1> DEFINE s1 == [s EXCEPT !.status[v] = "unbonded", !.index = @ \cup {v}]
             k1 == initializeValidator(kk, v)
             o == Operator[v]
  <1>0. o \in Delegators /\ SelfDelegation \in Nat
    BY ExportAssumption
  <1>1. Keeps(kk, k1) /\ k1.period = [kk.period EXCEPT ![v] = 1]
    BY InitializesValidator DEF StateOK
  <1>2. s \in Stakings /\ StakingOK(s)
    BY DEF StateOK, StakingOK
  <1>3. /\ s1 \in Stakings
        /\ s1.status = [s.status EXCEPT ![v] = "unbonded"]
        /\ s1.index = s.index \cup {v}
        /\ s1.jailed = s.jailed /\ s1.unbondingHeight = s.unbondingHeight
        /\ s1.tokens = s.tokens /\ s1.shares = s.shares
    BY <1>2 DEF Stakings
  <1> HIDE DEF s1, k1
  <1>4. StakingOK(s1)
    BY <1>2, <1>3 DEF StakingOK, Stakings
  <1>5. Delegations(s1) = Delegations(s)
    BY <1>3 DEF Delegations
  <1>a. kk.period \in [Validators -> Nat]
    BY DEF StateOK, StoreOK
  <1>b. Unused(k1, s1)
    BY <1>1, <1>2, <1>3, <1>a DEF StateOK, Unused, Stakings
  <1>6. StateOK(k1, s1, h)
    BY <1>1, <1>4, <1>5, <1>b DEF StateOK, StoreHeights, Keeps
  <1>7. s1.status[v] # "none" /\ ~InvalidExRate(s1, v)
    <2>1. \A d \in Delegators : s1.shares[<<d, v>>] = 0
      BY <1>2, <1>3 DEF StakingOK
    <2>2. s1.shares \in [Delegators \X Validators -> Nat]
      BY <1>3 DEF Stakings
    <2>3. DelegatorShares(s1, v) = 0
      BY <2>1, <2>2, SharesBound
    <2> QED
      BY <1>2, <1>3, <2>3 DEF InvalidExRate, Stakings
  <1> DEFINE created == Delegate([k |-> k1, st |-> s1], o, v, SelfDelegation, h)
  <1>8. /\ StateOK(created.k, created.st, h)
        /\ ChangesShares(s1, created.st, o, v)
        /\ Ends(k1, created.k, v)
    <2> HIDE DEF o
    <2> QED
      BY <1>0, <1>6, <1>7, Delegates
  <1>9. Create([k |-> kk, st |-> s], v, h) = created
    BY DEF Create, k1, s1
  <1> HIDE DEF created, o
  <1>10. \A w \in Validators : created.k.period[w] <= kk.period[w] + (IF w = v THEN 2 ELSE 0)
    <2>1. created.k.period \in [Validators -> Nat]
      BY <1>8 DEF StateOK, StoreOK
    <2> QED
      BY <1>1, <1>8, <1>a, <2>1 DEF Ends
  <1> QED
    BY <1>3, <1>8, <1>9, <1>10 DEF ChangesShares
-----------------------------------------------------------------------------
(* The bonded validators.                                                  *)

\* The validators that a walk along the power index bonds.
Bonds(s) == {v \in Visited(s) : Power(s, v) > 0}

\* They are the ones that are bonded.
Settled(s) == \A v \in Validators : s.status[v] = "bonded" <=> v \in Bonds(s)

\* The power index and what the order along it depends on are the same.
SameIndex(s, s2) == s2.index = s.index /\ s2.tokens = s.tokens

\* They decide who is visited and who is bonded.
LEMMA IndexDecides ==
    ASSUME NEW s, NEW s2, SameIndex(s, s2)
    PROVE  /\ Visited(s2) = Visited(s)
           /\ Bonds(s2) = Bonds(s)
  <1>1. \A v : Power(s2, v) = Power(s, v)
    BY DEF Power, SameIndex
  <1>2. \A v, w : Before(s2, v, w) <=> Before(s, v, w)
    BY <1>1 DEF Before
  <1>3. Visited(s2) = Visited(s)
    BY <1>1, <1>2 DEF Visited, SameIndex
  <1> QED
    BY <1>1, <1>3 DEF Bonds

\* What an update of the validator set does: the bonded validators are those of
\* the walk, and the heights of the ones that are dropped are recorded.
LEMMA UpdatesBonded ==
    ASSUME NEW s, StakingOK(s), NEW h \in Nat
    PROVE  LET s2 == ApplyAndReturnValidatorSetUpdates(s, h)
           IN  /\ StakingOK(s2)
               /\ Settled(s2)
               /\ SameIndex(s, s2)
               /\ s2.jailed = s.jailed /\ s2.shares = s.shares
               /\ \A v \in Validators : s2.status[v] = "none" <=> s.status[v] = "none"
               /\ \A v \in Validators : s2.unbondingHeight[v] \in {s.unbondingHeight[v], h}
               /\ Settled(s) => s2.status = s.status /\ s2.unbondingHeight = s.unbondingHeight
  <1> DEFINE bonded == {v \in Visited(s) : Power(s, v) > 0}
             dropped == {v \in Validators : s.status[v] = "bonded"} \ bonded
             status == [v \in Validators |-> IF v \in bonded THEN "bonded"
                                             ELSE IF v \in dropped THEN "unbonding"
                                             ELSE s.status[v]]
             heights == [v \in Validators |-> IF v \in dropped THEN h ELSE s.unbondingHeight[v]]
             s2 == [s EXCEPT !.status = status, !.unbondingHeight = heights]
  <1>0. ApplyAndReturnValidatorSetUpdates(s, h) = s2
    BY DEF ApplyAndReturnValidatorSetUpdates
  <1>1. s \in Stakings
    BY DEF StakingOK
  <1>2. bonded \subseteq s.index
    BY DEF Visited
  <1> HIDE DEF bonded
  <1>3. status \in [Validators -> {"none", "unbonded", "bonded", "unbonding"}]
    BY <1>1 DEF Stakings
  <1>4. heights \in [Validators -> Nat]
    BY <1>1 DEF Stakings
  <1>5. \A v \in Validators : status[v] = "none" <=> s.status[v] = "none"
    BY <1>2 DEF StakingOK
  <1>6. \A v \in Validators : status[v] = "bonded" <=> v \in bonded
    OBVIOUS
  <1>7. \A v \in Validators : heights[v] \in {s.unbondingHeight[v], h}
    OBVIOUS
  <1>8. Settled(s) => status = s.status /\ heights = s.unbondingHeight
    <2> SUFFICES ASSUME Settled(s)
                 PROVE  status = s.status /\ heights = s.unbondingHeight
      OBVIOUS
    <2>1. dropped = {}
      BY DEF Settled, Bonds, bonded
    <2>2. \A v \in Validators : status[v] = s.status[v]
      BY <2>1 DEF Settled, Bonds, bonded
    <2>3. \A v \in Validators : heights[v] = s.unbondingHeight[v]
      BY <2>1
    <2> HIDE DEF status, heights, dropped
    <2> QED
      BY <1>1, <1>3, <1>4, <2>2, <2>3 DEF Stakings
  <1> HIDE DEF status, heights, dropped
  <1>9. /\ s2 \in Stakings
        /\ s2.status = status /\ s2.unbondingHeight = heights
        /\ s2.jailed = s.jailed /\ s2.shares = s.shares
        /\ s2.tokens = s.tokens /\ s2.index = s.index
    BY <1>1, <1>3, <1>4 DEF Stakings
  <1> HIDE DEF s2
  <1>10. StakingOK(s2)
    BY <1>5, <1>9 DEF StakingOK
  <1>11. SameIndex(s, s2)
    BY <1>9 DEF SameIndex
  <1>12. Settled(s2)
    <2>1. Bonds(s2) = bonded
      BY <1>11, IndexDecides DEF Bonds, bonded
    <2> QED
      BY <1>6, <1>9, <2>1 DEF Settled
  <1> QED
    BY <1>0, <1>5, <1>7, <1>8, <1>9, <1>10, <1>11, <1>12

\* Powers are natural numbers, and the index is ordered by them.
LEMMA PowerNat ==
    ASSUME NEW s \in Stakings, NEW v \in Validators
    PROVE  Power(s, v) \in Nat /\ v \in Nat
  <1>1. s.tokens[v] \in Nat /\ PowerReduction \in Nat /\ PowerReduction > 0 /\ v \in Nat
    BY ExportAssumption DEF Stakings
  <1> QED
    BY <1>1, Division DEF Power

\* The order along the index is strict and total.
LEMMA Ordered ==
    ASSUME NEW s \in Stakings, NEW u \in Validators, NEW v \in Validators, NEW w \in Validators
    PROVE  /\ ~Before(s, u, u)
           /\ Before(s, u, v) /\ Before(s, v, w) => Before(s, u, w)
           /\ u = v \/ Before(s, u, v) \/ Before(s, v, u)
  <1>1. /\ Power(s, u) \in Nat /\ Power(s, v) \in Nat /\ Power(s, w) \in Nat
        /\ u \in Nat /\ v \in Nat /\ w \in Nat
    BY PowerNat
  <1> QED
    BY <1>1 DEF Before
\* Some validators have a first one.
LEMMA First ==
    ASSUME NEW s \in Stakings, NEW J \in SUBSET Validators, J # {}
    PROVE  \E w \in J : \A u \in J : ~Before(s, u, w)
  <1> DEFINE first(T) == \E w \in T : \A u \in T : ~Before(s, u, w)
             F == {T \in SUBSET J : T # {} => first(T)}
  <1>1. Shares!IsFiniteSet(J)
    <2>1. IsFiniteSet(J)
      BY ExportAssumption, FS_Subset
    <2> QED
      BY <2>1 DEF IsFiniteSet, Shares!IsFiniteSet
  <1>2. ASSUME NEW T \in SUBSET J, \A x \in T : T \ {x} \in F
        PROVE  T \in F
    <2> SUFFICES ASSUME T # {} PROVE first(T)
      OBVIOUS
    <2>1. PICK x \in T : TRUE
      OBVIOUS
    <2>2. T \subseteq Validators
      OBVIOUS
    <2>3. CASE T = {x}
      BY <2>2, <2>3, Ordered
    <2>4. CASE T # {x}
      <3>1. PICK m \in T \ {x} : \A u \in T \ {x} : ~Before(s, u, m)
        BY <1>2, <2>1, <2>4
      <3>2. CASE Before(s, x, m)
        <4>1. ~Before(s, x, x)
          BY <2>2, Ordered
        <4>2. \A u \in T \ {x} : ~Before(s, u, x)
          BY <2>2, <3>1, <3>2, Ordered
        <4> QED
          BY <4>1, <4>2
      <3>3. CASE ~Before(s, x, m)
        BY <3>1, <3>3
      <3> QED
        BY <3>2, <3>3
    <2> QED
      BY <2>3, <2>4
  <1>3. F \in SUBSET (SUBSET J)
    OBVIOUS
  <1> HIDE DEF F, first
  <1>4. J \in F
    BY <1>1, <1>2, <1>3, Shares!FiniteInduction
  <1> QED
    BY <1>4 DEF F, first

\* When the walk meets no jailed validator, the same validators are bonded with
\* the jailed ones taken out of the index.
LEMMA JailedDoNotMatter ==
    ASSUME NEW s \in Stakings, ~JailedVisited(s), NEW s2 \in Stakings,
           s2.tokens = s.tokens, s2.index = {v \in s.index : ~s.jailed[v]}
    PROVE  Visited(s2) = Visited(s) /\ Bonds(s2) = Bonds(s)
  <1>0. s.index \subseteq Validators /\ IsFiniteSet(Validators)
    BY ExportAssumption DEF Stakings
  <1>1. \A v : Power(s2, v) = Power(s, v)
    BY DEF Power
  <1>2. \A v, w : Before(s2, v, w) <=> Before(s, v, w)
    BY <1>1 DEF Before
  <1> DEFINE Ahead(v) == {w \in s.index : Before(s, w, v)}
             Ahead2(v) == {w \in s2.index : Before(s, w, v)}
             Near(A) == Cardinality(A) < MaxValidators /\ \A w \in A : Power(s, w) > 0
  <1>3. /\ \A v : v \in Visited(s) <=> v \in s.index /\ Near(Ahead(v))
        /\ \A v : v \in Visited(s2) <=> v \in s2.index /\ Near(Ahead2(v))
    BY <1>1, <1>2 DEF Visited
  <1>4. ASSUME NEW A \in SUBSET s.index, NEW B \in SUBSET A, Near(A)
        PROVE  Near(B)
    <2>1. IsFiniteSet(A) /\ IsFiniteSet(B)
      BY <1>0, FS_Subset
    <2>2. Cardinality(B) <= Cardinality(A) /\ Cardinality(A) \in Nat /\ Cardinality(B) \in Nat
      BY <2>1, FS_Subset, FS_CardinalityType
    <2>3. MaxValidators \in Nat
      BY ExportAssumption
    <2> QED
      BY <1>4, <2>2, <2>3
  <1>5. \A v : Ahead2(v) \subseteq Ahead(v) /\ Ahead(v) \subseteq s.index
    OBVIOUS
  <1>6. ASSUME NEW v \in Visited(s)
        PROVE  v \in Visited(s2)
    <2>1. v \in s2.index
      BY <1>3 DEF JailedVisited
    <2>2. Near(Ahead(v))
      BY <1>3
    <2> HIDE DEF Near, Ahead, Ahead2
    <2>3. Near(Ahead2(v))
      BY <1>4, <1>5, <2>2
    <2> QED
      BY <1>3, <2>1, <2>3
  <1>7. ASSUME NEW v \in Visited(s2)
        PROVE  v \in Visited(s)
    <2> DEFINE J == {w \in Ahead(v) : s.jailed[w]}
    <2>1. v \in s.index /\ Near(Ahead2(v))
      BY <1>3
    <2>2. J = {}
      <3> SUFFICES ASSUME J # {} PROVE FALSE
        OBVIOUS
      <3>1. J \in SUBSET Validators
        BY <1>0
      <3>2. PICK w \in J : \A u \in J : ~Before(s, u, w)
        <4> HIDE DEF J
        <4> QED
          BY <3>1, First
      <3>3. v \in Validators /\ w \in Validators /\ w \in s.index /\ Before(s, w, v) /\ s.jailed[w]
        BY <1>0, <2>1
      <3>4. Ahead(w) \subseteq Ahead2(v)
        <4> SUFFICES ASSUME NEW u \in s.index, Before(s, u, w)
                     PROVE  ~s.jailed[u] /\ Before(s, u, v)
          OBVIOUS
        <4>1. Before(s, u, v)
          BY <1>0, <3>3, Ordered
        <4> QED
          BY <3>2, <4>1
      <3>5. Near(Ahead(w))
        <4> HIDE DEF Near, Ahead
        <4>1. Ahead2(v) \subseteq s.index
          OBVIOUS
        <4> HIDE DEF Ahead2
        <4> QED
          BY <1>4, <2>1, <3>4, <4>1
      <3>6. w \in Visited(s)
        <4> HIDE DEF Near, Ahead
        <4> QED
          BY <1>3, <3>3, <3>5
      <3> QED
        BY <3>3, <3>6 DEF JailedVisited
    <2>3. Ahead(v) = Ahead2(v)
      BY <2>2
    <2> HIDE DEF Near, Ahead, Ahead2
    <2> QED
      BY <1>3, <2>1, <2>3
  <1>8. Visited(s2) = Visited(s)
    BY <1>6, <1>7
  <1> QED
    BY <1>1, <1>8 DEF Bonds
-----------------------------------------------------------------------------
(* The folds of genesis and of the export.                                 *)

CreateStep(c, v, state) == Create(state, v, 0)

\* The validators in T are created, none of them in jail, and no other.
CreatesAll(c, T, state) ==
    /\ state = [k |-> state.k, st |-> state.st]
    /\ StateOK(state.k, state.st, 0)
    /\ \A v \in Validators :
          /\ v \notin T => state.st.status[v] = "none"
          /\ ~state.st.jailed[v]
          /\ state.st.unbondingHeight[v] = 0
          /\ state.k.period[v] <= 2

Genesis == INSTANCE FoldTheorems WITH Step <- CreateStep, Pick <- Chosen, P <- CreatesAll

\* The first genesis.
LEMMA GenesisCreates ==
    LET genesis == FoldSet(LAMBDA v, s : Create(s, v, 0),
                           [k |-> EmptyStore, st |-> NoStaking], InitialValidators)
    IN  CreatesAll(0, InitialValidators, genesis)
  <1> DEFINE base == [k |-> EmptyStore, st |-> NoStaking]
  <1>1. CreatesAll(0, {}, base)
    <2>1. StakingOK(NoStaking)
      BY DEF NoStaking, StakingOK, Stakings
    <2>2. StoreOK(EmptyStore)
      BY DEF EmptyStore, StoreOK
    <2>3. StoreHeights(EmptyStore, Delegations(NoStaking), 0)
      BY DEF EmptyStore, NoStaking, StoreHeights, Delegations
    <2>4. \A v \in Validators :
            /\ NoStaking.status[v] = "none" /\ ~NoStaking.jailed[v] /\ NoStaking.unbondingHeight[v] = 0
            /\ EmptyStore.period[v] = 0
      BY DEF NoStaking, EmptyStore
    <2> QED
      BY <2>1, <2>2, <2>3, <2>4 DEF CreatesAll, StateOK, Unused
  <1>2. ASSUME NEW T \in SUBSET InitialValidators, NEW v \in T, NEW a, CreatesAll(0, T \ {v}, a)
        PROVE  CreatesAll(0, T, CreateStep(0, v, a))
    <2>0. v \in Validators /\ T \subseteq Validators /\ 0 \in Nat
      BY ExportAssumption
    <2> DEFINE kk == a.k
               s == a.st
               created == Create([k |-> kk, st |-> s], v, 0)
    <2>1. /\ a = [k |-> kk, st |-> s]
          /\ StateOK(kk, s, 0)
          /\ s.status[v] = "none"
          /\ \A w \in Validators : /\ w \notin T => s.status[w] = "none"
                                   /\ ~s.jailed[w] /\ s.unbondingHeight[w] = 0
                                   /\ kk.period[w] <= 2
      BY <1>2, <2>0 DEF CreatesAll
    <2> HIDE DEF kk, s
    <2>2. /\ StateOK(created.k, created.st, 0)
          /\ created.st.status = [s.status EXCEPT ![v] = "unbonded"]
          /\ created.st.jailed = s.jailed
          /\ created.st.unbondingHeight = s.unbondingHeight
          /\ created.st.index = s.index \cup {v}
          /\ \A w \in Validators : created.k.period[w] <= kk.period[w] + (IF w = v THEN 2 ELSE 0)
      BY <2>0, <2>1, Creates
    <2>3. CreateStep(0, v, a) = created
      BY <2>1 DEF CreateStep
    <2>4. created = [k |-> created.k, st |-> created.st]
      BY DEF Create, Delegate
    <2> HIDE DEF created
    <2>5. \A w \in Validators : w \notin T => created.st.status[w] = "none"
      BY <2>0, <2>1, <2>2 DEF StateOK, StakingOK, Stakings
    <2>6. \A w \in Validators : created.k.period[w] <= 2
      <3>1. kk.period \in [Validators -> Nat] /\ created.k.period \in [Validators -> Nat]
        BY <2>1, <2>2 DEF StateOK, StoreOK
      <3>2. kk.period[v] = 0
        BY <2>0, <2>1 DEF StateOK, Unused
      <3> QED
        BY <2>1, <2>2, <3>1, <3>2
    <2> QED
      BY <2>1, <2>2, <2>3, <2>4, <2>5, <2>6 DEF CreatesAll
  <1>3. Genesis!Inductive(0, base, InitialValidators)
    BY <1>1, <1>2 DEF Genesis!Inductive, Genesis!Picks, Chosen
  <1>4. Genesis!IsFiniteSet(InitialValidators)
    <2>1. IsFiniteSet(InitialValidators)
      BY ExportAssumption, FS_Subset
    <2> QED
      BY <2>1 DEF IsFiniteSet, Genesis!IsFiniteSet
  <1> HIDE DEF base
  <1>5. CreatesAll(0, InitialValidators, Genesis!Fold(0, base, InitialValidators))
    BY <1>3, <1>4, Genesis!FoldInduction
  <1>6. FoldSet(LAMBDA v, s : Create(s, v, 0), base, InitialValidators)
            = Genesis!Fold(0, base, InitialValidators)
    BY DEF FoldSet, MapThenFoldSet, Genesis!Fold, Chosen, CreateStep
  <1> QED
    BY <1>5, <1>6 DEF base

\* The delegations are finitely many.
LEMMA DelegationsFinite ==
    ASSUME NEW s
    PROVE  IsFiniteSet(Delegations(s)) /\ Delegations(s) \subseteq Delegators \X Validators
  <1>1. IsFiniteSet(Delegators \X Validators)
    BY ExportAssumption, FS_Product
  <1>2. Delegations(s) \subseteq Delegators \X Validators
    BY DEF Delegations
  <1> QED
    BY <1>1, <1>2, FS_Subset

CommissionStep(c, v, kk) == WithdrawValidatorCommission(kk, v)
RewardStep(c, e, kk) == WithdrawDelegationRewards(kk, c.st, e[1], e[2], c.height)
ValidatorStep(c, v, kk) == initializeValidator([kk EXCEPT !.pool = @ + kk.outstanding[v]], v)
DelegationStep(c, e, kk) ==
    initializeDelegation(IncrementValidatorPeriod(kk, c, e[2]), c, e[1], e[2], 0)

\* What holds after each of them, of all that T has been through.
StoreKept(c, T, kk) == StoreOK(kk) /\ Unused(kk, c.st)
Slashless(kk) == \A v \in Validators : kk.slashes[v] = {}
PeriodsBegin(c, T, kk) ==
    /\ StoreOK(kk) /\ Unused(kk, c) /\ Slashless(kk)
    /\ \A v \in T : kk.period[v] = 1
StartsAtZero(c, T, kk) ==
    /\ StoreOK(kk) /\ Unused(kk, c) /\ Slashless(kk)
    /\ \A e \in T : kk.starting[e].height = 0
    /\ \A v \in Validators : kk.period[v] <= 1 + Cardinality({e \in T : e[2] = v})

Commissions == INSTANCE FoldTheorems WITH Step <- CommissionStep, Pick <- Chosen, P <- StoreKept
DelegationRewards == INSTANCE FoldTheorems WITH Step <- RewardStep, Pick <- Chosen, P <- StoreKept
NewValidators == INSTANCE FoldTheorems WITH Step <- ValidatorStep, Pick <- Chosen, P <- PeriodsBegin
NewDelegations == INSTANCE FoldTheorems WITH Step <- DelegationStep, Pick <- Chosen, P <- StartsAtZero

\* The withdrawals of the export.
LEMMA WithdrawsAll ==
    ASSUME NEW kk, StoreOK(kk), NEW s, StakingOK(s), Unused(kk, s),
           NEW S \in SUBSET Validators, NEW h
    PROVE  StoreOK(WithdrawAll(kk, s, S, h)) /\ Unused(WithdrawAll(kk, s, S, h), s)
  <1> DEFINE D == Delegations(s)
             c == [st |-> s, height |-> h]
             commissions == FoldSet(LAMBDA v, a : WithdrawValidatorCommission(a, v), kk, S)
  <1>1. Commissions!IsFiniteSet(S)
    <2>1. IsFiniteSet(S)
      BY ExportAssumption, FS_Subset
    <2> QED
      BY <2>1 DEF IsFiniteSet, Commissions!IsFiniteSet
  <1>2. Commissions!Inductive(c, kk, S)
    <2>1. ASSUME NEW T \in SUBSET S, NEW v \in T, NEW a, StoreKept(c, T \ {v}, a)
          PROVE  StoreKept(c, T, CommissionStep(c, v, a))
      BY <2>1, WithdrawsCommission DEF StoreKept, CommissionStep, Keeps, Unused
    <2> QED
      BY <2>1 DEF Commissions!Inductive, Commissions!Picks, Chosen, StoreKept
  <1>3. StoreKept(c, S, Commissions!Fold(c, kk, S))
    <2> HIDE DEF c
    <2> QED
      BY <1>1, <1>2, Commissions!FoldInduction
  <1>4. commissions = Commissions!Fold(c, kk, S)
    BY DEF FoldSet, MapThenFoldSet, Commissions!Fold, Chosen, CommissionStep
  <1>5. StoreKept(c, S, commissions)
    BY <1>3, <1>4
  <1>6. WithdrawAll(kk, s, S, h) =
            FoldSet(LAMBDA e, a : WithdrawDelegationRewards(a, s, e[1], e[2], h), commissions, D)
    BY DEF WithdrawAll
  <1> HIDE DEF commissions
  <1>7. WithdrawAll(kk, s, S, h) = DelegationRewards!Fold(c, commissions, D)
    BY <1>6 DEF FoldSet, MapThenFoldSet, DelegationRewards!Fold, Chosen, RewardStep
  <1>8. DelegationRewards!IsFiniteSet(D)
    <2>1. IsFiniteSet(D)
      BY DelegationsFinite
    <2> QED
      BY <2>1 DEF IsFiniteSet, DelegationRewards!IsFiniteSet
  <1>9. ASSUME NEW T \in SUBSET D, NEW e \in T, NEW a, StoreKept(c, T \ {e}, a)
        PROVE  StoreKept(c, T, RewardStep(c, e, a))
    <2>1. e[1] \in Delegators /\ e[2] \in Validators
      BY DelegationsFinite
    <2> DEFINE v == e[2]
               b == WithdrawDelegationRewards(a, s, e[1], v, h)
    <2>2. StoreOK(b) /\ Ends(a, b, v)
      BY <1>9, <2>1, RestartsDelegation DEF StoreKept
    <2>3. s.status[v] # "none"
      <3>1. e = <<e[1], e[2]>> /\ s.shares[e] > 0
        BY DelegationsFinite DEF Delegations
      <3> QED
        BY <2>1, <3>1 DEF StakingOK
    <2>4. StoreOK(a) /\ Unused(a, s)
      BY <1>9 DEF StoreKept
    <2>5. RewardStep(c, e, a) = b
      BY DEF RewardStep
    <2> HIDE DEF b
    <2>6. Unused(b, s)
      <3> HIDE DEF v
      <3>1. v \in Validators
        BY <2>1 DEF v
      <3> QED
        BY <2>2, <2>3, <2>4, <3>1, StaysUnused
    <2> QED
      BY <2>2, <2>5, <2>6 DEF StoreKept
  <1>10. DelegationRewards!Inductive(c, commissions, D)
    <2>1. StoreKept(c, {}, commissions)
      BY <1>5 DEF StoreKept
    <2> QED
      BY <1>9, <2>1 DEF DelegationRewards!Inductive, DelegationRewards!Picks, Chosen
  <1> HIDE DEF c, D
  <1>11. StoreKept(c, D, DelegationRewards!Fold(c, commissions, D))
    BY <1>8, <1>10, DelegationRewards!FoldInduction
  <1> QED
    BY <1>7, <1>11 DEF StoreKept, c

\* One delegation more to its validator.
LEMMA DelegationsTo ==
    ASSUME NEW T \in SUBSET (Delegators \X Validators), NEW e \in T, NEW v \in Validators
    PROVE  /\ Cardinality({f \in T : f[2] = v}) \in Nat
           /\ Cardinality({f \in T : f[2] = v}) =
                Cardinality({f \in T \ {e} : f[2] = v}) + (IF v = e[2] THEN 1 ELSE 0)
           /\ Cardinality({f \in T \ {e} : f[2] = v}) \in Nat
  <1> DEFINE A == {f \in T \ {e} : f[2] = v}
             B == {f \in T : f[2] = v}
  <1>1. IsFiniteSet(Delegators \X Validators)
    BY ExportAssumption, FS_Product
  <1>2. A \subseteq Delegators \X Validators /\ B \subseteq Delegators \X Validators /\ e \notin A
    OBVIOUS
  <1>3. (v = e[2] => B = A \cup {e}) /\ (v # e[2] => B = A)
    OBVIOUS
  <1> HIDE DEF A, B
  <1>4. IsFiniteSet(A) /\ IsFiniteSet(B)
    BY <1>1, <1>2, FS_Subset
  <1>5. Cardinality(A) \in Nat /\ Cardinality(B) \in Nat
    BY <1>4, FS_CardinalityType
  <1>6. Cardinality(A \cup {e}) = Cardinality(A) + 1
    BY <1>2, <1>4, FS_AddElement
  <1>7. Cardinality(B) = Cardinality(A) + (IF v = e[2] THEN 1 ELSE 0)
    BY <1>3, <1>5, <1>6
  <1> QED
    BY <1>5, <1>7 DEF A, B

\* A validator has no more delegations than there are delegators.
LEMMA DelegationsBound ==
    ASSUME NEW s, NEW v \in Validators
    PROVE  /\ Cardinality({e \in Delegations(s) : e[2] = v}) \in Nat
           /\ Cardinality({e \in Delegations(s) : e[2] = v}) <= Cardinality(Delegators)
           /\ Cardinality(Delegators) \in Nat
  <1> DEFINE A == {e \in Delegations(s) : e[2] = v}
             B == Delegators \X {v}
  <1>1. IsFiniteSet(Delegators) /\ Cardinality(Delegators) \in Nat
    BY ExportAssumption, FS_CardinalityType
  <1>2. IsFiniteSet({v}) /\ Cardinality({v}) = 1
    BY FS_Singleton
  <1>3. IsFiniteSet(B) /\ Cardinality(B) = Cardinality(Delegators) * 1
    <2> DEFINE V == {v}
    <2>1. IsFiniteSet(V) /\ Cardinality(V) = 1
      BY <1>2
    <2> HIDE DEF V
    <2>2. /\ IsFiniteSet(Delegators \X V)
          /\ Cardinality(Delegators \X V) = Cardinality(Delegators) * Cardinality(V)
      BY <1>1, <2>1, FS_Product
    <2> QED
      BY <2>1, <2>2 DEF V
  <1>4. A \subseteq B
    BY DEF Delegations
  <1> HIDE DEF A, B
  <1>5. IsFiniteSet(A) /\ Cardinality(A) <= Cardinality(B)
    BY <1>3, <1>4, FS_Subset
  <1>6. Cardinality(A) \in Nat
    BY <1>5, FS_CardinalityType
  <1> QED
    BY <1>1, <1>3, <1>5, <1>6 DEF A

\* Validators and delegations are set up anew, with no slash on record, all
\* delegations started at height zero and one period for each of them.
LEMMA SetsUpAnew ==
    ASSUME StoreOK(k), StakingOK(st), Unused(k, st)
    PROVE  StartsAtZero(st, Delegations(st), ExportedDistribution)
  <1> DEFINE withdrawn == WithdrawAll(k, st, Created, height)
             cleared == ClearHistory(withdrawn)
             validators == ReinitializeValidators(cleared, Created)
             D == Delegations(st)
  <1>0. Created \subseteq Validators
    BY DEF Created, CreatedIn
  <1>1. StoreOK(withdrawn) /\ Unused(withdrawn, st)
    BY <1>0, WithdrawsAll
  <1> HIDE DEF withdrawn
  <1>2. PeriodsBegin(st, {}, cleared)
    <2>1. StoreOK(cleared) /\ Slashless(cleared) /\ cleared.period = withdrawn.period
      BY <1>1 DEF ClearHistory, StoreOK, Slashless
    <2> QED
      BY <1>1, <2>1 DEF PeriodsBegin, Unused
  <1> HIDE DEF cleared
  <1>3. ASSUME NEW T \in SUBSET Created, NEW v \in T, NEW a, PeriodsBegin(st, T \ {v}, a)
        PROVE  PeriodsBegin(st, T, ValidatorStep(st, v, a))
    <2> DEFINE a2 == [a EXCEPT !.pool = @ + a.outstanding[v]]
               a3 == initializeValidator(a2, v)
    <2>1. StoreOK(a2) /\ a2.slashes = a.slashes /\ a2.period = a.period
      BY <1>3 DEF PeriodsBegin, StoreOK
    <2> HIDE DEF a2
    <2>2. Keeps(a2, a3) /\ a3.period = [a2.period EXCEPT ![v] = 1]
      BY <1>0, <2>1, InitializesValidator
    <2>3. ValidatorStep(st, v, a) = a3
      BY DEF ValidatorStep, a2
    <2> HIDE DEF a3
    <2>4. \A w \in Validators : a3.period[w] = IF w = v THEN 1 ELSE a.period[w]
      BY <1>0, <2>1, <2>2 DEF StoreOK
    <2>5. v \in Validators /\ st.status[v] # "none" /\ T \subseteq Validators
      BY <1>0 DEF Created, CreatedIn
    <2>6. Unused(a3, st)
      BY <1>3, <2>4, <2>5 DEF PeriodsBegin, Unused
    <2>7. \A w \in T : a3.period[w] = 1
      BY <1>3, <2>4, <2>5 DEF PeriodsBegin
    <2>8. StoreOK(a3) /\ Slashless(a3)
      BY <1>3, <2>1, <2>2 DEF PeriodsBegin, Slashless, Keeps
    <2> QED
      BY <2>3, <2>6, <2>7, <2>8 DEF PeriodsBegin
  <1>4. NewValidators!Inductive(st, cleared, Created)
    BY <1>2, <1>3 DEF NewValidators!Inductive, NewValidators!Picks, Chosen
  <1>5. NewValidators!IsFiniteSet(Created)
    <2>1. IsFiniteSet(Created)
      BY <1>0, ExportAssumption, FS_Subset
    <2> QED
      BY <2>1 DEF IsFiniteSet, NewValidators!IsFiniteSet
  <1>6. PeriodsBegin(st, Created, validators)
    <2>1. PeriodsBegin(st, Created, NewValidators!Fold(st, cleared, Created))
      BY <1>4, <1>5, NewValidators!FoldInduction
    <2>2. validators = NewValidators!Fold(st, cleared, Created)
      BY DEF ReinitializeValidators, FoldSet, MapThenFoldSet, NewValidators!Fold, Chosen, ValidatorStep
    <2> QED
      BY <2>1, <2>2
  <1> HIDE DEF validators
  <1>7. ASSUME NEW T \in SUBSET D, NEW e \in T, NEW a, StartsAtZero(st, T \ {e}, a)
        PROVE  StartsAtZero(st, T, DelegationStep(st, e, a))
    <2>1. e \in Delegators \X Validators /\ T \subseteq Delegators \X Validators /\ st.shares[e] > 0
      BY DelegationsFinite DEF Delegations
    <2> DEFINE d == e[1]
               v == e[2]
               a1 == IncrementValidatorPeriod(a, st, v)
               a2 == initializeDelegation(a1, st, d, v, 0)
               n(w) == Cardinality({f \in T \ {e} : f[2] = w})
               m(w) == Cardinality({f \in T : f[2] = w})
    <2>2. d \in Delegators /\ v \in Validators /\ e = <<d, v>>
      BY <2>1
    <2>3. \A w \in Validators : n(w) \in Nat /\ m(w) = n(w) + (IF w = v THEN 1 ELSE 0)
      BY <2>1, DelegationsTo
    <2>4. \A w \in Validators : a.period[w] <= 1 + n(w)
      BY <1>7 DEF StartsAtZero
    <2>a. StoreOK(a) /\ Unused(a, st) /\ Slashless(a) /\ \A f \in T \ {e} : a.starting[f].height = 0
      BY <1>7 DEF StartsAtZero
    <2>b. StartsAtZero(st, T, a2) <=>
            /\ StoreOK(a2) /\ Unused(a2, st) /\ Slashless(a2)
            /\ \A f \in T : a2.starting[f].height = 0
            /\ \A w \in Validators : a2.period[w] <= 1 + m(w)
      BY DEF StartsAtZero
    <2>5. DelegationStep(st, e, a) = a2
      BY DEF DelegationStep
    <2> HIDE DEF d, v, n, m
    <2>6. Keeps(a, a1) /\ Ends(a, a1, v)
      BY <2>2, <2>a, EndsPeriod
    <2> HIDE DEF a1
    <2>7. /\ StoreOK(a2)
          /\ a2.slashes = a1.slashes
          /\ a2.period = a1.period
          /\ a2.starting[<<d, v>>].height = 0
          /\ \A f \in Delegators \X Validators : f # <<d, v>> => a2.starting[f] = a1.starting[f]
      BY <2>2, <2>6, StartsDelegation DEF Keeps
    <2> HIDE DEF a2
    <2>8. \A f \in T : a2.starting[f].height = 0
      BY <2>1, <2>2, <2>6, <2>7, <2>a DEF Keeps
    <2>9. Slashless(a2)
      BY <2>6, <2>7, <2>a DEF Slashless, Keeps
    <2>10. Ends(a, a2, v)
      BY <2>6, <2>7 DEF Ends
    <2>11. Unused(a2, st)
      <3>1. st.status[v] # "none"
        BY <2>1, <2>2 DEF StakingOK
      <3> QED
        BY <2>2, <2>7, <2>10, <2>a, <3>1, StaysUnused
    <2>12. \A w \in Validators : a2.period[w] <= 1 + m(w)
      <3> SUFFICES ASSUME NEW w \in Validators PROVE a2.period[w] <= 1 + m(w)
        OBVIOUS
      <3>1. a2.period[w] \in Nat /\ a.period[w] \in Nat
        BY <2>7, <2>a DEF StoreOK
      <3>2. a2.period[w] <= a.period[w] + (IF w = v THEN 1 ELSE 0)
        BY <2>10 DEF Ends
      <3> QED
        BY <2>3, <2>4, <3>1, <3>2
    <2> QED
      BY <2>5, <2>7, <2>8, <2>9, <2>11, <2>12, <2>b
  <1>8. StartsAtZero(st, {}, validators)
    <2>1. \A v \in Validators : validators.period[v] <= 1
      BY <1>6 DEF PeriodsBegin, Unused, Created, CreatedIn
    <2>2. \A v \in Validators : Cardinality({e \in {} : e[2] = v}) = 0
      <3>1. \A v \in Validators : {e \in {} : e[2] = v} = {}
        OBVIOUS
      <3> QED
        BY <3>1, FS_EmptySet
    <2> QED
      BY <1>6, <2>1, <2>2 DEF StartsAtZero, PeriodsBegin
  <1>9. NewDelegations!Inductive(st, validators, D)
    BY <1>7, <1>8 DEF NewDelegations!Inductive, NewDelegations!Picks, Chosen
  <1>10. NewDelegations!IsFiniteSet(D)
    <2>1. IsFiniteSet(D)
      BY DelegationsFinite
    <2> QED
      BY <2>1 DEF IsFiniteSet, NewDelegations!IsFiniteSet
  <1>11. ExportedDistribution = ReinitializeDelegations(validators)
    BY DEF ExportedDistribution, validators, cleared, withdrawn
  <1>12. ReinitializeDelegations(validators) = NewDelegations!Fold(st, validators, D)
    BY DEF ReinitializeDelegations, FoldSet, MapThenFoldSet, NewDelegations!Fold, Chosen, DelegationStep
  <1> HIDE DEF D
  <1>13. StartsAtZero(st, D, NewDelegations!Fold(st, validators, D))
    BY <1>9, <1>10, NewDelegations!FoldInduction
  <1> QED
    BY <1>11, <1>12, <1>13 DEF D
-----------------------------------------------------------------------------
(* The inductive invariant.                                                *)

Entries ==
    [kind : {"unbonding", "redelegation"}, d : Delegators, src : Validators, dst : Validators,
     height : Nat]

\* Between blocks the bonded validators are those of the walk along the power
\* index.  An export leaves validators that it jails in the index, but behind
\* the ones that are walked along.
BondsInv(s, p) ==
    /\ p \in {"committed", "exported", "failed"} => Settled(s)
    /\ IF p = "exported" THEN ~JailedVisited(s) ELSE \A v \in s.index : ~s.jailed[v]

\* Records of heights that do not lie ahead.
RecordsInv(s, es, infos, h) ==
    /\ es \subseteq Entries
    /\ \A e \in es : e.height <= h
    /\ infos \in [Validators -> {NoHeight} \cup Nat]
    /\ \A v \in Validators : infos[v] <= h /\ s.unbondingHeight[v] <= h

\* Periods so far, n transactions later: two at most when a chain starts, or one
\* for the validator and one for each delegation, then one with each transaction
\* and one in each block, when the validator is slashed.
Begun == 2 + Cardinality(Delegators)

PeriodsInv(kk, s, p, h, n) ==
    \A v \in Validators :
        /\ kk.period[v] <= Begun + n + h
        /\ p \in {"begun", "txs"} /\ s.status[v] = "bonded" /\ ~s.jailed[v] =>
              kk.period[v] <= Begun + n + h - 1

CountersInv ==
    /\ phase \in {"begun", "txs", "committed", "exported", "failed"}
    /\ height \in 0..MaxHeight /\ txs \in 0..MaxTxs /\ exports \in 0..MaxExports
    /\ allow \in AllowLists \cup {{}}

ExportInv ==
    /\ CountersInv
    /\ StateOK(k, st, height)
    /\ BondsInv(st, phase)
    /\ RecordsInv(st, entries, start, height)
    /\ PeriodsInv(k, st, phase, height, txs)

\* The numbers that periods are counted in.
LEMMA PeriodsNat ==
    ASSUME ExportInv
    PROVE  /\ Begun \in Nat /\ Begun >= 2 /\ txs \in Nat /\ height \in Nat
           /\ k.period \in [Validators -> Nat]
  <1>1. Cardinality(Delegators) \in Nat
    BY ExportAssumption, FS_CardinalityType
  <1> QED
    BY <1>1, ExportAssumption DEF Begun, ExportInv, CountersInv, StateOK, StoreOK

\* Periods and the validators that have none are the same.
LEMMA UnusedSame ==
    ASSUME NEW k1, NEW k2, NEW s, NEW s2, Unused(k1, s), k2.period = k1.period,
           \A v \in Validators : s2.status[v] = "none" => s.status[v] = "none"
    PROVE  Unused(k2, s2)
  BY DEF Unused

\* An index without jailed validators.
LEMMA NoneJailed ==
    ASSUME NEW s, \A v \in s.index : ~s.jailed[v]
    PROVE  ~JailedVisited(s)
  BY DEF JailedVisited, Visited

\* A signing info is kept or starts now.
LEMMA InfosStart ==
    ASSUME NEW s, NEW infos \in [Validators -> {NoHeight} \cup Nat], NEW h \in Nat,
           \A v \in Validators : infos[v] <= h
    PROVE  /\ SigningInfos(s, infos, h) \in [Validators -> {NoHeight} \cup Nat]
           /\ \A v \in Validators : SigningInfos(s, infos, h)[v] <= h
  BY DEF SigningInfos

\* The first genesis satisfies it.
LEMMA ExportInvInit == Init => ExportInv
  <1> SUFFICES ASSUME Init PROVE ExportInv
    OBVIOUS
  <1> DEFINE genesis == FoldSet(LAMBDA v, s : Create(s, v, 0),
                                [k |-> EmptyStore, st |-> NoStaking], InitialValidators)
             s0 == genesis.st
  <1>1. CreatesAll(0, InitialValidators, genesis)
    BY GenesisCreates
  <1>2. k = genesis.k /\ st = ApplyAndReturnValidatorSetUpdates(s0, 0)
    BY DEF Init
  <1> HIDE DEF genesis
  <1>3. /\ StateOK(k, s0, 0)
        /\ \A v \in Validators : ~s0.jailed[v] /\ s0.unbondingHeight[v] = 0 /\ k.period[v] <= 2
    BY <1>1, <1>2 DEF CreatesAll
  <1> HIDE DEF s0
  <1>4. /\ StakingOK(st)
        /\ Settled(st)
        /\ SameIndex(s0, st)
        /\ st.jailed = s0.jailed /\ st.shares = s0.shares
        /\ \A v \in Validators : st.status[v] = "none" <=> s0.status[v] = "none"
        /\ \A v \in Validators : st.unbondingHeight[v] \in {s0.unbondingHeight[v], 0}
    BY <1>2, <1>3, UpdatesBonded DEF StateOK
  <1>5. Delegations(st) = Delegations(s0)
    BY <1>4 DEF Delegations
  <1>6. StateOK(k, st, height)
    <2>1. height = 0
      BY DEF Init
    <2>2. Unused(k, st)
      BY <1>3, <1>4, UnusedSame DEF StateOK
    <2> QED
      BY <1>3, <1>4, <1>5, <2>1, <2>2 DEF StateOK
  <1>7. BondsInv(st, phase)
    <2>1. st.index \subseteq Validators
      BY <1>4 DEF StakingOK, Stakings
    <2> QED
      BY <1>3, <1>4, <2>1 DEF BondsInv, Init
  <1>8. RecordsInv(st, entries, start, height)
    <2> DEFINE none == [v \in Validators |-> NoHeight]
    <2>1. start = SigningInfos(st, none, 0) /\ height = 0 /\ entries = {}
      BY DEF Init
    <2>2. none \in [Validators -> {NoHeight} \cup Nat] /\ \A v \in Validators : none[v] <= 0
      BY DEF NoHeight
    <2> HIDE DEF none
    <2>3. start \in [Validators -> {NoHeight} \cup Nat] /\ \A v \in Validators : start[v] <= 0
      BY <2>1, <2>2, InfosStart
    <2> QED
      BY <1>3, <1>4, <2>1, <2>3 DEF RecordsInv
  <1>9. CountersInv
    <2>1. phase = "committed" /\ height = 0 /\ txs = 0 /\ exports = 0 /\ allow = {}
      BY DEF Init
    <2> QED
      BY <2>1, ExportAssumption DEF CountersInv
  <1>10. PeriodsInv(k, st, phase, height, txs)
    <2>1. phase = "committed" /\ height = 0 /\ txs = 0
      BY DEF Init
    <2>2. Cardinality(Delegators) \in Nat
      BY ExportAssumption, FS_CardinalityType
    <2>3. k.period \in [Validators -> Nat]
      BY <1>3 DEF StateOK, StoreOK
    <2> QED
      BY <1>3, <2>1, <2>2, <2>3 DEF PeriodsInv, Begun
  <1> QED
    BY <1>6, <1>7, <1>8, <1>9, <1>10 DEF ExportInv
-----------------------------------------------------------------------------
(* Blocks keep it.                                                         *)

\* A block begins and its fees are allocated.
LEMMA BeginBlockInv ==
    ASSUME ExportInv, NEW v \in Validators, NEW n \in Rewards, BeginBlock(v, n)
    PROVE  ExportInv'
  <1>1. /\ phase = "committed" /\ phase' = "begun" /\ height < MaxHeight /\ height' = height + 1
        /\ k' = AllocateTokensToValidator(k, v, n)
        /\ st' = st /\ entries' = entries /\ start' = start
        /\ txs' = txs /\ exports' = exports /\ allow' = allow
    BY DEF BeginBlock, Goto
  <1>2. height \in Nat /\ height' \in Nat /\ height <= height' /\ height' \in 0..MaxHeight
    BY <1>1, ExportAssumption DEF ExportInv, CountersInv
  <1>3. Keeps(k, k') /\ k'.period = k.period
    BY <1>1, Allocates DEF ExportInv, StateOK
  <1>4. StateOK(k', st', height')
    <2>1. Unused(k', st')
      BY <1>1, <1>3, UnusedSame DEF ExportInv, StateOK
    <2> QED
      BY <1>1, <1>2, <1>3, <2>1 DEF ExportInv, StateOK, Keeps, StoreHeights
  <1>5. BondsInv(st', phase')
    BY <1>1 DEF ExportInv, BondsInv
  <1>6. RecordsInv(st', entries', start', height')
    BY <1>1, <1>2 DEF ExportInv, RecordsInv, Entries, StateOK, StakingOK, Stakings, NoHeight
  <1>7. CountersInv'
    BY <1>1, <1>2 DEF ExportInv, CountersInv
  <1>8. PeriodsInv(k', st', phase', height', txs')
    BY <1>1, <1>2, <1>3, PeriodsNat DEF ExportInv, PeriodsInv
  <1> QED
    BY <1>4, <1>5, <1>6, <1>7, <1>8 DEF ExportInv

\* The validator set is brought up to date.
LEMMA EndBlockInv ==
    ASSUME ExportInv, EndBlock
    PROVE  ExportInv'
  <1>1. /\ phase' = "committed" /\ height' = height /\ phase \in {"begun", "txs"}
        /\ k' = k /\ entries' = entries /\ txs' = txs /\ exports' = exports /\ allow' = allow
        /\ st' = ApplyAndReturnValidatorSetUpdates(st, height)
        /\ start' = SigningInfos(st', start, height)
    BY DEF EndBlock, Goto
  <1>2. height \in Nat /\ StakingOK(st)
    BY DEF ExportInv, CountersInv, StateOK
  <1>3. /\ StakingOK(st')
        /\ Settled(st')
        /\ SameIndex(st, st')
        /\ st'.jailed = st.jailed /\ st'.shares = st.shares
        /\ \A v \in Validators : st'.status[v] = "none" <=> st.status[v] = "none"
        /\ \A v \in Validators : st'.unbondingHeight[v] \in {st.unbondingHeight[v], height}
    BY <1>1, <1>2, UpdatesBonded
  <1>4. StateOK(k', st', height')
    <2>1. Delegations(st') = Delegations(st)
      BY <1>3 DEF Delegations
    <2>2. Unused(k', st')
      BY <1>1, <1>3, UnusedSame DEF ExportInv, StateOK
    <2> QED
      BY <1>1, <1>3, <2>1, <2>2 DEF ExportInv, StateOK
  <1>5. BondsInv(st', phase')
    BY <1>1, <1>3 DEF ExportInv, BondsInv, SameIndex
  <1>6. RecordsInv(st', entries', start', height')
    <2>1. start' \in [Validators -> {NoHeight} \cup Nat] /\ \A v \in Validators : start'[v] <= height
      BY <1>1, <1>2, InfosStart DEF ExportInv, RecordsInv
    <2> QED
      BY <1>1, <1>2, <1>3, <2>1 DEF ExportInv, RecordsInv
  <1>7. CountersInv'
    BY <1>1 DEF ExportInv, CountersInv
  <1>8. PeriodsInv(k', st', phase', height', txs')
    BY <1>1 DEF ExportInv, PeriodsInv
  <1> QED
    BY <1>4, <1>5, <1>6, <1>7, <1>8 DEF ExportInv

\* The smaller of two numbers.
LEMMA MinOfTwo ==
    ASSUME NEW a \in Nat, NEW b \in Nat
    PROVE  Min({a, b}) \in Nat /\ Min({a, b}) <= a /\ Min({a, b}) <= b
  <1>1. \E x \in {a, b} : \A y \in {a, b} : x =< y
    <2>1. CASE a <= b
      BY <2>1
    <2>2. CASE ~(a <= b)
      BY <2>2
    <2> QED
      BY <2>1, <2>2
  <1>2. Min({a, b}) \in {a, b} /\ \A y \in {a, b} : Min({a, b}) =< y
    BY <1>1 DEF Min
  <1> QED
    BY <1>2

\* What a slash is to burn is a number of tokens.
LEMMA SlashAmount ==
    ASSUME NEW power \in Powers
    PROVE  TruncateInt(MulDec(ToDec(power * PowerReduction), SlashFractionDowntime)) \in Nat
  <1> DEFINE x == ToDec(power * PowerReduction) * SlashFractionDowntime
             z == Chop(x)
  <1>1. /\ Prec \in Nat /\ Prec > 0 /\ PowerReduction \in Nat /\ power \in Nat
        /\ SlashFractionDowntime \in Nat
    BY ExportAssumption, DistributionAssumption
  <1>2. x \in Nat
    BY <1>1 DEF ToDec
  <1>3. MulDec(ToDec(power * PowerReduction), SlashFractionDowntime) = z
    BY DEF MulDec
  <1> HIDE DEF x
  <1>4. x <= Prec * x
    BY <1>1, <1>2
  <1>5. z \in Nat
    BY <1>2, <1>4, ChopBound
  <1> HIDE DEF z
  <1>6. z \div Prec \in Nat
    BY <1>1, <1>5, Division
  <1> QED
    BY <1>3, <1>6 DEF TruncateInt

\* A validator is slashed for downtime and jailed: what is burned is no more than
\* it has.
LEMMA SlashInv ==
    ASSUME ExportInv, NEW v \in Validators, NEW power \in Powers, HandleValidatorSignature(v, power)
    PROVE  ExportInv'
  <1> DEFINE amount == TruncateInt(MulDec(ToDec(power * PowerReduction), SlashFractionDowntime))
             burned == TokensToBurn(v, amount)
             fraction == Min({QuoRoundUp(ToDec(burned), ToDec(st.tokens[v])), Prec})
  <1>1. /\ phase = "begun" /\ phase' = "begun" /\ height' = height
        /\ entries' = entries /\ start' = start
        /\ txs' = txs /\ exports' = exports /\ allow' = allow
        /\ st.status[v] = "bonded" /\ ~st.jailed[v]
        /\ k' = IF st.tokens[v] > 0 THEN updateValidatorSlashFraction(k, st, v, height, fraction)
                ELSE k
        /\ st' = [st EXCEPT !.tokens[v] = @ - burned, !.jailed[v] = TRUE, !.index = @ \ {v}]
    BY DEF HandleValidatorSignature, Goto
  <1>2. st \in Stakings /\ StakingOK(st) /\ StoreOK(k) /\ st.tokens[v] \in Nat /\ height \in Nat
    BY DEF ExportInv, CountersInv, StateOK, StakingOK, Stakings
  <1>3. amount \in Nat
    BY SlashAmount
  <1> HIDE DEF amount, fraction
  <1>4. burned \in Nat /\ burned <= st.tokens[v]
    BY <1>2, <1>3, MinOfTwo DEF TokensToBurn
  <1> HIDE DEF burned
  <1>5. /\ st' \in Stakings
        /\ st'.status = st.status /\ st'.shares = st.shares
        /\ st'.unbondingHeight = st.unbondingHeight
        /\ st'.jailed = [st.jailed EXCEPT ![v] = TRUE]
        /\ st'.index = st.index \ {v}
    <2> DEFINE n == st.tokens[v] - burned
    <2>1. n \in Nat
      BY <1>2, <1>4
    <2>2. st' = [st EXCEPT !.tokens[v] = n, !.jailed[v] = TRUE, !.index = @ \ {v}]
      BY <1>1
    <2> HIDE DEF n
    <2> QED
      BY <1>2, <2>1, <2>2 DEF Stakings
  <1>6. StakingOK(st')
    BY <1>1, <1>2, <1>5 DEF StakingOK, Stakings
  <1>7. StateOK(k', st', height')
    <2>1. Delegations(st') = Delegations(st)
      BY <1>5 DEF Delegations
    <2>2. CASE st.tokens[v] > 0
      <3>1. /\ StoreOK(k')
            /\ k'.starting = k.starting
            /\ Ends(k, k', v)
            /\ \A w \in Validators : \A x \in k'.slashes[w] : x \in k.slashes[w] \/ x.height = height
        BY <1>1, <1>2, <2>2, RecordsSlash
      <3>2. Unused(k', st)
        BY <1>1, <1>2, <3>1, StaysUnused DEF ExportInv, StateOK
      <3>3. Unused(k', st')
        BY <1>5, <3>2, UnusedSame
      <3> QED
        BY <1>1, <1>2, <1>6, <2>1, <3>1, <3>3 DEF ExportInv, StateOK, StoreHeights
    <2>3. CASE ~(st.tokens[v] > 0)
      <3>1. Unused(k', st')
        <4>1. k' = k /\ st'.status = st.status
          BY <1>1, <1>5, <2>3
        <4>2. Unused(k, st)
          BY DEF ExportInv, StateOK
        <4> QED
          BY <4>1, <4>2 DEF Unused
      <3> QED
        BY <1>1, <1>6, <2>1, <2>3, <3>1 DEF ExportInv, StateOK
    <2> QED
      BY <2>2, <2>3
  <1>8. BondsInv(st', phase')
    BY <1>1, <1>2, <1>5 DEF ExportInv, BondsInv, Stakings
  <1>9. RecordsInv(st', entries', start', height')
    BY <1>1, <1>5 DEF ExportInv, RecordsInv
  <1>10. CountersInv'
    BY <1>1 DEF ExportInv, CountersInv
  <1>11. PeriodsInv(k', st', phase', height', txs')
    <2>1. Ends(k, k', v)
      <3>1. CASE st.tokens[v] > 0
        BY <1>1, <1>2, <3>1, RecordsSlash
      <3>2. CASE ~(st.tokens[v] > 0)
        BY <1>1, <1>2, <3>2 DEF Ends, StoreOK
      <3> QED
        BY <3>1, <3>2
    <2>2. k'.period \in [Validators -> Nat]
      BY <1>7 DEF StateOK, StoreOK
    <2> SUFFICES ASSUME NEW w \in Validators
                 PROVE  /\ k'.period[w] <= Begun + txs + height
                        /\ st'.status[w] = "bonded" /\ ~st'.jailed[w] =>
                              k'.period[w] <= Begun + txs + height - 1
      BY <1>1 DEF PeriodsInv
    <2>3. /\ k.period[w] <= Begun + txs + height
          /\ st.status[w] = "bonded" /\ ~st.jailed[w] => k.period[w] <= Begun + txs + height - 1
      BY <1>1 DEF ExportInv, PeriodsInv
    <2>4. k'.period[w] \in Nat /\ k.period[w] \in Nat /\ Begun \in Nat /\ txs \in Nat /\ height \in Nat
      BY <2>2, PeriodsNat
    <2>5. k'.period[w] <= k.period[w] + (IF w = v THEN 1 ELSE 0)
      BY <2>1 DEF Ends
    <2>6. CASE w = v
      <3>1. st'.jailed[w]
        BY <1>2, <1>5, <2>6 DEF Stakings
      <3> QED
        BY <1>1, <2>3, <2>4, <2>5, <2>6, <3>1
    <2>7. CASE w # v
      <3>1. st'.jailed[w] = st.jailed[w] /\ st'.status[w] = st.status[w]
        BY <1>2, <1>5, <2>7 DEF Stakings
      <3> QED
        BY <2>3, <2>4, <2>5, <2>7, <3>1
    <2> QED
      BY <2>6, <2>7
  <1> QED
    BY <1>7, <1>8, <1>9, <1>10, <1>11 DEF ExportInv
-----------------------------------------------------------------------------
(* Transactions keep it.                                                   *)

\* What a transaction leaves alone.
InTransaction ==
    /\ phase \in {"begun", "txs"} /\ phase' = "txs"
    /\ txs < MaxTxs /\ txs' = txs + 1
    /\ height' = height /\ start' = start /\ exports' = exports /\ allow' = allow

\* All of them do.
LEMMA Transactions == Transaction => InTransaction
  BY DEF Transaction, Goto, InTransaction

\* A transaction ends one period of a validator, or creates the validator.
OnePeriod(k1, s, k2, s2) ==
    \A v \in Validators :
        \/ k2.period[v] <= k1.period[v] + 1 /\ s2.status[v] = s.status[v]
             /\ (s.jailed[v] => s2.jailed[v] \/ s2.status[v] # "bonded")
        \/ k2.period[v] <= 2 /\ s2.status[v] = "unbonded"

\* A transaction that leaves stores and entries in order.
LEMMA TransactionInv ==
    ASSUME ExportInv, InTransaction, StateOK(k', st', height), OnePeriod(k, st, k', st'),
           \A v \in st'.index : ~st'.jailed[v],
           \A v \in Validators : st'.unbondingHeight[v] = st.unbondingHeight[v],
           entries' \subseteq Entries, \A e \in entries' : e.height <= height
    PROVE  ExportInv'
  <1>1. BondsInv(st', phase')
    BY DEF BondsInv, InTransaction
  <1>2. RecordsInv(st', entries', start', height')
    BY DEF ExportInv, RecordsInv, InTransaction
  <1>3. CountersInv'
    BY ExportAssumption DEF ExportInv, CountersInv, InTransaction
  <1>4. StateOK(k', st', height')
    BY DEF InTransaction
  <1>5. PeriodsInv(k', st', phase', height', txs')
    <2> SUFFICES ASSUME NEW w \in Validators
                 PROVE  /\ k'.period[w] <= Begun + (txs + 1) + height
                        /\ st'.status[w] = "bonded" /\ ~st'.jailed[w] =>
                              k'.period[w] <= Begun + (txs + 1) + height - 1
      BY DEF PeriodsInv, InTransaction
    <2>1. /\ k.period[w] <= Begun + txs + height
          /\ st.status[w] = "bonded" /\ ~st.jailed[w] => k.period[w] <= Begun + txs + height - 1
      BY DEF ExportInv, PeriodsInv, InTransaction
    <2>2. /\ k'.period[w] \in Nat /\ k.period[w] \in Nat /\ Begun \in Nat /\ Begun >= 2
          /\ txs \in Nat /\ height \in Nat
      BY PeriodsNat DEF StateOK, StoreOK
    <2>3. CASE /\ k'.period[w] <= k.period[w] + 1 /\ st'.status[w] = st.status[w]
               /\ (st.jailed[w] => st'.jailed[w] \/ st'.status[w] # "bonded")
      <3>1. CASE st'.status[w] = "bonded" /\ ~st'.jailed[w]
        BY <2>1, <2>2, <2>3, <3>1
      <3>2. CASE ~(st'.status[w] = "bonded" /\ ~st'.jailed[w])
        BY <2>1, <2>2, <2>3, <3>2
      <3> QED
        BY <3>1, <3>2
    <2>4. CASE k'.period[w] <= 2 /\ st'.status[w] = "unbonded"
      BY <2>2, <2>4
    <2> QED
      BY <2>3, <2>4 DEF OnePeriod
  <1> QED
    BY <1>1, <1>2, <1>3, <1>4, <1>5 DEF ExportInv

\* One that changes shares of delegations to v only.
LEMMA SharesOnePeriod ==
    ASSUME NEW k1, StoreOK(k1), NEW s, NEW k2, StoreOK(k2), NEW s2, NEW d, NEW v \in Validators,
           Ends(k1, k2, v), ChangesShares(s, s2, d, v)
    PROVE  OnePeriod(k1, s, k2, s2)
  <1> SUFFICES ASSUME NEW w \in Validators
               PROVE  k2.period[w] <= k1.period[w] + 1
    BY DEF OnePeriod, ChangesShares
  <1>1. k2.period[w] \in Nat /\ k1.period[w] \in Nat
    BY DEF StoreOK
  <1>2. k2.period[w] <= k1.period[w] + (IF w = v THEN 1 ELSE 0)
    BY DEF Ends
  <1> QED
    BY <1>1, <1>2

\* What is known when a transaction starts.
LEMMA TransactionStart ==
    ASSUME ExportInv, InTransaction
    PROVE  /\ StateOK(k, st, height) /\ StoreOK(k) /\ StakingOK(st) /\ st \in Stakings /\ height \in Nat
           /\ \A v \in st.index : ~st.jailed[v]
           /\ entries \subseteq Entries /\ \A e \in entries : e.height <= height
           /\ \A v \in Validators : st.unbondingHeight[v] \in Nat /\ st.unbondingHeight[v] <= height
  BY DEF ExportInv, InTransaction, CountersInv, BondsInv, RecordsInv, StateOK, StakingOK, Stakings

\* A validator is created.
LEMMA CreateInv ==
    ASSUME ExportInv, NEW v \in Validators, MsgCreateValidator(v)
    PROVE  ExportInv'
  <1> DEFINE created == Create([k |-> k, st |-> st], v, height)
  <1>1. /\ InTransaction /\ st.status[v] = "none" /\ entries' = entries
        /\ k' = created.k /\ st' = created.st
    BY Transactions DEF MsgCreateValidator
  <1>2. /\ StateOK(k, st, height) /\ StoreOK(k) /\ StakingOK(st) /\ st \in Stakings /\ height \in Nat
        /\ \A w \in st.index : ~st.jailed[w]
        /\ entries \subseteq Entries /\ \A e \in entries : e.height <= height
    BY <1>1, TransactionStart
  <1>3. /\ StateOK(created.k, created.st, height)
        /\ created.st.status = [st.status EXCEPT ![v] = "unbonded"]
        /\ created.st.jailed = st.jailed
        /\ created.st.unbondingHeight = st.unbondingHeight
        /\ created.st.index = st.index \cup {v}
        /\ \A w \in Validators : created.k.period[w] <= k.period[w] + (IF w = v THEN 2 ELSE 0)
    BY <1>1, <1>2, Creates
  <1> HIDE DEF created
  <1>4. ~st.jailed[v]
    BY <1>1, <1>2 DEF StakingOK
  <1>5. \A w \in st'.index : ~st'.jailed[w]
    BY <1>1, <1>2, <1>3, <1>4
  <1>6. /\ \A w \in Validators : st'.unbondingHeight[w] = st.unbondingHeight[w]
        /\ StateOK(k', st', height)
        /\ entries' \subseteq Entries /\ \A e \in entries' : e.height <= height
    BY <1>1, <1>2, <1>3
  <1>7. OnePeriod(k, st, k', st')
    <2>1. k'.period \in [Validators -> Nat] /\ k.period \in [Validators -> Nat]
      BY <1>1, <1>2, <1>3 DEF StateOK, StoreOK
    <2>2. k.period[v] = 0
      BY <1>1, <1>2 DEF StateOK, Unused
    <2>3. st'.status[v] = "unbonded" /\ k'.period[v] <= 2
      BY <1>1, <1>2, <1>3, <2>1, <2>2 DEF Stakings
    <2>4. \A w \in Validators : w # v => /\ k'.period[w] <= k.period[w] + 1
                                         /\ st'.status[w] = st.status[w]
                                         /\ st'.jailed[w] = st.jailed[w]
      BY <1>1, <1>2, <1>3, <2>1 DEF Stakings
    <2> QED
      BY <2>3, <2>4 DEF OnePeriod
  <1> QED
    BY <1>1, <1>5, <1>6, <1>7, TransactionInv

\* Tokens are delegated.
LEMMA DelegateInv ==
    ASSUME ExportInv, NEW d \in Delegators, NEW v \in Validators, NEW amount \in Amounts,
           MsgDelegate(d, v, amount)
    PROVE  ExportInv'
  <1> DEFINE delegated == Delegate([k |-> k, st |-> st], d, v, amount, height)
  <1>1. /\ InTransaction /\ st.status[v] # "none" /\ ~InvalidExRate(st, v) /\ entries' = entries
        /\ k' = delegated.k /\ st' = delegated.st
    BY Transactions DEF MsgDelegate, Created, CreatedIn
  <1>2. /\ StateOK(k, st, height) /\ StoreOK(k) /\ height \in Nat
        /\ \A w \in st.index : ~st.jailed[w]
        /\ entries \subseteq Entries /\ \A e \in entries : e.height <= height
    BY <1>1, TransactionStart
  <1>3. amount \in Nat
    BY ExportAssumption
  <1>4. /\ StateOK(delegated.k, delegated.st, height)
        /\ ChangesShares(st, delegated.st, d, v)
        /\ Ends(k, delegated.k, v)
    BY <1>1, <1>2, <1>3, Delegates
  <1> HIDE DEF delegated
  <1>5. /\ StateOK(k', st', height)
        /\ \A w \in st'.index : ~st'.jailed[w]
        /\ \A w \in Validators : st'.unbondingHeight[w] = st.unbondingHeight[w]
        /\ entries' \subseteq Entries /\ \A e \in entries' : e.height <= height
    BY <1>1, <1>2, <1>4 DEF ChangesShares
  <1>6. OnePeriod(k, st, k', st')
    BY <1>1, <1>2, <1>4, SharesOnePeriod DEF StateOK
  <1> QED
    BY <1>1, <1>5, <1>6, TransactionInv

\* A delegation is taken back; its entry is at this height.
LEMMA UndelegateInv ==
    ASSUME ExportInv, NEW d \in Delegators, NEW v \in Validators, MsgUndelegate(d, v)
    PROVE  ExportInv'
  <1> DEFINE unbound == Unbond([k |-> k, st |-> st], d, v, height)
             entry == [kind |-> "unbonding", d |-> d, src |-> v, dst |-> v, height |-> height]
  <1>1. /\ InTransaction /\ st.shares[<<d, v>>] > 0
        /\ k' = unbound.k /\ st' = unbound.st
        /\ entries' = entries \cup {entry}
    BY Transactions DEF MsgUndelegate
  <1>2. /\ StateOK(k, st, height) /\ StoreOK(k) /\ height \in Nat
        /\ \A w \in st.index : ~st.jailed[w]
        /\ entries \subseteq Entries /\ \A e \in entries : e.height <= height
    BY <1>1, TransactionStart
  <1>3. /\ StateOK(unbound.k, unbound.st, height)
        /\ ChangesShares(st, unbound.st, d, v)
        /\ Ends(k, unbound.k, v)
    BY <1>1, <1>2, Unbonds
  <1> HIDE DEF unbound
  <1>4. entry \in Entries /\ entry.height <= height
    BY <1>2 DEF Entries
  <1> HIDE DEF entry
  <1>5. /\ StateOK(k', st', height)
        /\ \A w \in st'.index : ~st'.jailed[w]
        /\ \A w \in Validators : st'.unbondingHeight[w] = st.unbondingHeight[w]
        /\ entries' \subseteq Entries /\ \A e \in entries' : e.height <= height
    BY <1>1, <1>2, <1>3, <1>4 DEF ChangesShares
  <1>6. OnePeriod(k, st, k', st')
    BY <1>1, <1>2, <1>3, SharesOnePeriod DEF StateOK
  <1> QED
    BY <1>1, <1>5, <1>6, TransactionInv

\* A delegation moves.  Its entry may be at the height at which the source began
\* to unbond, which does not lie ahead either.
LEMMA RedelegateInv ==
    ASSUME ExportInv, NEW d \in Delegators, NEW src \in Validators, NEW dst \in Validators,
           MsgBeginRedelegate(d, src, dst)
    PROVE  ExportInv'
  <1> DEFINE unbound == Unbond([k |-> k, st |-> st], d, src, height)
             amount == st.tokens[src] - unbound.st.tokens[src]
             redelegated == Delegate(unbound, d, dst, amount, height)
             from == IF st.status[src] = "bonded" THEN height ELSE st.unbondingHeight[src]
             entry == [kind |-> "redelegation", d |-> d, src |-> src, dst |-> dst, height |-> from]
  <1>1. /\ InTransaction /\ st.shares[<<d, src>>] > 0
        /\ src # dst /\ st.status[dst] # "none" /\ ~InvalidExRate(st, dst)
        /\ k' = redelegated.k /\ st' = redelegated.st
        /\ entries' = entries \cup IF st.status[src] = "unbonded" THEN {} ELSE {entry}
    BY Transactions DEF MsgBeginRedelegate, Created, CreatedIn
  <1>2. /\ StateOK(k, st, height) /\ StoreOK(k) /\ st \in Stakings /\ height \in Nat
        /\ \A w \in st.index : ~st.jailed[w]
        /\ entries \subseteq Entries /\ \A e \in entries : e.height <= height
        /\ \A w \in Validators : st.unbondingHeight[w] \in Nat /\ st.unbondingHeight[w] <= height
    BY <1>1, TransactionStart
  <1>3. /\ StateOK(unbound.k, unbound.st, height)
        /\ ChangesShares(st, unbound.st, d, src)
        /\ Ends(k, unbound.k, src)
        /\ amount \in Nat
    BY <1>1, <1>2, Unbonds
  <1>4. unbound = [k |-> unbound.k, st |-> unbound.st]
    BY DEF Unbond
  <1> DEFINE k1 == unbound.k
             s1 == unbound.st
  <1>5. redelegated = Delegate([k |-> k1, st |-> s1], d, dst, amount, height)
    BY <1>4
  <1> HIDE DEF unbound, amount
  <1>6. s1.status[dst] # "none" /\ ~InvalidExRate(s1, dst)
    <2>1. s1.status[dst] # "none" /\ s1.tokens[dst] = st.tokens[dst]
      BY <1>1, <1>3 DEF ChangesShares
    <2>2. \A c \in Delegators : s1.shares[<<c, dst>>] = st.shares[<<c, dst>>]
      BY <1>1, <1>3 DEF ChangesShares
    <2>3. /\ st.shares \in [Delegators \X Validators -> Nat]
          /\ s1.shares \in [Delegators \X Validators -> Nat]
      BY <1>2, <1>3 DEF StateOK, StakingOK, Stakings
    <2>4. CASE st.tokens[dst] # 0
      BY <2>1, <2>4 DEF InvalidExRate
    <2>5. CASE st.tokens[dst] = 0
      <3>1. DelegatorShares(st, dst) \in Nat /\ ~(DelegatorShares(st, dst) > 0)
        BY <1>1, <2>3, <2>5, SharesBound DEF InvalidExRate
      <3>2. \A c \in Delegators : st.shares[<<c, dst>>] = 0
        <4>1. \A c \in Delegators : st.shares[<<c, dst>>] <= DelegatorShares(st, dst)
          BY <2>3, SharesBound
        <4> QED
          BY <2>3, <3>1, <4>1
      <3>3. DelegatorShares(s1, dst) = 0
        BY <2>2, <2>3, <3>2, SharesBound
      <3> QED
        BY <2>1, <3>3 DEF InvalidExRate
    <2> QED
      BY <2>4, <2>5
  <1> HIDE DEF k1, s1
  <1>7. StateOK(k1, s1, height) /\ ChangesShares(st, s1, d, src) /\ Ends(k, k1, src)
    BY <1>3 DEF k1, s1
  <1> DEFINE again == Delegate([k |-> k1, st |-> s1], d, dst, amount, height)
  <1>8. /\ StateOK(again.k, again.st, height)
        /\ ChangesShares(s1, again.st, d, dst)
        /\ Ends(k1, again.k, dst)
    BY <1>2, <1>3, <1>6, <1>7, Delegates
  <1> HIDE DEF redelegated, again
  <1>9. StateOK(k', st', height) /\ ChangesShares(s1, st', d, dst) /\ Ends(k1, k', dst)
    BY <1>1, <1>5, <1>8 DEF again
  <1>10. entry \in Entries /\ entry.height <= height
    BY <1>2 DEF Entries
  <1> HIDE DEF entry
  <1>11. /\ \A w \in st'.index : ~st'.jailed[w]
         /\ \A w \in Validators : st'.unbondingHeight[w] = st.unbondingHeight[w]
    BY <1>2, <1>7, <1>9 DEF ChangesShares
  <1>12. entries' \subseteq Entries /\ \A e \in entries' : e.height <= height
    BY <1>1, <1>2, <1>10
  <1>13. OnePeriod(k, st, k', st')
    <2> SUFFICES ASSUME NEW w \in Validators
                 PROVE  k'.period[w] <= k.period[w] + 1
      BY <1>7, <1>9 DEF OnePeriod, ChangesShares
    <2>1. k'.period[w] \in Nat /\ k1.period[w] \in Nat /\ k.period[w] \in Nat
      BY <1>2, <1>7, <1>9 DEF StateOK, StoreOK
    <2>2. /\ k1.period[w] <= k.period[w] + (IF w = src THEN 1 ELSE 0)
          /\ k'.period[w] <= k1.period[w] + (IF w = dst THEN 1 ELSE 0)
      BY <1>7, <1>9 DEF Ends
    <2> QED
      BY <1>1, <2>1, <2>2
  <1> QED
    BY <1>1, <1>9, <1>11, <1>12, <1>13, TransactionInv

\* Rewards or a commission are withdrawn.
LEMMA WithdrawInv ==
    ASSUME ExportInv, NEW v \in Validators,
           \/ \E d \in Delegators : MsgWithdrawDelegatorReward(d, v)
           \/ MsgWithdrawValidatorCommission(v)
    PROVE  ExportInv'
  <1>1. InTransaction /\ st' = st /\ entries' = entries
    BY Transactions DEF MsgWithdrawDelegatorReward, MsgWithdrawValidatorCommission
  <1>2. /\ StateOK(k, st, height) /\ StoreOK(k) /\ height \in Nat
        /\ \A w \in st.index : ~st.jailed[w]
        /\ entries \subseteq Entries /\ \A e \in entries : e.height <= height
    BY <1>1, TransactionStart DEF StateOK
  <1>3. StateOK(k', st, height) /\ Ends(k, k', v)
    <2>1. ASSUME NEW d \in Delegators, MsgWithdrawDelegatorReward(d, v)
          PROVE  StateOK(k', st, height) /\ Ends(k, k', v)
      <3>1. k' = WithdrawDelegationRewards(k, st, d, v, height) /\ st.shares[<<d, v>>] > 0
        BY <2>1 DEF MsgWithdrawDelegatorReward
      <3>2. /\ StoreOK(k')
            /\ k'.slashes = k.slashes
            /\ Ends(k, k', v)
            /\ k'.starting[<<d, v>>].height = height \/ k'.starting[<<d, v>>] = k.starting[<<d, v>>]
            /\ \A f \in Delegators \X Validators : f # <<d, v>> => k'.starting[f] = k.starting[f]
        BY <1>2, <3>1, RestartsDelegation
      <3>3. ASSUME NEW f \in Delegations(st)
            PROVE  k'.starting[f].height \in 0..height
        <4>1. f \in Delegators \X Validators /\ k.starting[f].height \in 0..height
          BY <1>2 DEF StateOK, StoreHeights, Delegations
        <4>2. CASE f = <<d, v>>
          BY <1>2, <3>2, <4>1, <4>2
        <4>3. CASE f # <<d, v>>
          BY <3>2, <4>1, <4>3
        <4> QED
          BY <4>2, <4>3
      <3>4. Unused(k', st)
        <4>1. st.status[v] # "none"
          BY <1>2, <3>1 DEF StateOK, StakingOK
        <4> QED
          BY <1>2, <3>2, <4>1, StaysUnused DEF StateOK
      <3> QED
        BY <1>2, <3>2, <3>3, <3>4 DEF StateOK, StoreHeights
    <2>2. CASE MsgWithdrawValidatorCommission(v)
      <3>1. Keeps(k, k') /\ k'.period = k.period
        BY <1>2, <2>2, WithdrawsCommission DEF MsgWithdrawValidatorCommission
      <3>2. Unused(k', st)
        BY <1>2, <3>1, UnusedSame DEF StateOK
      <3>3. Ends(k, k', v)
        BY <1>2, <3>1 DEF Ends, StoreOK
      <3> QED
        BY <1>2, <3>1, <3>2, <3>3 DEF StateOK, StoreHeights, Keeps
    <2> QED
      BY <2>1, <2>2
  <1>4. /\ StateOK(k', st', height)
        /\ \A w \in st'.index : ~st'.jailed[w]
        /\ \A w \in Validators : st'.unbondingHeight[w] = st.unbondingHeight[w]
        /\ entries' \subseteq Entries /\ \A e \in entries' : e.height <= height
    BY <1>1, <1>2, <1>3
  <1>5. OnePeriod(k, st, k', st')
    <2> SUFFICES ASSUME NEW w \in Validators
                 PROVE  k'.period[w] <= k.period[w] + 1
      BY <1>1 DEF OnePeriod
    <2>1. k'.period[w] \in Nat /\ k.period[w] \in Nat
      BY <1>2, <1>3 DEF StateOK, StoreOK
    <2>2. k'.period[w] <= k.period[w] + (IF w = v THEN 1 ELSE 0)
      BY <1>3 DEF Ends
    <2> QED
      BY <2>1, <2>2
  <1> QED
    BY <1>1, <1>4, <1>5, TransactionInv

\* A validator that has been dropped leaves jail.
LEMMA UnjailInv ==
    ASSUME ExportInv, NEW v \in Validators, MsgUnjail(v)
    PROVE  ExportInv'
  <1>1. /\ InTransaction /\ k' = k /\ entries' = entries /\ st.jailed[v] /\ st.status[v] # "bonded"
        /\ st' = [st EXCEPT !.jailed[v] = FALSE, !.index = @ \cup {v}]
    BY Transactions DEF MsgUnjail
  <1>2. /\ StateOK(k, st, height) /\ StoreOK(k) /\ StakingOK(st) /\ st \in Stakings /\ height \in Nat
        /\ \A w \in st.index : ~st.jailed[w]
        /\ entries \subseteq Entries /\ \A e \in entries : e.height <= height
    BY <1>1, TransactionStart
  <1>3. /\ st' \in Stakings
        /\ st'.status = st.status /\ st'.shares = st.shares
        /\ st'.unbondingHeight = st.unbondingHeight
        /\ st'.jailed = [st.jailed EXCEPT ![v] = FALSE]
        /\ st'.index = st.index \cup {v}
    BY <1>1, <1>2 DEF Stakings
  <1>4. StakingOK(st')
    BY <1>1, <1>2, <1>3 DEF StakingOK, Stakings
  <1>5. Delegations(st') = Delegations(st)
    BY <1>3 DEF Delegations
  <1>a. Unused(k', st')
    <2>1. k' = k /\ st'.status = st.status
      BY <1>1, <1>3
    <2>2. Unused(k, st)
      BY DEF ExportInv, StateOK
    <2> QED
      BY <2>1, <2>2 DEF Unused
  <1>6. /\ StateOK(k', st', height)
        /\ \A w \in Validators : st'.unbondingHeight[w] = st.unbondingHeight[w]
        /\ entries' \subseteq Entries /\ \A e \in entries' : e.height <= height
    BY <1>1, <1>2, <1>3, <1>4, <1>5, <1>a DEF StateOK
  <1>7. \A w \in st'.index : ~st'.jailed[w]
    BY <1>2, <1>3 DEF Stakings
  <1>8. OnePeriod(k, st, k', st')
    <2>1. \A w \in Validators : k.period[w] <= k.period[w] + 1
      BY <1>2 DEF StoreOK
    <2>2. \A w \in Validators : w # v => st'.jailed[w] = st.jailed[w]
      BY <1>2, <1>3 DEF Stakings
    <2> QED
      BY <1>1, <1>3, <2>1, <2>2 DEF OnePeriod
  <1> QED
    BY <1>1, <1>6, <1>7, <1>8, TransactionInv
-----------------------------------------------------------------------------
(* The export and the new chain keep it.                                   *)

\* What an export does to staking: nobody is bonded or dropped.
LEMMA ExportStaking ==
    ASSUME ExportInv, NEW list, Export(list)
    PROVE  /\ StakingOK(st')
           /\ Settled(st')
           /\ ~JailedVisited(st')
           /\ st'.status = st.status /\ st'.shares = st.shares
           /\ \A v \in Validators : st'.unbondingHeight[v] = 0
  <1> DEFINE heights == [v \in Validators |-> 0]
             jailed == [v \in Validators |->
                          st.jailed[v] \/ (v \in CreatedIn(st) /\ list # {} /\ v \notin list)]
             s1 == [st EXCEPT !.unbondingHeight = heights, !.jailed = jailed]
  <1>1. /\ phase = "committed"
        /\ ~JailedVisited(s1)
        /\ st' = ApplyAndReturnValidatorSetUpdates(s1, height)
    BY DEF Export, ExportPanic, ResetValidators
  <1>2. StakingOK(st) /\ st \in Stakings /\ Settled(st) /\ height \in Nat
    BY <1>1 DEF ExportInv, StateOK, StakingOK, BondsInv, CountersInv
  <1>3. /\ heights \in [Validators -> Nat] /\ jailed \in [Validators -> BOOLEAN]
        /\ \A v \in Validators : heights[v] = 0
        /\ \A v \in Validators : /\ st.jailed[v] => jailed[v]
                                 /\ jailed[v] => st.jailed[v] \/ st.status[v] # "none"
    <2>1. \A v \in Validators : st.jailed[v] \in BOOLEAN
      BY <1>2 DEF Stakings
    <2> QED
      BY <2>1 DEF CreatedIn
  <1> HIDE DEF heights, jailed
  <1>4. /\ s1 \in Stakings
        /\ s1.tokens = st.tokens /\ s1.shares = st.shares
        /\ s1.status = st.status /\ s1.index = st.index
        /\ s1.jailed = jailed /\ s1.unbondingHeight = heights
    BY <1>2, <1>3 DEF Stakings
  <1> HIDE DEF s1
  <1>5. StakingOK(s1)
    BY <1>2, <1>3, <1>4 DEF StakingOK
  <1>6. Settled(s1)
    <2>1. SameIndex(st, s1)
      BY <1>4 DEF SameIndex
    <2> QED
      BY <1>2, <1>4, <2>1, IndexDecides DEF Settled
  <1>7. /\ StakingOK(st')
        /\ Settled(st')
        /\ SameIndex(s1, st')
        /\ st'.jailed = s1.jailed /\ st'.shares = s1.shares
        /\ st'.status = s1.status /\ st'.unbondingHeight = s1.unbondingHeight
    BY <1>1, <1>2, <1>5, <1>6, UpdatesBonded
  <1>8. ~JailedVisited(st')
    <2>1. Visited(st') = Visited(s1)
      BY <1>7, IndexDecides
    <2> QED
      BY <1>1, <1>7, <2>1 DEF JailedVisited
  <1> QED
    BY <1>3, <1>4, <1>7, <1>8

\* An export that goes through.
LEMMA ExportKeepsInv ==
    ASSUME ExportInv, NEW list \in AllowLists, Export(list)
    PROVE  ExportInv'
  <1>1. /\ phase = "committed" /\ exports < MaxExports
        /\ k' = ExportedDistribution
        /\ entries' = ResetCreationHeights(entries)
        /\ start' = [v \in Validators |->
                       IF SigningInfos(st', start, height)[v] = NoHeight THEN NoHeight ELSE 0]
        /\ height' = 0 /\ phase' = "exported" /\ exports' = exports + 1
        /\ allow' = list /\ txs' = txs
    BY DEF Export
  <1>2. /\ StakingOK(st')
        /\ Settled(st')
        /\ ~JailedVisited(st')
        /\ st'.shares = st.shares /\ st'.status = st.status
        /\ \A v \in Validators : st'.unbondingHeight[v] = 0
    BY ExportStaking
  <1>a. StartsAtZero(st, Delegations(st), k')
    BY <1>1, SetsUpAnew DEF ExportInv, StateOK
  <1>3. StateOK(k', st', height')
    <2>1. StoreOK(k') /\ StoreHeights(k', Delegations(st), 0)
      BY <1>a DEF StartsAtZero, Slashless, StoreHeights
    <2>3. Unused(k', st')
      BY <1>2, <1>a, UnusedSame DEF StartsAtZero
    <2>2. Delegations(st') = Delegations(st)
      BY <1>2 DEF Delegations
    <2> QED
      BY <1>1, <1>2, <2>1, <2>2, <2>3 DEF StateOK
  <1>4. BondsInv(st', phase')
    BY <1>1, <1>2 DEF BondsInv
  <1>5. RecordsInv(st', entries', start', height')
    <2>1. start' \in [Validators -> {NoHeight} \cup Nat] /\ \A v \in Validators : start'[v] <= 0
      BY <1>1 DEF NoHeight
    <2>2. entries' \subseteq Entries /\ \A e \in entries' : e.height <= 0
      <3>1. entries \subseteq Entries
        BY DEF ExportInv, RecordsInv
      <3>2. \A e \in Entries : [e EXCEPT !.height = 0] \in Entries /\ [e EXCEPT !.height = 0].height = 0
        BY DEF Entries
      <3>3. ASSUME NEW e \in entries'
            PROVE  e \in Entries /\ e.height = 0
        <4>1. PICK f \in entries : e = [f EXCEPT !.height = 0]
          BY <1>1 DEF ResetCreationHeights
        <4> QED
          BY <3>1, <3>2, <4>1
      <3> QED
        BY <3>3
    <2> QED
      BY <1>1, <1>2, <2>1, <2>2 DEF RecordsInv
  <1>6. CountersInv'
    BY <1>1, ExportAssumption DEF ExportInv, CountersInv
  <1>7. PeriodsInv(k', st', phase', height', txs')
    <2> SUFFICES ASSUME NEW v \in Validators
                 PROVE  k'.period[v] <= Begun + txs + 0
      BY <1>1 DEF PeriodsInv
    <2> DEFINE n == Cardinality({e \in Delegations(st) : e[2] = v})
    <2>1. k'.period[v] <= 1 + n
      BY <1>a DEF StartsAtZero
    <2>2. n \in Nat /\ n <= Cardinality(Delegators) /\ Cardinality(Delegators) \in Nat
      BY DelegationsBound
    <2>3. k'.period[v] \in Nat /\ txs \in Nat
      BY <1>a, PeriodsNat DEF StartsAtZero, StoreOK
    <2> HIDE DEF n
    <2> QED
      BY <2>1, <2>2, <2>3 DEF Begun
  <1> QED
    BY <1>3, <1>4, <1>5, <1>6, <1>7 DEF ExportInv

\* An export that gives up.
LEMMA ExportFailsInv ==
    ASSUME ExportInv, NEW list \in AllowLists, ExportFails(list)
    PROVE  ExportInv'
  <1>1. /\ phase = "committed" /\ phase' = "failed" /\ allow' = list
        /\ k' = k /\ st' = st /\ entries' = entries /\ start' = start
        /\ height' = height /\ txs' = txs /\ exports' = exports
    BY DEF ExportFails
  <1>2. BondsInv(st', phase')
    BY <1>1 DEF ExportInv, BondsInv
  <1>3. CountersInv'
    BY <1>1 DEF ExportInv, CountersInv
  <1>4. PeriodsInv(k', st', phase', height', txs')
    BY <1>1 DEF ExportInv, PeriodsInv
  <1> QED
    BY <1>1, <1>2, <1>3, <1>4 DEF ExportInv

\* The new chain starts.  Its index has no jailed validators, which were none of
\* those that are bonded.
LEMMA InitGenesisInv ==
    ASSUME ExportInv, InitGenesis
    PROVE  ExportInv'
  <1>1. /\ phase = "exported" /\ phase' = "committed"
        /\ st' = [st EXCEPT !.index = {v \in Created : ~st.jailed[v]}]
        /\ k' = k /\ entries' = entries /\ start' = start /\ height' = height
        /\ txs' = txs /\ exports' = exports /\ allow' = allow
    BY DEF InitGenesis, Goto
  <1>2. StakingOK(st) /\ st \in Stakings /\ Settled(st) /\ ~JailedVisited(st)
    BY <1>1 DEF ExportInv, StateOK, StakingOK, BondsInv
  <1>3. /\ st' \in Stakings
        /\ st'.tokens = st.tokens /\ st'.shares = st.shares
        /\ st'.status = st.status /\ st'.jailed = st.jailed
        /\ st'.unbondingHeight = st.unbondingHeight
        /\ st'.index = {v \in Created : ~st.jailed[v]}
    <2>1. {v \in Created : ~st.jailed[v]} \in SUBSET Validators
      BY DEF Created, CreatedIn
    <2> QED
      BY <1>1, <1>2, <2>1 DEF Stakings
  <1>4. StakingOK(st')
    BY <1>2, <1>3 DEF StakingOK, Created, CreatedIn
  <1>5. st'.index = {v \in st.index : ~st.jailed[v]}
    BY <1>2, <1>3 DEF StakingOK, Stakings, Created, CreatedIn
  <1>6. Settled(st')
    <2>1. Bonds(st') = Bonds(st)
      <3> DEFINE s2 == st'
      <3>1. s2 \in Stakings /\ s2.tokens = st.tokens /\ s2.index = {v \in st.index : ~st.jailed[v]}
        BY <1>3, <1>5
      <3> HIDE DEF s2
      <3>2. Bonds(s2) = Bonds(st)
        BY <1>2, <3>1, JailedDoNotMatter
      <3> QED
        BY <3>2 DEF s2
    <2> QED
      BY <1>2, <1>3, <2>1 DEF Settled
  <1>7. BondsInv(st', phase')
    BY <1>1, <1>3, <1>6 DEF BondsInv
  <1>8. StateOK(k', st', height')
    <2>2. Unused(k', st')
      <3>1. k' = k /\ st'.status = st.status
        BY <1>1, <1>3
      <3>2. Unused(k, st)
        BY DEF ExportInv, StateOK
      <3> QED
        BY <3>1, <3>2 DEF Unused
    <2>1. Delegations(st') = Delegations(st)
      BY <1>3 DEF Delegations
    <2> QED
      BY <1>1, <1>4, <2>1, <2>2 DEF ExportInv, StateOK
  <1>9. RecordsInv(st', entries', start', height')
    BY <1>1, <1>3 DEF ExportInv, RecordsInv
  <1>10. CountersInv'
    BY <1>1 DEF ExportInv, CountersInv
  <1>11. PeriodsInv(k', st', phase', height', txs')
    BY <1>1 DEF ExportInv, PeriodsInv
  <1> QED
    BY <1>7, <1>8, <1>9, <1>10, <1>11 DEF ExportInv

\* Every step keeps it.
LEMMA ExportInvNext == ExportInv /\ [Next]_vars => ExportInv'
  <1> SUFFICES ASSUME ExportInv, [Next]_vars PROVE ExportInv'
    OBVIOUS
  <1>1. CASE \E v \in Validators, n \in Rewards : BeginBlock(v, n)
    BY <1>1, BeginBlockInv
  <1>2. CASE \E v \in Validators, p \in Powers : HandleValidatorSignature(v, p)
    BY <1>2, SlashInv
  <1>3. CASE EndBlock
    BY <1>3, EndBlockInv
  <1>4. CASE \E v \in Validators : MsgCreateValidator(v)
    BY <1>4, CreateInv
  <1>5. CASE \E v \in Validators : MsgUnjail(v)
    BY <1>5, UnjailInv
  <1>6. CASE \E d \in Delegators, v \in Validators, n \in Amounts : MsgDelegate(d, v, n)
    BY <1>6, DelegateInv
  <1>7. CASE \E d \in Delegators, v \in Validators : MsgUndelegate(d, v)
    BY <1>7, UndelegateInv
  <1>8. CASE \E d \in Delegators, v \in Validators, w \in Validators : MsgBeginRedelegate(d, v, w)
    BY <1>8, RedelegateInv
  <1>9. CASE \E v \in Validators : \/ \E d \in Delegators : MsgWithdrawDelegatorReward(d, v)
                                   \/ MsgWithdrawValidatorCommission(v)
    BY <1>9, WithdrawInv
  <1>10. CASE \E list \in AllowLists : Export(list)
    BY <1>10, ExportKeepsInv
  <1>11. CASE \E list \in AllowLists : ExportFails(list)
    BY <1>11, ExportFailsInv
  <1>12. CASE InitGenesis
    BY <1>12, InitGenesisInv
  <1>13. CASE UNCHANGED vars
    BY <1>13 DEF vars, ExportInv, CountersInv
  <1> QED
    BY <1>1, <1>2, <1>3, <1>4, <1>5, <1>6, <1>7, <1>8, <1>9, <1>10, <1>11, <1>12, <1>13 DEF Next
-----------------------------------------------------------------------------
(* Theorems.                                                               *)

\* The stores keep their types, whatever is delegated, slashed and exported:
\* no validator's tokens fall below zero, by a slash or by an undelegation that
\* rounds, and the power index holds existing validators only.
THEOREM TypeCorrect == Spec => []TypeOK
  <1>1. ExportInv => TypeOK
    <2> SUFFICES ASSUME ExportInv PROVE TypeOK
      OBVIOUS
    <2>1. st \in Stakings /\ StakingOK(st) /\ StoreOK(k) /\ CountersInv
      BY DEF ExportInv, StateOK, StakingOK
    <2>2. ASSUME NEW v \in Validators
          PROVE  /\ k.period[v] \in Periods
                 /\ st.tokens[v] \in Nat
                 /\ st.status[v] \in {"none", "unbonded", "bonded", "unbonding"}
                 /\ st.jailed[v] \in BOOLEAN
                 /\ start[v] \in {NoHeight} \cup 0..MaxHeight
      <3>1. start[v] \in {NoHeight} \cup Nat /\ start[v] <= height /\ height \in 0..MaxHeight
        BY DEF ExportInv, RecordsInv, CountersInv
      <3>2. start[v] \in {NoHeight} \cup 0..MaxHeight
        BY <3>1, ExportAssumption
      <3>3. k.period[v] \in Periods
        <4>1. k.period[v] <= Begun + txs + height /\ txs \in 0..MaxTxs /\ height \in 0..MaxHeight
          BY DEF ExportInv, PeriodsInv, CountersInv
        <4>2. k.period[v] \in Nat /\ Begun \in Nat
          BY PeriodsNat
        <4>3. Cardinality(Delegators) \in Nat
          BY ExportAssumption, FS_CardinalityType
        <4>4. Begun + txs + height <= MaxPeriod
          BY <4>1, <4>3, PeriodAssumption, ExportAssumption, DistributionAssumption DEF Begun
        <4> QED
          BY <4>1, <4>2, <4>4, DistributionAssumption DEF Periods
      <3> QED
        BY <2>1, <3>2, <3>3 DEF Stakings
    <2>3. st.index \subseteq Created
      BY <2>1 DEF StakingOK, Stakings, Created, CreatedIn
    <2> QED
      BY <2>1, <2>2, <2>3 DEF TypeOK, CountersInv
  <1> QED
    BY <1>1, ExportInvInit, ExportInvNext, PTL DEF Spec

\* No height that staking, slashing or distribution record lies ahead of the
\* chain, on the first chain, in any exported genesis and on any chain started
\* from one: the export sets every one of them to zero.
THEOREM HeightsNeverAhead == Spec => []HeightsNotAhead
  <1>1. ExportInv => HeightsNotAhead
    BY DEF ExportInv, RecordsInv, StateOK, StoreHeights, HeightsNotAhead, CountersInv
  <1> QED
    BY <1>1, ExportInvInit, ExportInvNext, PTL DEF Spec

\* An export bonds and unbonds nobody, whatever allow list it is given and
\* whatever exports came before it.
THEOREM ExportAlwaysKeepsBonded == Spec => ExportKeepsBonded
  <1>1. ExportInv /\ [Next]_vars => [phase' = "exported" => st'.status = st.status]_vars
    <2> SUFFICES ASSUME ExportInv, Next, phase' = "exported"
                 PROVE  st'.status = st.status
      OBVIOUS
    <2>1. PICK list \in AllowLists : Export(list)
      BY DEF Next, BeginBlock, HandleValidatorSignature, EndBlock, MsgCreateValidator,
             MsgWithdrawValidatorCommission, MsgUnjail, MsgDelegate, MsgUndelegate,
             MsgBeginRedelegate, MsgWithdrawDelegatorReward, ExportFails, InitGenesis,
             Transaction, Goto
    <2> QED
      BY <2>1, ExportStaking
  <1> QED
    BY <1>1, ExportInvInit, ExportInvNext, PTL DEF Spec, ExportKeepsBonded

\* The walk along the power index never meets a jailed validator, at no end of
\* a block, in no exported genesis and not at the start from one.
THEOREM JailedNeverVisited == Spec => []~JailedVisited(st)
  <1>1. ExportInv => ~JailedVisited(st)
    BY NoneJailed DEF ExportInv, BondsInv
  <1> QED
    BY <1>1, ExportInvInit, ExportInvNext, PTL DEF Spec
-----------------------------------------------------------------------------
(* Sums.                                                                   *)

AddTerm(f, x, a) == f[x] + a
IsInteger(f, T, a) == (\A x \in T : f[x] \in Int) => a \in Int

Sums == INSTANCE FoldTheorems WITH Step <- AddTerm, Pick <- Chosen, P <- IsInteger

\* A sum is a fold that may take any term last.
LEMMA SumIsFold ==
    ASSUME NEW S, IsFiniteSet(S), NEW f, \A x \in S : f[x] \in Int
    PROVE  /\ \A T \in SUBSET S : SumOver(f, T) = Sums!Fold(f, 0, T)
           /\ Sums!IsFiniteSet(S)
           /\ Sums!Inductive(f, 0, S)
           /\ Sums!Commutes(f, S)
  <1>1. \A T \in SUBSET S : SumOver(f, T) = Sums!Fold(f, 0, T)
    BY DEF SumOver, MapThenSumSet, MapThenFoldSet, Sums!Fold, Chosen, AddTerm
  <1>2. Sums!IsFiniteSet(S)
    BY DEF IsFiniteSet, Sums!IsFiniteSet
  <1>3. Sums!Picks(S)
    BY DEF Sums!Picks, Chosen
  <1>4. Sums!Inductive(f, 0, S)
    <2>1. IsInteger(f, {}, 0)
      BY DEF IsInteger
    <2>2. ASSUME NEW T \in SUBSET S, NEW x \in T, NEW a, IsInteger(f, T \ {x}, a)
          PROVE  IsInteger(f, T, AddTerm(f, x, a))
      BY <2>2 DEF IsInteger, AddTerm
    <2> QED
      BY <1>3, <2>1, <2>2 DEF Sums!Inductive
  <1>5. Sums!Commutes(f, S)
    <2>1. ASSUME NEW T \in SUBSET S, NEW x \in T, NEW y \in T, NEW a,
                 IsInteger(f, T \ {x, y}, a)
          PROVE  AddTerm(f, x, AddTerm(f, y, a)) = AddTerm(f, y, AddTerm(f, x, a))
      <3>1. a \in Int /\ f[x] \in Int /\ f[y] \in Int
        BY <2>1 DEF IsInteger
      <3> QED
        BY <3>1 DEF AddTerm
    <2> QED
      BY <2>1 DEF Sums!Commutes
  <1> QED
    BY <1>1, <1>2, <1>4, <1>5

\* The sum over no terms, and a term taken out.
LEMMA SumSplit ==
    ASSUME NEW S, IsFiniteSet(S), NEW f, \A x \in S : f[x] \in Int
    PROVE  /\ SumOver(f, S) \in Int
           /\ SumOver(f, {}) = 0
           /\ \A x \in S : SumOver(f, S) = f[x] + SumOver(f, S \ {x})
  <1>1. /\ \A T \in SUBSET S : SumOver(f, T) = Sums!Fold(f, 0, T)
        /\ Sums!IsFiniteSet(S) /\ Sums!Inductive(f, 0, S) /\ Sums!Commutes(f, S)
    BY SumIsFold
  <1>2. IsInteger(f, S, Sums!Fold(f, 0, S))
    BY <1>1, Sums!FoldInduction
  <1>3. SumOver(f, S) \in Int
    BY <1>1, <1>2 DEF IsInteger
  <1>4. SumOver(f, {}) = 0
    <2>1. Sums!IsFiniteSet({}) /\ Sums!Picks({})
      <3>1. IsFiniteSet({})
        BY FS_EmptySet
      <3> QED
        BY <3>1 DEF IsFiniteSet, Sums!IsFiniteSet, Sums!Picks
    <2>2. Sums!Fold(f, 0, {}) = 0
      BY <2>1, Sums!FoldEquation
    <2> QED
      BY <1>1, <2>2
  <1>5. ASSUME NEW x \in S
        PROVE  SumOver(f, S) = f[x] + SumOver(f, S \ {x})
    <2>1. Sums!Fold(f, 0, S) = AddTerm(f, x, Sums!Fold(f, 0, S \ {x}))
      BY <1>1, Sums!FoldAny
    <2>2. S \ {x} \in SUBSET S /\ S \in SUBSET S
      OBVIOUS
    <2> QED
      BY <1>1, <2>1, <2>2 DEF AddTerm
  <1> QED
    BY <1>3, <1>4, <1>5

\* The same terms have the same sum.
LEMMA SumSame ==
    ASSUME NEW S, IsFiniteSet(S), NEW f, \A x \in S : f[x] \in Int, NEW g, \A x \in S : g[x] = f[x]
    PROVE  SumOver(g, S) = SumOver(f, S)
  <1> DEFINE F == {T \in SUBSET S : SumOver(g, T) = SumOver(f, T)}
  <1>1. ASSUME NEW T \in SUBSET S, \A x \in T : T \ {x} \in F
        PROVE  T \in F
    <2>1. IsFiniteSet(T) /\ (\A x \in T : f[x] \in Int) /\ (\A x \in T : g[x] \in Int)
      BY FS_Subset
    <2>2. /\ SumOver(f, {}) = 0 /\ SumOver(g, {}) = 0
          /\ \A x \in T : /\ SumOver(f, T) = f[x] + SumOver(f, T \ {x})
                          /\ SumOver(g, T) = g[x] + SumOver(g, T \ {x})
      BY <2>1, SumSplit
    <2>3. CASE T = {}
      BY <2>2, <2>3
    <2>4. CASE T # {}
      <3>1. PICK x \in T : TRUE
        BY <2>4
      <3>2. SumOver(g, T \ {x}) = SumOver(f, T \ {x}) /\ g[x] = f[x]
        BY <1>1
      <3> QED
        BY <2>2, <3>2
    <2> QED
      BY <2>3, <2>4
  <1>2. F \in SUBSET (SUBSET S)
    OBVIOUS
  <1> HIDE DEF F
  <1>3. S \in F
    BY <1>1, <1>2, Sums!FiniteInduction DEF IsFiniteSet, Sums!IsFiniteSet
  <1> QED
    BY <1>3 DEF F

\* A sum changes with one of its terms.
LEMMA SumChanged ==
    ASSUME NEW S, IsFiniteSet(S), NEW f, \A x \in S : f[x] \in Int,
           NEW g, NEW a \in S, g[a] \in Int, \A x \in S \ {a} : g[x] = f[x]
    PROVE  SumOver(g, S) = SumOver(f, S) + g[a] - f[a]
  <1> DEFINE T == S \ {a}
  <1>1. IsFiniteSet(T) /\ (\A x \in T : f[x] \in Int) /\ (\A x \in T : g[x] = f[x])
    BY FS_Subset
  <1> HIDE DEF T
  <1>2. SumOver(g, T) = SumOver(f, T) /\ SumOver(f, T) \in Int
    BY <1>1, SumSame, SumSplit
  <1>3. SumOver(f, S) = f[a] + SumOver(f, T)
    BY SumSplit DEF T
  <1>4. \A x \in S : g[x] \in Int
    OBVIOUS
  <1>5. SumOver(g, S) = g[a] + SumOver(g, T)
    BY <1>4, SumSplit DEF T
  <1> QED
    BY <1>2, <1>3, <1>5

\* Nothing comes to nothing.
LEMMA SumZero ==
    ASSUME NEW S, IsFiniteSet(S), NEW f, \A x \in S : f[x] = 0
    PROVE  SumOver(f, S) = 0
  <1> DEFINE F == {T \in SUBSET S : SumOver(f, T) = 0}
  <1>1. ASSUME NEW T \in SUBSET S, \A x \in T : T \ {x} \in F
        PROVE  T \in F
    <2>1. IsFiniteSet(T) /\ (\A x \in T : f[x] \in Int)
      BY FS_Subset
    <2>2. SumOver(f, {}) = 0 /\ \A x \in T : SumOver(f, T) = f[x] + SumOver(f, T \ {x})
      BY <2>1, SumSplit
    <2>3. CASE T = {}
      BY <2>2, <2>3
    <2>4. CASE T # {}
      <3>1. PICK x \in T : TRUE
        BY <2>4
      <3>2. SumOver(f, T \ {x}) = 0 /\ f[x] = 0
        BY <1>1
      <3> QED
        BY <2>2, <3>2
    <2> QED
      BY <2>3, <2>4
  <1>2. F \in SUBSET (SUBSET S)
    OBVIOUS
  <1> HIDE DEF F
  <1>3. S \in F
    BY <1>1, <1>2, Sums!FiniteInduction DEF IsFiniteSet, Sums!IsFiniteSet
  <1> QED
    BY <1>3 DEF F
-----------------------------------------------------------------------------
(* Shares and tokens.                                                      *)

\* A validator has issued at least one share (of 1/Prec) for each token.
Covered(s) == \A v \in Validators : s.tokens[v] <= DelegatorShares(s, v)

\* Shares change with those of one delegation.
LEMMA SharesSummed ==
    ASSUME NEW s, s.shares \in [Delegators \X Validators -> Nat],
           NEW s2, s2.shares \in [Delegators \X Validators -> Nat],
           NEW d \in Delegators, NEW v \in Validators,
           \A f \in Delegators \X Validators : f # <<d, v>> => s2.shares[f] = s.shares[f]
    PROVE  /\ DelegatorShares(s2, v) = DelegatorShares(s, v) + s2.shares[<<d, v>>] - s.shares[<<d, v>>]
           /\ \A w \in Validators : w # v => DelegatorShares(s2, w) = DelegatorShares(s, w)
  <1> DEFINE f(w) == [c \in Delegators |-> s.shares[<<c, w>>]]
             g(w) == [c \in Delegators |-> s2.shares[<<c, w>>]]
  <1>1. \A w \in Validators : /\ DelegatorShares(s, w) = SumOver(f(w), Delegators)
                              /\ DelegatorShares(s2, w) = SumOver(g(w), Delegators)
    BY DEF DelegatorShares
  <1>2. \A w \in Validators : \A c \in Delegators :
            /\ f(w)[c] = s.shares[<<c, w>>] /\ f(w)[c] \in Int
            /\ g(w)[c] = s2.shares[<<c, w>>] /\ g(w)[c] \in Int
            /\ ~(c = d /\ w = v) => g(w)[c] = f(w)[c]
    OBVIOUS
  <1>3. IsFiniteSet(Delegators)
    BY ExportAssumption
  <1> HIDE DEF f, g
  <1>4. SumOver(g(v), Delegators) = SumOver(f(v), Delegators) + g(v)[d] - f(v)[d]
    <2> DEFINE fv == f(v)
               gv == g(v)
    <2>1. /\ \A c \in Delegators : fv[c] \in Int
          /\ gv[d] \in Int
          /\ \A c \in Delegators \ {d} : gv[c] = fv[c]
      BY <1>2
    <2> HIDE DEF fv, gv
    <2>2. SumOver(gv, Delegators) = SumOver(fv, Delegators) + gv[d] - fv[d]
      BY <1>3, <2>1, SumChanged
    <2> QED
      BY <2>2 DEF fv, gv
  <1>5. ASSUME NEW w \in Validators, w # v
        PROVE  SumOver(g(w), Delegators) = SumOver(f(w), Delegators)
    <2>1. /\ \A c \in Delegators : f(w)[c] \in Int
          /\ \A c \in Delegators : g(w)[c] = f(w)[c]
      BY <1>2, <1>5
    <2> QED
      BY <1>3, <2>1, SumSame
  <1> QED
    BY <1>1, <1>2, <1>4, <1>5

\* So they do when a delegation changes.
LEMMA SharesMoved ==
    ASSUME NEW s, StakingOK(s), NEW s2, NEW d \in Delegators, NEW v \in Validators,
           ChangesShares(s, s2, d, v)
    PROVE  /\ DelegatorShares(s2, v) = DelegatorShares(s, v) + s2.shares[<<d, v>>] - s.shares[<<d, v>>]
           /\ \A w \in Validators : w # v => DelegatorShares(s2, w) = DelegatorShares(s, w)
  <1>1. /\ s.shares \in [Delegators \X Validators -> Nat]
        /\ s2.shares \in [Delegators \X Validators -> Nat]
        /\ \A f \in Delegators \X Validators : f # <<d, v>> => s2.shares[f] = s.shares[f]
    BY DEF ChangesShares, StakingOK, Stakings
  <1> QED
    BY <1>1, SharesSummed

\* A quotient is less than one below the exact one.
LEMMA QuotientFloor ==
    ASSUME NEW a \in Nat, NEW b \in Nat, b > 0
    PROVE  a \div b \in Nat /\ b * (a \div b) <= a /\ a < b * (a \div b) + b
  <1> DEFINE q == a \div b
             r == a % b
  <1>1. q \in Nat /\ r \in Nat /\ a = b * q + r /\ r < b /\ b * q <= a
    BY Division
  <1> HIDE DEF q, r
  <1>2. a < b * q + b
    BY <1>1
  <1> QED
    BY <1>1, <1>2 DEF q

\* Delegating gives at least a share for each token.
LEMMA AddCovers ==
    ASSUME NEW s, StakingOK(s), Covered(s), NEW d \in Delegators, NEW v \in Validators,
           NEW amount \in Nat \ {0}, s.status[v] # "none", ~InvalidExRate(s, v)
    PROVE  /\ Covered(AddTokensFromDel(s, d, v, amount))
           /\ AddTokensFromDel(s, d, v, amount).shares[<<d, v>>] > 0
  <1> DEFINE s2 == AddTokensFromDel(s, d, v, amount)
             total == DelegatorShares(s, v)
             t == s.tokens[v]
             issued == IF total = 0 THEN ToDec(amount) ELSE (total * amount) \div t
  <1>0. Prec \in Nat /\ Prec > 0
    BY DistributionAssumption
  <1>1. total \in Nat /\ t \in Nat /\ t <= total /\ s.shares[<<d, v>>] \in Nat
    BY SharesBound DEF StakingOK, Stakings, Covered
  <1>2. issued \in Nat /\ issued >= amount
    <2>1. CASE total = 0
      <3>1. ToDec(amount) \in Nat /\ ToDec(amount) >= amount
        BY <1>0 DEF ToDec
      <3> QED
        BY <2>1, <3>1
    <2>2. CASE total # 0
      <3>1. t > 0
        BY <1>1, <2>2 DEF InvalidExRate
      <3> DEFINE q == (total * amount) \div t
      <3> HIDE DEF total, t
      <3>2. total * amount \in Nat
        BY <1>1
      <3>3. q \in Nat /\ total * amount < t * q + t
        BY <1>1, <3>1, <3>2, QuotientFloor
      <3> HIDE DEF q
      <3>4. q + 1 > amount
        <4>1. t * amount <= total * amount
          BY <1>1
        <4>2. t * q + t = t * (q + 1)
          BY <1>1, <3>3
        <4>3. t * amount < t * (q + 1)
          BY <1>1, <3>2, <3>3, <4>1, <4>2
        <4> QED
          BY <1>1, <3>1, <3>3, <4>3
      <3>5. q >= amount
        BY <3>3, <3>4
      <3> QED
        BY <2>2, <3>3, <3>5 DEF q, t, total
    <2> QED
      BY <2>1, <2>2
  <1>3. s2 = [s EXCEPT !.tokens[v] = @ + amount, !.shares[<<d, v>>] = @ + issued]
    BY DEF AddTokensFromDel
  <1>4. ChangesShares(s, s2, d, v)
    BY AddsTokens
  <1> HIDE DEF issued
  <1>5. /\ s2.tokens[v] = t + amount
        /\ s2.shares[<<d, v>>] = s.shares[<<d, v>>] + issued
    BY <1>3 DEF StakingOK, Stakings
  <1> HIDE DEF s2, t
  <1>6. /\ DelegatorShares(s2, v) = total + s2.shares[<<d, v>>] - s.shares[<<d, v>>]
        /\ \A w \in Validators : w # v => DelegatorShares(s2, w) = DelegatorShares(s, w)
    BY <1>4, SharesMoved
  <1>7. DelegatorShares(s2, v) = total + issued
    BY <1>1, <1>2, <1>5, <1>6 DEF t
  <1>8. Covered(s2)
    <2>1. s2.tokens[v] <= DelegatorShares(s2, v)
      BY <1>1, <1>2, <1>5, <1>7
    <2>2. \A w \in Validators : w # v => s2.tokens[w] <= DelegatorShares(s2, w)
      BY <1>4, <1>6 DEF ChangesShares, Covered
    <2> QED
      BY <2>1, <2>2 DEF Covered
  <1> QED
    BY <1>1, <1>2, <1>5, <1>8 DEF s2

\* The tokens given for shares are less than one below their part.
LEMMA TokensGiven ==
    ASSUME NEW s \in Nat, NEW total \in Nat, total > 0, NEW t \in Nat
    PROVE  /\ TruncateInt(Quo(s * t, total)) \in Nat
           /\ s * t < total * (TruncateInt(Quo(s * t, total)) + 1)
  <1>0. Prec \in Nat /\ Prec > 0
    BY DistributionAssumption
  <1> DEFINE x == s * t
             y == x * Prec * Prec
             q == y \div total
             c == q \div Prec
             z == Chop(q)
             i == z \div Prec
  <1>1. x \in Nat /\ y \in Nat
    BY <1>0
  <1>2. q \in Nat /\ y < total * q + total
    <2> HIDE DEF y
    <2> QED
      BY <1>1, QuotientFloor
  <1>3. c \in Nat /\ q < Prec * c + Prec
    <2> HIDE DEF q
    <2> QED
      BY <1>0, <1>2, QuotientFloor
  <1>4. z \in Nat /\ z >= c
    BY <1>3 DEF Chop
  <1>5. i \in Nat /\ z < Prec * i + Prec
    <2> HIDE DEF z
    <2> QED
      BY <1>0, <1>4, QuotientFloor
  <1> HIDE DEF x, y, q, c, z, i
  <1>6. x < total * (i + 1)
    <2> DEFINE j == i + 1
    <2>1. j \in Nat /\ Prec * i + Prec = Prec * j
      BY <1>0, <1>5
    <2> HIDE DEF j
    <2>2. c + 1 <= Prec * j
      BY <1>0, <1>3, <1>4, <1>5, <2>1
    <2>3. q + 1 <= Prec * (c + 1)
      BY <1>0, <1>2, <1>3
    <2>4. y < total * (q + 1)
      BY <1>1, <1>2
    <2>5. q + 1 <= Prec * (Prec * j)
      <3>1. Prec * (c + 1) <= Prec * (Prec * j)
        BY <1>0, <1>3, <2>1, <2>2
      <3> QED
        BY <1>0, <1>2, <1>3, <2>1, <2>3, <3>1
    <2>6. y < total * (Prec * (Prec * j))
      <3> DEFINE m == Prec * (Prec * j)
      <3>1. m \in Nat /\ q + 1 <= m
        BY <1>0, <2>1, <2>5
      <3> HIDE DEF m
      <3>2. total * (q + 1) <= total * m
        BY <1>2, <3>1
      <3> QED
        BY <1>1, <1>2, <2>4, <3>1, <3>2 DEF m
    <2>7. (Prec * Prec) * x < (Prec * Prec) * (total * j)
      <3>1. y = (Prec * Prec) * x
        BY <1>0, <1>1 DEF y
      <3>2. total * (Prec * (Prec * j)) = (Prec * Prec) * (total * j)
        BY <1>0, <2>1
      <3> QED
        BY <2>6, <3>1, <3>2
    <2>8. x < total * j
      <3> DEFINE m == Prec * Prec
                 n == total * j
      <3>1. m \in Nat /\ m > 0 /\ n \in Nat
        BY <1>0, <2>1
      <3>2. m * x < m * n
        BY <2>7
      <3> HIDE DEF m, n
      <3>3. x < n
        BY <1>1, <3>1, <3>2
      <3> QED
        BY <3>3 DEF n
    <2> QED
      BY <2>8 DEF j
  <1>7. TruncateInt(Quo(s * t, total)) = i
    BY DEF TruncateInt, Quo, i, z, q, y, x
  <1> QED
    BY <1>5, <1>6, <1>7 DEF x

\* Undelegating takes no more tokens than it must.
LEMMA RemoveCovers ==
    ASSUME NEW s, StakingOK(s), Covered(s), NEW d \in Delegators, NEW v \in Validators,
           s.shares[<<d, v>>] > 0
    PROVE  Covered(RemoveDelShares(s, d, v))
  <1> DEFINE s2 == RemoveDelShares(s, d, v)
             total == DelegatorShares(s, v)
             share == s.shares[<<d, v>>]
             t == s.tokens[v]
             left == total - share
             issued == IF left = 0 THEN t ELSE TruncateInt(TokensFromShares(s, d, v))
  <1>1. /\ total \in Nat /\ share \in Nat /\ share <= total /\ share > 0
        /\ t \in Nat /\ t <= total
    BY SharesBound DEF StakingOK, Stakings, Covered
  <1>2. issued \in Int /\ t - issued <= left
    <2>1. CASE left = 0
      BY <1>1, <2>1
    <2>2. CASE left # 0
      <3> DEFINE i == TruncateInt(Quo(share * t, total))
      <3>1. TokensFromShares(s, d, v) = Quo(share * t, total)
        BY DEF TokensFromShares
      <3>2. issued = i
        BY <2>2, <3>1
      <3> HIDE DEF issued
      <3> HIDE DEF total, share, t
      <3>3. i \in Nat /\ share * t < total * (i + 1)
        BY <1>1, TokensGiven
      <3> HIDE DEF i
      <3> DEFINE r == t - i
      <3>4. total * r < total * (left + 1)
        <4>1. total * r = total * t - total * i /\ total * (left + 1) = total * left + total
          BY <1>1, <3>3
        <4>2. total * t - total * i < total * t - share * t + total
          <5>1. total * (i + 1) = total * i + total
            BY <1>1, <3>3
          <5>2. /\ total * t \in Int /\ total * i \in Int /\ share * t \in Int
                /\ share * t < total * i + total
            BY <1>1, <3>3, <5>1
          <5> QED
            BY <1>1, <5>2
        <4>3. total * t - share * t = left * t
          BY <1>1
        <4>4. left \in Nat /\ left * t <= left * total
          BY <1>1
        <4>5. left * total = total * left
          BY <1>1
        <4> DEFINE lt == left * t
                   tl == total * left
        <4>6. lt \in Int /\ tl \in Int /\ lt <= tl
          BY <1>1, <4>4, <4>5
        <4>7. total * r < lt + total /\ total * (left + 1) = tl + total
          BY <4>1, <4>2, <4>3
        <4> HIDE DEF lt, tl
        <4>8. total * r \in Int
          BY <1>1, <3>3
        <4> QED
          BY <1>1, <4>6, <4>7, <4>8
      <3>5. r < left + 1
        <4> DEFINE m == left + 1
        <4>1. r \in Int /\ m \in Int
          BY <1>1, <3>3
        <4>2. total * r < total * m
          BY <3>4
        <4> HIDE DEF r, m
        <4>3. r < m
          BY <1>1, <4>1, <4>2
        <4> QED
          BY <4>3 DEF m
      <3> QED
        BY <1>1, <3>2, <3>3, <3>5
    <2> QED
      BY <2>1, <2>2
  <1>3. s2 = [s EXCEPT !.tokens[v] = @ - issued, !.shares[<<d, v>>] = 0]
    BY DEF RemoveDelShares
  <1>4. ChangesShares(s, s2, d, v) /\ s2.shares[<<d, v>>] = 0
    BY RemovesShares
  <1> HIDE DEF issued
  <1>5. s2.tokens[v] = t - issued
    BY <1>3 DEF StakingOK, Stakings
  <1> HIDE DEF s2, t
  <1>6. /\ DelegatorShares(s2, v) = total + s2.shares[<<d, v>>] - share
        /\ \A w \in Validators : w # v => DelegatorShares(s2, w) = DelegatorShares(s, w)
    BY <1>4, SharesMoved
  <1>7. DelegatorShares(s2, v) = left
    BY <1>1, <1>4, <1>6
  <1>8. s2.tokens[v] <= DelegatorShares(s2, v)
    BY <1>2, <1>5, <1>7
  <1>9. \A w \in Validators : w # v => s2.tokens[w] <= DelegatorShares(s2, w)
    BY <1>4, <1>6 DEF ChangesShares, Covered
  <1>10. Covered(s2)
    BY <1>8, <1>9 DEF Covered
  <1> QED
    BY <1>10 DEF s2
-----------------------------------------------------------------------------
(* The books.                                                              *)

Records == [ratio : Int, refs : Nat]
SlashEvents == [height : Nat, period : Periods, fraction : Int]

Stores ==
    [historical  : [Validators -> [Periods -> Records]],
     rewards     : [Validators -> Int],
     period      : [Validators -> Nat],
     commission  : [Validators -> Int],
     outstanding : [Validators -> Int],
     slashes     : [Validators -> SUBSET SlashEvents],
     starting    : [Delegators \X Validators -> StartingInfos \cup {NoInfo}],
     pool        : Int,
     balance     : Int,
     panicked    : BOOLEAN]

RefsAt(kk, v, p) == kk.historical[v][p].refs
Refs(kk) == SumOver([v \in Validators |-> References(kk, v)], Validators)
Slashes(kk) == SumOver([v \in Validators |-> Cardinality(kk.slashes[v])], Validators)

\* The periods that the delegations in E and the slashes of v need.
Needed(kk, E, v) ==
    {kk.starting[e].period : e \in {f \in E : f[2] = v}} \cup {s.period : s \in kk.slashes[v]}

\* C are the validators that are set up.  Every delegation and every slash
\* needs a period of its own, one that has ended.
Apart(kk, C, E) ==
    /\ E \subseteq Delegators \X C
    /\ \A v \in Validators : IsFiniteSet(kk.slashes[v]) /\ (v \notin C => kk.slashes[v] = {})
    /\ \A v \in C : kk.period[v] \in 1..(MaxPeriod + 1)
    /\ \A e \in E : kk.starting[e] \in StartingInfos /\ kk.starting[e].period < kk.period[e[2]]
    /\ \A v \in Validators : \A s \in kk.slashes[v] : s.period < kk.period[v]
    /\ \A e, f \in E : e # f /\ e[2] = f[2] => kk.starting[e].period # kk.starting[f].period
    /\ \A e \in E : \A s \in kk.slashes[e[2]] : s.period # kk.starting[e].period
    /\ \A v \in Validators : \A s, t \in kk.slashes[v] : s # t => s.period # t.period

\* A period is referred to as the last that ended and by who needs it.
Marker(kk, C, v, p) == IF v \in C /\ p + 1 = kk.period[v] THEN 1 ELSE 0
Need(kk, E, v, p) == IF p \in Needed(kk, E, v) THEN 1 ELSE 0

Counted(kk, C, E) ==
    \A v \in Validators, p \in Periods :
        RefsAt(kk, v, p) = Marker(kk, C, v, p) + Need(kk, E, v, p)

Totalled(kk, C, E) == Refs(kk) = Cardinality(C) + Cardinality(E) + Slashes(kk)

\* V are the validators that something may be outstanding for.
Balanced(kk, V) ==
    /\ SumOver(kk.outstanding, Validators) + kk.pool = ToDec(kk.balance)
    /\ \A v \in Validators \ V : kk.outstanding[v] = 0 /\ kk.commission[v] = 0

Books(kk, V, C, E) ==
    /\ kk \in Stores
    /\ C \subseteq V /\ V \subseteq Validators
    /\ Apart(kk, C, E)
    /\ Counted(kk, C, E)
    /\ Totalled(kk, C, E)
    /\ Balanced(kk, V)

\* The last period to end is not needed by anyone yet.
Fresh(kk, E, v) == kk.period[v] - 1 \notin Needed(kk, E, v)

\* The total of the references changes with those of one period.
LEMMA RefsSummed ==
    ASSUME NEW k1 \in Stores, NEW k2 \in Stores, NEW v \in Validators, NEW p \in Periods,
           \A w \in Validators, q \in Periods :
               ~(w = v /\ q = p) => RefsAt(k2, w, q) = RefsAt(k1, w, q)
    PROVE  Refs(k1) \in Int /\ Refs(k2) = Refs(k1) + RefsAt(k2, v, p) - RefsAt(k1, v, p)
  <1>1. \A w \in Validators, q \in Periods : RefsAt(k1, w, q) \in Int /\ RefsAt(k2, w, q) \in Int
    BY DEF Stores, Records, RefsAt
  <1>2. IsFiniteSet(Validators) /\ IsFiniteSet(Periods)
    BY ExportAssumption, DistributionAssumption, FS_Interval DEF Periods
  <1> DEFINE f(w) == [q \in Periods |-> RefsAt(k1, w, q)]
             g(w) == [q \in Periods |-> RefsAt(k2, w, q)]
             a == [w \in Validators |-> References(k1, w)]
             b == [w \in Validators |-> References(k2, w)]
  <1>3. ASSUME NEW w \in Validators
        PROVE  /\ References(k1, w) = SumOver(f(w), Periods)
               /\ References(k2, w) = SumOver(g(w), Periods)
               /\ References(k1, w) \in Int /\ References(k2, w) \in Int
    <2>1. References(k1, w) = SumOver(f(w), Periods) /\ References(k2, w) = SumOver(g(w), Periods)
      BY DEF References, RefsAt
    <2> DEFINE ff == f(w)
               gg == g(w)
    <2>2. (\A q \in Periods : ff[q] \in Int) /\ (\A q \in Periods : gg[q] \in Int)
      BY <1>1
    <2> HIDE DEF ff, gg
    <2>3. SumOver(ff, Periods) \in Int /\ SumOver(gg, Periods) \in Int
      BY <1>2, <2>2, SumSplit
    <2> QED
      BY <2>1, <2>3 DEF ff, gg
  <1>4. ASSUME NEW w \in Validators, w # v
        PROVE  References(k2, w) = References(k1, w)
    <2> DEFINE ff == f(w)
               gg == g(w)
    <2>1. (\A q \in Periods : ff[q] \in Int) /\ (\A q \in Periods : gg[q] = ff[q])
      BY <1>1, <1>4
    <2> HIDE DEF ff, gg
    <2>2. SumOver(gg, Periods) = SumOver(ff, Periods)
      BY <1>2, <2>1, SumSame
    <2> QED
      BY <1>3, <2>2 DEF ff, gg
  <1>5. References(k2, v) = References(k1, v) + RefsAt(k2, v, p) - RefsAt(k1, v, p)
    <2> DEFINE ff == f(v)
               gg == g(v)
    <2>1. /\ \A q \in Periods : ff[q] \in Int
          /\ gg[p] = RefsAt(k2, v, p) /\ ff[p] = RefsAt(k1, v, p) /\ gg[p] \in Int
          /\ \A q \in Periods \ {p} : gg[q] = ff[q]
      BY <1>1
    <2> HIDE DEF ff, gg
    <2>2. SumOver(gg, Periods) = SumOver(ff, Periods) + gg[p] - ff[p]
      BY <1>2, <2>1, SumChanged
    <2>3. References(k1, v) = SumOver(ff, Periods) /\ References(k2, v) = SumOver(gg, Periods)
      BY <1>3 DEF ff, gg
    <2> QED
      BY <2>1, <2>2, <2>3
  <1>6. /\ \A w \in Validators : a[w] \in Int
        /\ a[v] = References(k1, v) /\ b[v] = References(k2, v) /\ b[v] \in Int
        /\ \A w \in Validators \ {v} : b[w] = a[w]
    <2> HIDE DEF f, g
    <2> QED
      BY <1>3, <1>4
  <1>7. Refs(k1) = SumOver(a, Validators) /\ Refs(k2) = SumOver(b, Validators)
    BY DEF Refs
  <1> HIDE DEF f, g, a, b
  <1>8. SumOver(b, Validators) = SumOver(a, Validators) + b[v] - a[v]
    BY <1>2, <1>6, SumChanged
  <1>9. SumOver(a, Validators) \in Int
    BY <1>2, <1>6, SumSplit
  <1> QED
    BY <1>1, <1>3, <1>5, <1>6, <1>7, <1>8, <1>9

\* So does the number of slashes with those of one validator.
LEMMA SlashesSummed ==
    ASSUME NEW k1, NEW k2, NEW v \in Validators,
           \A w \in Validators : IsFiniteSet(k1.slashes[w]) /\ IsFiniteSet(k2.slashes[w]),
           \A w \in Validators : w # v => k2.slashes[w] = k1.slashes[w]
    PROVE  /\ Slashes(k1) \in Int
           /\ Slashes(k2) = Slashes(k1) + Cardinality(k2.slashes[v]) - Cardinality(k1.slashes[v])
  <1> DEFINE a == [w \in Validators |-> Cardinality(k1.slashes[w])]
             b == [w \in Validators |-> Cardinality(k2.slashes[w])]
  <1>1. IsFiniteSet(Validators)
    BY ExportAssumption
  <1>2. \A w \in Validators : Cardinality(k1.slashes[w]) \in Int /\ Cardinality(k2.slashes[w]) \in Int
    BY FS_CardinalityType
  <1>3. /\ \A w \in Validators : a[w] \in Int
        /\ a[v] = Cardinality(k1.slashes[v]) /\ b[v] = Cardinality(k2.slashes[v]) /\ b[v] \in Int
        /\ \A w \in Validators \ {v} : b[w] = a[w]
    BY <1>2
  <1>4. Slashes(k1) = SumOver(a, Validators) /\ Slashes(k2) = SumOver(b, Validators)
    BY DEF Slashes
  <1> HIDE DEF a, b
  <1>5. SumOver(b, Validators) = SumOver(a, Validators) + b[v] - a[v]
    BY <1>1, <1>3, SumChanged
  <1>6. SumOver(a, Validators) \in Int
    BY <1>1, <1>3, SumSplit
  <1> QED
    BY <1>3, <1>4, <1>5, <1>6
-----------------------------------------------------------------------------
(* The steps that count references.                                        *)

\* All but the records and the panic.
Accounts(kk) ==
    <<kk.rewards, kk.period, kk.commission, kk.outstanding, kk.slashes, kk.starting, kk.pool, kk.balance>>

\* n references more to period p of v.
Refers(k1, k2, v, p, n) ==
    /\ RefsAt(k2, v, p) = RefsAt(k1, v, p) + n
    /\ \A w \in Validators, q \in Periods :
          ~(w = v /\ q = p) => RefsAt(k2, w, q) = RefsAt(k1, w, q)

\* One reference more.
LEMMA ReferenceAdded ==
    ASSUME NEW kk \in Stores, NEW v \in Validators, NEW p \in Periods
    PROVE  LET k2 == incrementReferenceCount(kk, v, p)
           IN  /\ k2 \in Stores
               /\ Accounts(k2) = Accounts(kk)
               /\ Refers(kk, k2, v, p, 1)
               /\ Refs(k2) = Refs(kk) + 1
               /\ k2.panicked = (kk.panicked \/ RefsAt(kk, v, p) > 2)
  <1> DEFINE k2 == incrementReferenceCount(kk, v, p)
             record == [kk.historical[v][p] EXCEPT !.refs = @ + 1]
             h2 == [kk.historical EXCEPT ![v] = [@ EXCEPT ![p] = record]]
  <1>1. /\ k2.historical = h2
        /\ k2.panicked = (kk.panicked \/ RefsAt(kk, v, p) > 2)
        /\ Accounts(k2) = Accounts(kk)
    BY DEF incrementReferenceCount, Stores, Accounts, RefsAt
  <1>2. kk.historical \in [Validators -> [Periods -> Records]]
    BY DEF Stores
  <1>3. record \in Records /\ record.refs = kk.historical[v][p].refs + 1
    BY <1>2 DEF Records
  <1> HIDE DEF record
  <1>4. /\ h2 \in [Validators -> [Periods -> Records]]
        /\ h2[v][p] = record
        /\ \A w \in Validators, q \in Periods :
              ~(w = v /\ q = p) => h2[w][q] = kk.historical[w][q]
    BY <1>2, <1>3
  <1>5. k2 = [kk EXCEPT !.historical = h2, !.panicked = kk.panicked \/ RefsAt(kk, v, p) > 2]
    BY <1>3 DEF incrementReferenceCount, Stores, RefsAt, record
  <1> HIDE DEF h2
  <1>6. k2 \in Stores
    BY <1>4, <1>5 DEF Stores
  <1> HIDE DEF k2
  <1>7. Refers(kk, k2, v, p, 1)
    BY <1>1, <1>3, <1>4 DEF Refers, RefsAt
  <1>8. Refs(k2) = Refs(kk) + 1
    <2>1. /\ RefsAt(k2, v, p) = RefsAt(kk, v, p) + 1 /\ RefsAt(kk, v, p) \in Int
          /\ \A w \in Validators, q \in Periods :
                ~(w = v /\ q = p) => RefsAt(k2, w, q) = RefsAt(kk, w, q)
      BY <1>2, <1>7 DEF Refers, RefsAt, Records
    <2>2. Refs(kk) \in Int /\ Refs(k2) = Refs(kk) + RefsAt(k2, v, p) - RefsAt(kk, v, p)
      BY <1>6, <2>1, RefsSummed
    <2> QED
      BY <2>1, <2>2
  <1> QED
    BY <1>1, <1>6, <1>7, <1>8 DEF k2

\* One reference less.
LEMMA ReferenceDropped ==
    ASSUME NEW kk \in Stores, NEW v \in Validators, NEW p \in Periods, RefsAt(kk, v, p) >= 1
    PROVE  LET k2 == decrementReferenceCount(kk, v, p)
           IN  /\ k2 \in Stores
               /\ Accounts(k2) = Accounts(kk)
               /\ Refers(kk, k2, v, p, -1)
               /\ Refs(k2) = Refs(kk) - 1
               /\ k2.panicked = kk.panicked
  <1> DEFINE k2 == decrementReferenceCount(kk, v, p)
             old == kk.historical[v][p]
             record == IF old.refs = 1 THEN Absent ELSE [old EXCEPT !.refs = old.refs - 1]
             h2 == [kk.historical EXCEPT ![v] = [@ EXCEPT ![p] = record]]
  <1>2. kk.historical \in [Validators -> [Periods -> Records]]
    BY DEF Stores
  <1>3. old \in Records /\ old.refs >= 1
    BY <1>2 DEF RefsAt
  <1>a. record \in Records /\ record.refs = old.refs - 1
    BY <1>3 DEF Records, Absent
  <1>5. k2 = [kk EXCEPT !.historical = h2]
    <2>1. k2 = [kk EXCEPT !.historical[v][p] =
                    IF old.refs = 1 THEN Absent ELSE [@ EXCEPT !.refs = old.refs - 1]]
      BY <1>3 DEF decrementReferenceCount, Records
    <2> QED
      BY <2>1 DEF Stores
  <1> HIDE DEF record, k2
  <1>4. /\ h2 \in [Validators -> [Periods -> Records]]
        /\ h2[v][p] = record
        /\ \A w \in Validators, q \in Periods :
              ~(w = v /\ q = p) => h2[w][q] = kk.historical[w][q]
    BY <1>2, <1>a
  <1> HIDE DEF h2
  <1>1. k2.historical = h2 /\ Accounts(k2) = Accounts(kk) /\ k2.panicked = kk.panicked
    BY <1>5 DEF Stores, Accounts
  <1>6. k2 \in Stores
    BY <1>4, <1>5 DEF Stores
  <1>7. Refers(kk, k2, v, p, -1)
    BY <1>1, <1>3, <1>a, <1>4 DEF Refers, RefsAt, Records
  <1>8. Refs(k2) = Refs(kk) - 1
    <2>1. /\ RefsAt(k2, v, p) = RefsAt(kk, v, p) - 1 /\ RefsAt(kk, v, p) \in Int
          /\ \A w \in Validators, q \in Periods :
                ~(w = v /\ q = p) => RefsAt(k2, w, q) = RefsAt(kk, w, q)
      BY <1>2, <1>7 DEF Refers, RefsAt, Records
    <2>2. Refs(kk) \in Int /\ Refs(k2) = Refs(kk) + RefsAt(k2, v, p) - RefsAt(kk, v, p)
      BY <1>6, <2>1, RefsSummed
    <2> QED
      BY <2>1, <2>2
  <1> QED
    BY <1>1, <1>6, <1>7, <1>8 DEF k2

\* Decimals are integers.
LEMMA DecimalInt ==
    ASSUME NEW x \in Int, NEW y \in Int
    PROVE  /\ Chop(x) \in Int
           /\ MulDec(x, y) \in Int
           /\ MulTruncate(x, y) \in Int
           /\ ToDec(x) \in Int
           /\ TruncateInt(x) \in Int
           /\ y > 0 => Quo(x, y) \in Int /\ QuoTruncate(x, y) \in Int /\ QuoRoundUp(x, y) \in Int
  <1>0. Prec \in Nat /\ Prec > 0
    BY DistributionAssumption
  <1>1. \A z \in Int : z \div Prec \in Int
    BY <1>0
  <1>2. \A z \in Int : Chop(z) \in Int
    BY <1>1 DEF Chop
  <1>3. x * y \in Int
    OBVIOUS
  <1>4. ToDec(x) \in Int
    BY <1>0 DEF ToDec
  <1>5. ASSUME y > 0
        PROVE  Quo(x, y) \in Int /\ QuoTruncate(x, y) \in Int /\ QuoRoundUp(x, y) \in Int
    <2> DEFINE z == x * Prec * Prec
               q == z \div y
    <2>1. z \in Int
      BY <1>0
    <2> HIDE DEF z
    <2>2. q \in Int
      BY <1>5, <2>1
    <2> HIDE DEF q
    <2>3. Quo(x, y) = Chop(q) /\ QuoTruncate(x, y) = q \div Prec /\ QuoRoundUp(x, y) = (q + Prec - 1) \div Prec
      BY DEF Quo, QuoTruncate, QuoRoundUp, q, z
    <2>4. q + Prec - 1 \in Int
      BY <1>0, <2>2
    <2> QED
      BY <1>1, <1>2, <2>2, <2>3, <2>4
  <1> QED
    BY <1>1, <1>2, <1>3, <1>4, <1>5 DEF MulDec, MulTruncate, TruncateInt

\* A validator's period ends.
LEMMA PeriodEnded ==
    ASSUME NEW kk \in Stores, NEW s, NEW v \in Validators, s.tokens[v] \in Nat,
           kk.period[v] \in 1..MaxPeriod,
           RefsAt(kk, v, kk.period[v] - 1) >= 1, RefsAt(kk, v, kk.period[v]) = 0
    PROVE  LET k2 == IncrementValidatorPeriod(kk, s, v)
               p == kk.period[v]
           IN  /\ k2 \in Stores
               /\ k2.period = [kk.period EXCEPT ![v] = p + 1]
               /\ k2.commission = kk.commission /\ k2.slashes = kk.slashes
               /\ k2.starting = kk.starting /\ k2.balance = kk.balance
               /\ k2.panicked = kk.panicked
               /\ k2.outstanding[v] + k2.pool = kk.outstanding[v] + kk.pool
               /\ \A w \in Validators : w # v => k2.outstanding[w] = kk.outstanding[w]
               /\ RefsAt(k2, v, p - 1) = RefsAt(kk, v, p - 1) - 1
               /\ RefsAt(k2, v, p) = 1
               /\ \A w \in Validators, q \in Periods :
                     ~(w = v /\ q \in {p - 1, p}) => RefsAt(k2, w, q) = RefsAt(kk, w, q)
               /\ Refs(k2) = Refs(kk)
  <1> DEFINE p == kk.period[v]
             kd == decrementReferenceCount(kk, v, p - 1)
             empty == s.tokens[v] = 0
             current == IF empty THEN 0 ELSE QuoTruncate(kk.rewards[v], ToDec(s.tokens[v]))
             scraps == IF empty THEN kk.rewards[v] ELSE 0
             ratio == kk.historical[v][p - 1].ratio + current
             record == [ratio |-> ratio, refs |-> 1]
             k2 == IncrementValidatorPeriod(kk, s, v)
  <1>1. p \in Periods /\ p - 1 \in Periods /\ p \in Nat
    BY DistributionAssumption DEF Periods
  <1>2. current \in Int /\ scraps \in Int
    <2>1. kk.rewards[v] \in Int
      BY DEF Stores
    <2>2. CASE empty
      BY <2>1, <2>2
    <2>3. CASE ~empty
      <3>1. ToDec(s.tokens[v]) \in Int /\ ToDec(s.tokens[v]) > 0
        BY <2>3, DistributionAssumption DEF ToDec
      <3>2. QuoTruncate(kk.rewards[v], ToDec(s.tokens[v])) \in Int
        BY <2>1, <3>1, DecimalInt
      <3> QED
        BY <2>1, <2>3, <3>2
    <2> QED
      BY <2>2, <2>3
  <1>3. record \in Records
    <2>1. kk.historical[v][p - 1].ratio \in Int
      BY <1>1 DEF Stores, Records
    <2> HIDE DEF current
    <2> QED
      BY <1>2, <2>1 DEF Records
  <1>4. /\ kd \in Stores
        /\ Accounts(kd) = Accounts(kk)
        /\ Refers(kk, kd, v, p - 1, -1)
        /\ Refs(kd) = Refs(kk) - 1
        /\ kd.panicked = kk.panicked
    <2> HIDE DEF p
    <2> QED
      BY <1>1, ReferenceDropped DEF p
  <1>5. k2 = [kd EXCEPT !.historical[v][p] = record, !.rewards[v] = 0, !.period[v] = p + 1,
                        !.pool = @ + scraps, !.outstanding[v] = @ - scraps]
    BY DEF IncrementValidatorPeriod
  <1> HIDE DEF kd, record, scraps, k2
  <1>6. /\ kd.rewards = kk.rewards /\ kd.period = kk.period /\ kd.commission = kk.commission
        /\ kd.outstanding = kk.outstanding /\ kd.slashes = kk.slashes
        /\ kd.starting = kk.starting /\ kd.pool = kk.pool /\ kd.balance = kk.balance
    BY <1>4 DEF Accounts
  <1> DEFINE h2 == [kd.historical EXCEPT ![v] = [@ EXCEPT ![p] = record]]
             o2 == [kd.outstanding EXCEPT ![v] = @ - scraps]
  <1>7. k2 = [kd EXCEPT !.historical = h2, !.rewards = [kd.rewards EXCEPT ![v] = 0],
                        !.period = [kd.period EXCEPT ![v] = p + 1],
                        !.pool = kd.pool + scraps, !.outstanding = o2]
    BY <1>4, <1>5 DEF Stores
  <1>8. /\ h2 \in [Validators -> [Periods -> Records]]
        /\ h2[v][p] = record
        /\ \A w \in Validators, q \in Periods :
              ~(w = v /\ q = p) => h2[w][q] = kd.historical[w][q]
    BY <1>1, <1>3, <1>4 DEF Stores
  <1>9. /\ o2 \in [Validators -> Int]
        /\ o2[v] = kd.outstanding[v] - scraps
        /\ \A w \in Validators : w # v => o2[w] = kd.outstanding[w]
    BY <1>2, <1>4 DEF Stores
  <1> HIDE DEF h2, o2, p
  <1>10. k2 \in Stores
    <2> DEFINE r3 == [kd.rewards EXCEPT ![v] = 0]
               p3 == [kd.period EXCEPT ![v] = p + 1]
               m3 == kd.pool + scraps
    <2>1. r3 \in [Validators -> Int] /\ p3 \in [Validators -> Nat] /\ m3 \in Int
      BY <1>1, <1>2, <1>4 DEF Stores
    <2> HIDE DEF r3, p3, m3
    <2>2. k2 = [kd EXCEPT !.historical = h2, !.rewards = r3, !.period = p3, !.pool = m3,
                          !.outstanding = o2]
      BY <1>7 DEF r3, p3, m3
    <2> QED
      BY <1>4, <1>8, <1>9, <2>1, <2>2 DEF Stores
  <1>11. /\ k2.historical = h2 /\ k2.outstanding = o2 /\ k2.pool = kd.pool + scraps
         /\ k2.period = [kd.period EXCEPT ![v] = p + 1]
         /\ k2.commission = kd.commission /\ k2.slashes = kd.slashes
         /\ k2.starting = kd.starting /\ k2.balance = kd.balance /\ k2.panicked = kd.panicked
    BY <1>4, <1>7 DEF Stores
  <1>12. /\ RefsAt(k2, v, p) = 1
         /\ \A w \in Validators, q \in Periods :
               ~(w = v /\ q = p) => RefsAt(k2, w, q) = RefsAt(kd, w, q)
    BY <1>8, <1>11 DEF RefsAt, record
  <1>13. /\ RefsAt(kd, v, p - 1) = RefsAt(kk, v, p - 1) - 1
         /\ \A w \in Validators, q \in Periods :
               ~(w = v /\ q = p - 1) => RefsAt(kd, w, q) = RefsAt(kk, w, q)
    <2>1. RefsAt(kk, v, p - 1) \in Int
      BY <1>1 DEF RefsAt, Stores, Records
    <2> QED
      BY <1>4, <2>1 DEF Refers
  <1>14. RefsAt(kd, v, p) = 0
    BY <1>1, <1>13 DEF p
  <1>15. Refs(k2) = Refs(kk)
    <2>1. Refs(kd) \in Int /\ Refs(k2) = Refs(kd) + RefsAt(k2, v, p) - RefsAt(kd, v, p)
      BY <1>1, <1>4, <1>10, <1>12, RefsSummed
    <2>2. Refs(kk) \in Int
      BY <1>1, RefsSummed
    <2> QED
      BY <1>4, <1>12, <1>14, <2>1, <2>2
  <1>16. k2.outstanding[v] + k2.pool = kk.outstanding[v] + kk.pool
    <2>1. kk.outstanding[v] \in Int /\ kk.pool \in Int
      BY DEF Stores
    <2> QED
      BY <1>2, <1>6, <1>9, <1>11, <2>1
  <1>17. RefsAt(k2, v, p - 1) = RefsAt(kk, v, p - 1) - 1
    BY <1>1, <1>12, <1>13
  <1>18. \A w \in Validators, q \in Periods :
            ~(w = v /\ q \in {p - 1, p}) => RefsAt(k2, w, q) = RefsAt(kk, w, q)
    BY <1>12, <1>13
  <1>19. /\ k2.period = [kk.period EXCEPT ![v] = p + 1]
         /\ k2.commission = kk.commission /\ k2.slashes = kk.slashes
         /\ k2.starting = kk.starting /\ k2.balance = kk.balance /\ k2.panicked = kk.panicked
         /\ \A w \in Validators : w # v => k2.outstanding[w] = kk.outstanding[w]
    BY <1>4, <1>6, <1>9, <1>11
  <1> QED
    BY <1>10, <1>12, <1>15, <1>16, <1>17, <1>18, <1>19 DEF p, k2
-----------------------------------------------------------------------------
(* The steps that keep the books.                                          *)

\* Who needs a period needs one that has ended.
LEMMA NeededBefore ==
    ASSUME NEW kk \in Stores, NEW C \in SUBSET Validators, NEW E, Apart(kk, C, E),
           NEW v \in Validators, NEW p \in Needed(kk, E, v)
    PROVE  v \in C /\ p \in Periods /\ p < kk.period[v]
  <1>1. CASE \E e \in E : e[2] = v /\ p = kk.starting[e].period
    <2>1. PICK e \in E : e[2] = v /\ p = kk.starting[e].period
      BY <1>1
    <2>2. e \in Delegators \X C /\ kk.starting[e] \in StartingInfos /\ kk.starting[e].period < kk.period[e[2]]
      BY DEF Apart
    <2> QED
      BY <2>1, <2>2 DEF StartingInfos
  <1>2. CASE \E t \in kk.slashes[v] : p = t.period
    <2>1. PICK t \in kk.slashes[v] : p = t.period
      BY <1>2
    <2>2. t \in SlashEvents
      BY DEF Stores
    <2> QED
      BY <2>1, <2>2 DEF Apart, SlashEvents
  <1> QED
    BY <1>1, <1>2 DEF Needed

\* What is outstanding changes with one validator.
LEMMA OutstandingSummed ==
    ASSUME NEW k1 \in Stores, NEW k2 \in Stores, NEW v \in Validators,
           \A w \in Validators : w # v => k2.outstanding[w] = k1.outstanding[w]
    PROVE  /\ SumOver(k1.outstanding, Validators) \in Int
           /\ SumOver(k2.outstanding, Validators) =
                SumOver(k1.outstanding, Validators) + k2.outstanding[v] - k1.outstanding[v]
  <1> DEFINE f == k1.outstanding
             g == k2.outstanding
  <1>1. IsFiniteSet(Validators)
    BY ExportAssumption
  <1>2. (\A w \in Validators : f[w] \in Int) /\ g[v] \in Int /\ (\A w \in Validators \ {v} : g[w] = f[w])
    BY DEF Stores
  <1> HIDE DEF f, g
  <1>3. SumOver(f, Validators) \in Int /\ SumOver(g, Validators) = SumOver(f, Validators) + g[v] - f[v]
    BY <1>1, <1>2, SumSplit, SumChanged
  <1> QED
    BY <1>3 DEF f, g

\* What one validator and the pool exchange, and what leaves in whole coins,
\* keeps the balance.
LEMMA BalanceKept ==
    ASSUME NEW k1 \in Stores, NEW k2 \in Stores, NEW V, V \subseteq Validators, Balanced(k1, V),
           NEW v \in V, NEW n \in Int,
           \A w \in Validators : w # v => k2.outstanding[w] = k1.outstanding[w],
           \A w \in Validators : w # v => k2.commission[w] = k1.commission[w],
           k2.outstanding[v] + k2.pool = k1.outstanding[v] + k1.pool + ToDec(n),
           k2.balance = k1.balance + n
    PROVE  Balanced(k2, V)
  <1> DEFINE s1 == SumOver(k1.outstanding, Validators)
             s2 == SumOver(k2.outstanding, Validators)
  <1>1. s1 \in Int /\ s2 = s1 + k2.outstanding[v] - k1.outstanding[v]
    BY OutstandingSummed
  <1> HIDE DEF s1, s2
  <1>2. /\ k1.outstanding[v] \in Int /\ k2.outstanding[v] \in Int
        /\ k1.pool \in Int /\ k2.pool \in Int /\ k1.balance \in Int
    BY DEF Stores
  <1>3. ToDec(k2.balance) = ToDec(k1.balance) + ToDec(n)
    BY <1>2, DistributionAssumption DEF ToDec
  <1>4. ToDec(n) \in Int /\ ToDec(k1.balance) \in Int
    BY <1>2, DecimalInt
  <1>5. s1 + k1.pool = ToDec(k1.balance)
    BY DEF Balanced, s1
  <1>6. s2 + k2.pool = ToDec(k2.balance)
    BY <1>1, <1>2, <1>3, <1>4, <1>5
  <1>7. \A w \in Validators \ V : k2.outstanding[w] = 0 /\ k2.commission[w] = 0
    BY DEF Balanced
  <1> QED
    BY <1>6, <1>7 DEF Balanced, s2

\* A period ends.
LEMMA PeriodEndedBooks ==
    ASSUME NEW kk, NEW V, NEW C, NEW E, Books(kk, V, C, E), NEW s, NEW v \in C,
           s.tokens[v] \in Nat, kk.period[v] <= MaxPeriod
    PROVE  LET k2 == IncrementValidatorPeriod(kk, s, v)
           IN  /\ Books(k2, V, C, E)
               /\ Fresh(k2, E, v)
               /\ k2.period = [kk.period EXCEPT ![v] = kk.period[v] + 1]
               /\ k2.starting = kk.starting /\ k2.slashes = kk.slashes
               /\ k2.panicked = kk.panicked
  <1> DEFINE k2 == IncrementValidatorPeriod(kk, s, v)
             p == kk.period[v]
  <1>1. kk \in Stores /\ C \in SUBSET Validators /\ v \in Validators /\ v \in V
    BY DEF Books
  <1>a. Apart(kk, C, E) /\ Counted(kk, C, E) /\ Totalled(kk, C, E) /\ Balanced(kk, V)
    BY DEF Books
  <1>2. p \in 1..MaxPeriod /\ p \in Periods /\ p - 1 \in Periods
    BY <1>a, DistributionAssumption DEF Apart, Periods
  <1>3. \A q \in Needed(kk, E, v) : q \in Periods /\ q < p
    BY <1>1, <1>a, NeededBefore
  <1>4. RefsAt(kk, v, p - 1) >= 1 /\ RefsAt(kk, v, p) = 0
    <2>1. /\ RefsAt(kk, v, p - 1) = Marker(kk, C, v, p - 1) + Need(kk, E, v, p - 1)
          /\ RefsAt(kk, v, p) = Marker(kk, C, v, p) + Need(kk, E, v, p)
      BY <1>1, <1>2, <1>a DEF Counted
    <2> QED
      BY <1>2, <1>3, <2>1 DEF Marker, Need
  <1>5. /\ k2 \in Stores
        /\ k2.period = [kk.period EXCEPT ![v] = p + 1]
        /\ k2.commission = kk.commission /\ k2.slashes = kk.slashes
        /\ k2.starting = kk.starting /\ k2.balance = kk.balance
        /\ k2.panicked = kk.panicked
        /\ k2.outstanding[v] + k2.pool = kk.outstanding[v] + kk.pool
        /\ \A w \in Validators : w # v => k2.outstanding[w] = kk.outstanding[w]
        /\ RefsAt(k2, v, p - 1) = RefsAt(kk, v, p - 1) - 1
        /\ RefsAt(k2, v, p) = 1
        /\ \A w \in Validators, q \in Periods :
              ~(w = v /\ q \in {p - 1, p}) => RefsAt(k2, w, q) = RefsAt(kk, w, q)
        /\ Refs(k2) = Refs(kk)
    BY <1>1, <1>2, <1>4, PeriodEnded
  <1> HIDE DEF k2
  <1>6. \A w \in Validators : Needed(k2, E, w) = Needed(kk, E, w)
    BY <1>5 DEF Needed
  <1>7. k2.period[v] = p + 1 /\ \A w \in Validators : w # v => k2.period[w] = kk.period[w]
    BY <1>1, <1>5 DEF Stores
  <1> HIDE DEF p
  <1>8. Apart(k2, C, E)
    <2>1. \A w \in Validators : k2.period[w] >= kk.period[w] /\ kk.period[w] \in Nat
      BY <1>1, <1>2, <1>7 DEF p, Stores
    <2>2. \A w \in C : k2.period[w] \in 1..(MaxPeriod + 1)
      BY <1>1, <1>2, <1>7, <1>a, DistributionAssumption DEF Apart
    <2>3. \A e \in E : kk.starting[e].period < k2.period[e[2]]
      <3> SUFFICES ASSUME NEW e \in E PROVE kk.starting[e].period < k2.period[e[2]]
        OBVIOUS
      <3>1. e[2] \in Validators /\ kk.starting[e] \in StartingInfos /\ kk.starting[e].period < kk.period[e[2]]
        BY <1>1, <1>a DEF Apart
      <3>2. k2.period[e[2]] \in Nat
        BY <1>5, <3>1 DEF Stores
      <3> QED
        BY <2>1, <3>1, <3>2 DEF StartingInfos, Periods
    <2>4. \A w \in Validators : \A t \in kk.slashes[w] : t.period < k2.period[w]
      <3> SUFFICES ASSUME NEW w \in Validators, NEW t \in kk.slashes[w] PROVE t.period < k2.period[w]
        OBVIOUS
      <3>1. t.period \in Periods /\ t.period < kk.period[w] /\ k2.period[w] \in Nat
        BY <1>1, <1>5, <1>a DEF Apart, Stores, SlashEvents
      <3> QED
        BY <2>1, <3>1 DEF Periods
    <2> QED
      BY <1>5, <1>a, <2>2, <2>3, <2>4 DEF Apart
  <1>9. Counted(k2, C, E)
    <2> SUFFICES ASSUME NEW w \in Validators, NEW q \in Periods
                 PROVE  RefsAt(k2, w, q) = Marker(k2, C, w, q) + Need(k2, E, w, q)
      BY DEF Counted
    <2>1. RefsAt(kk, w, q) = Marker(kk, C, w, q) + Need(kk, E, w, q)
      BY <1>a DEF Counted
    <2>2. Need(k2, E, w, q) = Need(kk, E, w, q) /\ Need(kk, E, w, q) \in {0, 1}
      BY <1>6 DEF Need
    <2>3. q \in Int
      BY DEF Periods
    <2>4. CASE w = v /\ q = p - 1
      <3>1. Marker(kk, C, w, q) = 1 /\ Marker(k2, C, w, q) = 0
        BY <1>2, <1>7, <2>4 DEF Marker, p
      <3> QED
        BY <1>5, <2>1, <2>2, <2>4, <3>1
    <2>5. CASE w = v /\ q = p
      <3>1. Marker(k2, C, w, q) = 1 /\ Need(kk, E, w, q) = 0
        BY <1>2, <1>3, <1>7, <2>5 DEF Marker, Need
      <3> QED
        BY <1>5, <2>2, <2>5, <3>1
    <2>6. CASE ~(w = v /\ q \in {p - 1, p})
      <3>1. Marker(k2, C, w, q) = Marker(kk, C, w, q)
        BY <1>2, <1>7, <2>3, <2>6 DEF Marker, p
      <3>2. RefsAt(k2, w, q) = RefsAt(kk, w, q)
        BY <1>5, <2>6
      <3> QED
        BY <2>1, <2>2, <3>1, <3>2
    <2> QED
      BY <2>4, <2>5, <2>6
  <1>10. Totalled(k2, C, E)
    BY <1>5, <1>a DEF Totalled, Slashes
  <1>11. Balanced(k2, V)
    <2>1. ToDec(0) = 0 /\ kk.balance \in Int /\ kk.outstanding[v] \in Int /\ kk.pool \in Int
      BY <1>1, DistributionAssumption DEF ToDec, Stores
    <2>2. V \subseteq Validators
      BY DEF Books
    <2>3. /\ k2.outstanding[v] + k2.pool = kk.outstanding[v] + kk.pool + ToDec(0)
          /\ k2.balance = kk.balance + 0
      BY <1>5, <2>1
    <2> QED
      BY <1>1, <1>5, <1>a, <2>2, <2>3, BalanceKept
  <1>12. Fresh(k2, E, v)
    <2>1. p \notin Needed(kk, E, v)
      BY <1>2, <1>3
    <2> QED
      BY <1>1, <1>2, <1>6, <1>7, <2>1 DEF Fresh
  <1>13. Books(k2, V, C, E)
    BY <1>5, <1>8, <1>9, <1>10, <1>11 DEF Books
  <1> QED
    BY <1>5, <1>12, <1>13 DEF k2, p

\* A delegation of known shares to a validator of known tokens.
Known(s, d, v) ==
    /\ s.shares \in [Delegators \X Validators -> Nat]
    /\ d \in Delegators /\ s.shares[<<d, v>>] > 0 /\ s.tokens[v] \in Nat

\* A delegation without a starting info gets one, in the period that has just
\* ended.
LEMMA DelegationStarted ==
    ASSUME NEW kk, NEW V, NEW C, NEW E, Books(kk, V, C, E),
           NEW s, NEW d, NEW v \in C, Known(s, d, v),
           <<d, v>> \notin E, Fresh(kk, E, v), NEW h \in Nat
    PROVE  LET k2 == initializeDelegation(kk, s, d, v, h)
           IN  /\ Books(k2, V, C, E \cup {<<d, v>>})
               /\ k2.period = kk.period /\ k2.slashes = kk.slashes
               /\ k2.panicked = kk.panicked
  <1> DEFINE p == kk.period[v] - 1
             e == <<d, v>>
             E2 == E \cup {e}
             k1 == incrementReferenceCount(kk, v, p)
             info == [period |-> p, height |-> h, stake |-> TokensFromSharesTruncated(s, d, v)]
             k2 == initializeDelegation(kk, s, d, v, h)
  <1> USE DEF Known
  <1>1. /\ kk \in Stores /\ C \in SUBSET Validators /\ v \in Validators
        /\ C \subseteq V /\ V \subseteq Validators
        /\ Apart(kk, C, E) /\ Counted(kk, C, E) /\ Totalled(kk, C, E) /\ Balanced(kk, V)
    BY DEF Books
  <1>2. p \in Periods /\ p < kk.period[v] /\ kk.period[v] \in Nat
    BY <1>1, DistributionAssumption DEF Apart, Periods
  <1>3. info \in StartingInfos
    <2>1. DelegatorShares(s, v) \in Nat /\ s.shares[e] <= DelegatorShares(s, v) /\ s.shares[e] \in Nat
      BY <1>1, SharesBound
    <2> DEFINE total == DelegatorShares(s, v)
               x == s.shares[e] * s.tokens[v]
    <2>2. x \in Int /\ total \in Int /\ total > 0
      BY <2>1
    <2>3. TokensFromSharesTruncated(s, d, v) = QuoTruncate(x, total)
      BY DEF TokensFromSharesTruncated
    <2> HIDE DEF total, x
    <2>4. QuoTruncate(x, total) \in Int
      BY <2>2, DecimalInt
    <2> HIDE DEF p
    <2> QED
      BY <1>2, <2>3, <2>4 DEF StartingInfos
  <1>4. p \notin Needed(kk, E, v)
    BY DEF Fresh
  <1>5. RefsAt(kk, v, p) = 1
    <2>1. RefsAt(kk, v, p) = Marker(kk, C, v, p) + Need(kk, E, v, p)
      BY <1>1, <1>2 DEF Counted
    <2> QED
      BY <1>2, <1>4, <2>1 DEF Marker, Need
  <1>6. /\ k1 \in Stores
        /\ Accounts(k1) = Accounts(kk)
        /\ Refers(kk, k1, v, p, 1)
        /\ Refs(k1) = Refs(kk) + 1
        /\ k1.panicked = (kk.panicked \/ RefsAt(kk, v, p) > 2)
    <2> HIDE DEF p
    <2> QED
      BY <1>1, <1>2, ReferenceAdded
  <1>7. k2 = [k1 EXCEPT !.starting[e] = info]
    BY DEF initializeDelegation
  <1> HIDE DEF info, k1, k2, p
  <1>8. /\ k1.rewards = kk.rewards /\ k1.period = kk.period /\ k1.commission = kk.commission
        /\ k1.outstanding = kk.outstanding /\ k1.slashes = kk.slashes
        /\ k1.starting = kk.starting /\ k1.pool = kk.pool /\ k1.balance = kk.balance
    BY <1>6 DEF Accounts
  <1>9. e \in Delegators \X Validators
    BY <1>1
  <1>10. /\ k2 \in Stores
         /\ k2.starting = [kk.starting EXCEPT ![e] = info]
         /\ k2.historical = k1.historical
         /\ k2.rewards = kk.rewards /\ k2.period = kk.period /\ k2.commission = kk.commission
         /\ k2.outstanding = kk.outstanding /\ k2.slashes = kk.slashes
         /\ k2.pool = kk.pool /\ k2.balance = kk.balance
         /\ k2.panicked = k1.panicked
    BY <1>3, <1>6, <1>7, <1>8, <1>9 DEF Stores
  <1>11. k2.starting[e] = info /\ \A f \in E : k2.starting[f] = kk.starting[f]
    <2>1. \A f \in E : f \in Delegators \X Validators /\ f # e
      BY <1>1 DEF Apart
    <2>2. DOMAIN kk.starting = Delegators \X Validators
      BY <1>1 DEF Stores
    <2> QED
      BY <1>9, <1>10, <2>1, <2>2
  <1>12. info.period = p
    BY DEF info
  <1>13. \A w \in Validators :
            Needed(k2, E2, w) = IF w = v THEN Needed(kk, E, w) \cup {p} ELSE Needed(kk, E, w)
    <2> SUFFICES ASSUME NEW w \in Validators
                 PROVE  Needed(k2, E2, w) = IF w = v THEN Needed(kk, E, w) \cup {p} ELSE Needed(kk, E, w)
      OBVIOUS
    <2>1. {k2.starting[f].period : f \in {g \in E : g[2] = w}}
            = {kk.starting[f].period : f \in {g \in E : g[2] = w}}
      BY <1>11
    <2>2. CASE w = v
      <3>1. {g \in E2 : g[2] = w} = {g \in E : g[2] = w} \cup {e}
        BY <2>2
      <3>2. {k2.starting[f].period : f \in {g \in E2 : g[2] = w}}
              = {k2.starting[f].period : f \in {g \in E : g[2] = w}} \cup {p}
        BY <1>11, <1>12, <3>1
      <3> QED
        BY <1>10, <2>1, <2>2, <3>2 DEF Needed
    <2>3. CASE w # v
      <3>1. {g \in E2 : g[2] = w} = {g \in E : g[2] = w}
        BY <2>3
      <3> QED
        BY <1>10, <2>1, <2>3, <3>1 DEF Needed
    <2> QED
      BY <2>2, <2>3
  <1>14. Apart(k2, C, E2)
    <2>1. /\ \A f \in E : f[2] = v => kk.starting[f].period # p
          /\ \A t \in kk.slashes[v] : t.period # p
      BY <1>4 DEF Needed
    <2>2. e[2] = v /\ e \in Delegators \X C
      OBVIOUS
    <2> HIDE DEF e
    <2>3. \A f, g \in E2 : f # g /\ f[2] = g[2] => k2.starting[f].period # k2.starting[g].period
      BY <1>1, <1>11, <1>12, <2>1, <2>2 DEF Apart
    <2>4. \A f \in E2 : \A t \in kk.slashes[f[2]] : t.period # k2.starting[f].period
      BY <1>1, <1>11, <1>12, <2>1, <2>2 DEF Apart
    <2>5. \A f \in E2 : k2.starting[f] \in StartingInfos /\ k2.starting[f].period < kk.period[f[2]]
      BY <1>1, <1>2, <1>3, <1>11, <1>12, <2>2 DEF Apart
    <2>6. E2 \subseteq Delegators \X C
      BY <1>1, <2>2 DEF Apart
    <2> QED
      BY <1>1, <1>10, <2>3, <2>4, <2>5, <2>6 DEF Apart
  <1>15. Counted(k2, C, E2)
    <2> SUFFICES ASSUME NEW w \in Validators, NEW q \in Periods
                 PROVE  RefsAt(k2, w, q) = Marker(k2, C, w, q) + Need(k2, E2, w, q)
      BY DEF Counted
    <2>1. RefsAt(kk, w, q) = Marker(kk, C, w, q) + Need(kk, E, w, q)
      BY <1>1 DEF Counted
    <2>2. RefsAt(k2, w, q) = RefsAt(k1, w, q)
      BY <1>10 DEF RefsAt
    <2>3. Marker(k2, C, w, q) = Marker(kk, C, w, q) /\ Marker(kk, C, w, q) \in {0, 1}
      BY <1>10 DEF Marker
    <2>4. CASE w = v /\ q = p
      <3>1. Need(kk, E, w, q) = 0 /\ Need(k2, E2, w, q) = 1
        BY <1>4, <1>13, <2>4 DEF Need
      <3>2. RefsAt(k1, w, q) = RefsAt(kk, w, q) + 1
        BY <1>6, <2>4 DEF Refers
      <3> QED
        BY <2>1, <2>2, <2>3, <3>1, <3>2
    <2>5. CASE ~(w = v /\ q = p)
      <3>1. Need(k2, E2, w, q) = Need(kk, E, w, q)
        BY <1>13, <2>5 DEF Need
      <3>2. RefsAt(k1, w, q) = RefsAt(kk, w, q)
        BY <1>6, <2>5 DEF Refers
      <3> QED
        BY <2>1, <2>2, <2>3, <3>1, <3>2
    <2> QED
      BY <2>4, <2>5
  <1>16. Totalled(k2, C, E2)
    <2>1. IsFiniteSet(E)
      <3>1. IsFiniteSet(Delegators \X Validators) /\ E \subseteq Delegators \X Validators
        BY <1>1, ExportAssumption, FS_Product DEF Apart
      <3> QED
        BY <3>1, FS_Subset
    <2>2. Cardinality(E2) = Cardinality(E) + 1 /\ Cardinality(E) \in Nat
      BY <2>1, FS_AddElement, FS_CardinalityType
    <2>3. Refs(k2) = Refs(k1) /\ Slashes(k2) = Slashes(kk)
      BY <1>10 DEF Refs, References, Slashes
    <2>4. Refs(kk) = Cardinality(C) + Cardinality(E) + Slashes(kk)
      BY <1>1 DEF Totalled
    <2>5. Slashes(kk) \in Int /\ Cardinality(C) \in Nat
      <3>1. \A w \in Validators : IsFiniteSet(kk.slashes[w])
        BY <1>1 DEF Apart
      <3>2. Slashes(kk) \in Int
        BY <1>1, <3>1, SlashesSummed
      <3>3. IsFiniteSet(C)
        BY <1>1, ExportAssumption, FS_Subset
      <3> QED
        BY <3>2, <3>3, FS_CardinalityType
    <2> QED
      BY <1>6, <2>2, <2>3, <2>4, <2>5 DEF Totalled
  <1>17. Balanced(k2, V)
    BY <1>1, <1>10 DEF Balanced
  <1>18. Books(k2, V, C, E2)
    BY <1>1, <1>10, <1>14, <1>15, <1>16, <1>17 DEF Books
  <1>19. k2.panicked = kk.panicked
    <2>1. kk.panicked \in BOOLEAN
      BY <1>1 DEF Stores
    <2> QED
      BY <1>5, <1>6, <1>10, <2>1
  <1> QED
    BY <1>10, <1>18, <1>19 DEF k2, E2, e
-----------------------------------------------------------------------------
(* The calculation of rewards.                                             *)

\* c is the store and the validator.
SlashStep(c, e, a) ==
    [rewards |-> a.rewards + BetweenPeriods(c.k, c.v, a.from, e.period, a.stake),
     stake |-> MulTruncate(a.stake, Prec - e.fraction),
     from |-> e.period]
Reckoned(c, T, a) == a.rewards \in Int /\ a.stake \in Int /\ a.from \in Periods

Reckoning == INSTANCE FoldTheorems WITH Step <- SlashStep, Pick <- Latest, P <- Reckoned

\* Of finitely many slashes one is the latest.
LEMMA LatestPicked ==
    ASSUME NEW S, S \subseteq SlashEvents, IsFiniteSet(S)
    PROVE  Reckoning!Picks(S)
  <1> DEFINE F == {T \in SUBSET S : T # {} => \E e \in T : \A f \in T : f.period <= e.period}
  <1>1. ASSUME NEW T \in SUBSET S, \A x \in T : T \ {x} \in F
        PROVE  T \in F
    <2> SUFFICES ASSUME T # {}
                 PROVE  \E e \in T : \A f \in T : f.period <= e.period
      OBVIOUS
    <2>1. \A f \in T : f.period \in Int
      BY DEF SlashEvents, Periods
    <2>2. PICK x \in T : TRUE
      OBVIOUS
    <2>3. CASE T \ {x} = {}
      BY <2>1, <2>2, <2>3
    <2>4. CASE T \ {x} # {}
      <3>1. PICK y \in T \ {x} : \A f \in T \ {x} : f.period <= y.period
        BY <1>1, <2>2, <2>4
      <3>2. CASE x.period <= y.period
        <4>1. \A f \in T : f.period <= y.period
          BY <3>1, <3>2
        <4> QED
          BY <3>1, <4>1
      <3>3. CASE ~(x.period <= y.period)
        <4>1. \A f \in T : f.period <= x.period
          BY <2>1, <2>2, <3>1, <3>3
        <4> QED
          BY <2>2, <4>1
      <3> QED
        BY <3>2, <3>3
    <2> QED
      BY <2>3, <2>4
  <1>2. F \in SUBSET (SUBSET S)
    OBVIOUS
  <1> HIDE DEF F
  <1>3. ASSUME NEW T \in SUBSET S, T # {}
        PROVE  Latest(T) \in T
    <2>1. IsFiniteSet(T)
      BY FS_Subset
    <2>2. \A U \in SUBSET T : (\A x \in U : U \ {x} \in F) => U \in F
      BY <1>1
    <2>3. T \in F \cap SUBSET T
      <3> DEFINE G == F \cap SUBSET T
      <3>1. G \in SUBSET (SUBSET T) /\ \A U \in SUBSET T : (\A x \in U : U \ {x} \in G) => U \in G
        BY <2>2
      <3> HIDE DEF G
      <3>2. T \in G
        BY <2>1, <3>1, Sums!FiniteInduction DEF IsFiniteSet, Sums!IsFiniteSet
      <3> QED
        BY <3>2 DEF G
    <2>4. \E e \in T : \A f \in T : f.period <= e.period
      BY <1>3, <2>3 DEF F
    <2> QED
      BY <2>4 DEF Latest
  <1> QED
    BY <1>3 DEF Reckoning!Picks

\* Between two periods that are on record.
LEMMA BetweenInt ==
    ASSUME NEW kk \in Stores, NEW v \in Validators, NEW p \in Periods, NEW q \in Periods, NEW x \in Int
    PROVE  BetweenPeriods(kk, v, p, q, x) \in Int
  <1>1. kk.historical[v][p].ratio \in Int /\ kk.historical[v][q].ratio \in Int
    BY DEF Stores, Records
  <1> DEFINE y == kk.historical[v][q].ratio - kk.historical[v][p].ratio
  <1>2. y \in Int
    BY <1>1
  <1> HIDE DEF y
  <1> QED
    BY <1>2, DecimalInt DEF BetweenPeriods, y

\* The rewards up to the last slash.
LEMMA SlashedReckoned ==
    ASSUME NEW kk \in Stores, NEW d \in Delegators, NEW v \in Validators, NEW h,
           IsFiniteSet(kk.slashes[v]), kk.starting[<<d, v>>] \in StartingInfos
    PROVE  Reckoned(<<>>, {}, SlashedRewards(kk, d, v, h))
  <1> DEFINE S == SlashEventsSince(kk, d, v, h)
             info == kk.starting[<<d, v>>]
             base == [rewards |-> 0, stake |-> info.stake, from |-> info.period]
             c == [k |-> kk, v |-> v]
  <1>1. S \subseteq SlashEvents /\ IsFiniteSet(S)
    <2>1. S \subseteq kk.slashes[v] /\ kk.slashes[v] \subseteq SlashEvents
      BY DEF SlashEventsSince, Stores
    <2> QED
      BY <2>1, FS_Subset
  <1>2. SlashedRewards(kk, d, v, h) = Reckoning!Fold(c, base, S)
    BY DEF SlashedRewards, MapThenFoldSet, Reckoning!Fold, SlashStep
  <1>3. Reckoned(c, {}, base)
    BY DEF Reckoned, StartingInfos
  <1>4. c.k = kk /\ c.v = v
    OBVIOUS
  <1> HIDE DEF S, base, c
  <1>5. ASSUME NEW T \in SUBSET S, NEW x \in T, NEW a, Reckoned(c, T \ {x}, a)
        PROVE  Reckoned(c, T, SlashStep(c, x, a))
    <2>1. x.period \in Periods /\ x.fraction \in Int
      BY <1>1 DEF SlashEvents
    <2>2. a.rewards \in Int /\ a.stake \in Int /\ a.from \in Periods
      BY <1>5 DEF Reckoned
    <2>3. BetweenPeriods(kk, v, a.from, x.period, a.stake) \in Int
      BY <2>1, <2>2, BetweenInt
    <2>4. MulTruncate(a.stake, Prec - x.fraction) \in Int
      <3>1. Prec - x.fraction \in Int
        BY <2>1, DistributionAssumption
      <3> QED
        BY <2>2, <3>1, DecimalInt
    <2> QED
      BY <1>4, <2>1, <2>2, <2>3, <2>4 DEF Reckoned, SlashStep
  <1>6. Reckoning!Inductive(c, base, S)
    BY <1>1, <1>3, <1>5, LatestPicked DEF Reckoning!Inductive
  <1>7. Reckoned(c, S, Reckoning!Fold(c, base, S))
    BY <1>1, <1>6, Reckoning!FoldInduction DEF IsFiniteSet, Reckoning!IsFiniteSet
  <1> QED
    BY <1>2, <1>7 DEF Reckoned

\* The lesser of two integers.
LEMMA LesserInt ==
    ASSUME NEW x \in Int, NEW y \in Int
    PROVE  Min({x, y}) \in Int
  BY DEF Min

\* All rewards of a delegation are an amount.
LEMMA RewardsReckoned ==
    ASSUME NEW kk \in Stores, NEW s, s.shares \in [Delegators \X Validators -> Nat],
           NEW d \in Delegators, NEW v \in Validators, s.tokens[v] \in Nat, s.shares[<<d, v>>] > 0,
           NEW h, NEW ending \in Periods,
           IsFiniteSet(kk.slashes[v]), kk.starting[<<d, v>>] \in StartingInfos
    PROVE  /\ CalculateDelegationRewards(kk, s, d, v, h, ending).rewards \in Int
           /\ CalculateDelegationRewards(kk, s, d, v, h, ending).panicked \in BOOLEAN
  <1> DEFINE slashed == SlashedRewards(kk, d, v, h)
             present == TokensFromShares(s, d, v)
             stake == Min({slashed.stake, present})
             total == DelegatorShares(s, v)
             x == s.shares[<<d, v>>] * s.tokens[v]
  <1>1. slashed.rewards \in Int /\ slashed.stake \in Int /\ slashed.from \in Periods
    BY SlashedReckoned DEF Reckoned
  <1>2. present \in Int
    <2>0. total \in Nat /\ s.shares[<<d, v>>] <= total /\ s.shares[<<d, v>>] \in Nat
      BY SharesBound
    <2>1. x \in Int /\ total \in Int /\ total > 0
      BY <2>0
    <2>2. present = Quo(x, total)
      BY DEF TokensFromShares
    <2> HIDE DEF x, total, present
    <2>3. Quo(x, total) \in Int
      BY <2>1, DecimalInt
    <2> QED
      BY <2>2, <2>3
  <1> HIDE DEF slashed, present
  <1>3. stake \in Int
    BY <1>1, <1>2, LesserInt
  <1>4. CalculateDelegationRewards(kk, s, d, v, h, ending) =
            IF kk.starting[<<d, v>>].height = h THEN [rewards |-> 0, panicked |-> FALSE]
            ELSE [rewards  |-> slashed.rewards + BetweenPeriods(kk, v, slashed.from, ending, stake),
                  panicked |-> \/ slashed.stake > present + 3
                               \/ kk.historical[v][ending].ratio < kk.historical[v][slashed.from].ratio]
    BY DEF CalculateDelegationRewards, slashed, present
  <1> HIDE DEF stake
  <1>5. BetweenPeriods(kk, v, slashed.from, ending, stake) \in Int
    BY <1>1, <1>3, BetweenInt
  <1> QED
    BY <1>1, <1>4, <1>5
-----------------------------------------------------------------------------
(* The steps that pay.                                                     *)

\* What only moves coins keeps the books if it keeps the balance.
LEMMA CoinsMoved ==
    ASSUME NEW kk, NEW V, NEW C, NEW E, Books(kk, V, C, E), NEW k2 \in Stores,
           k2.historical = kk.historical, k2.period = kk.period,
           k2.slashes = kk.slashes, k2.starting = kk.starting, Balanced(k2, V)
    PROVE  Books(k2, V, C, E)
  <1>1. Apart(k2, C, E)
    BY DEF Books, Apart
  <1>2. Counted(k2, C, E)
    BY DEF Books, Counted, RefsAt, Marker, Need, Needed
  <1>3. Totalled(k2, C, E)
    BY DEF Books, Totalled, Refs, References, Slashes
  <1> QED
    BY <1>1, <1>2, <1>3 DEF Books

DropInfo(kk, d, v) ==
    [decrementReferenceCount(kk, v, kk.starting[<<d, v>>].period) EXCEPT !.starting[<<d, v>>] = NoInfo]

\* A delegation gives up its starting info and its period.
LEMMA InfoDropped ==
    ASSUME NEW kk, NEW V, NEW C, NEW E, Books(kk, V, C, E),
           NEW d \in Delegators, NEW v \in C, <<d, v>> \in E
    PROVE  LET k2 == DropInfo(kk, d, v)
           IN  /\ Books(k2, V, C, E \ {<<d, v>>})
               /\ k2.period = kk.period /\ k2.slashes = kk.slashes
               /\ k2.panicked = kk.panicked
  <1> DEFINE e == <<d, v>>
             p == kk.starting[e].period
             E2 == E \ {e}
             k1 == decrementReferenceCount(kk, v, p)
             k2 == [k1 EXCEPT !.starting[e] = NoInfo]
  <1>1. /\ kk \in Stores /\ C \in SUBSET Validators /\ v \in Validators
        /\ C \subseteq V /\ V \subseteq Validators
        /\ Apart(kk, C, E) /\ Counted(kk, C, E) /\ Totalled(kk, C, E) /\ Balanced(kk, V)
    BY DEF Books
  <1>2. e \in E /\ e[2] = v /\ e \in Delegators \X Validators
    BY <1>1
  <1>3. p \in Periods /\ p < kk.period[v] /\ p \in Needed(kk, E, v)
    BY <1>1, <1>2 DEF Apart, StartingInfos, Needed
  <1> HIDE DEF e, p
  <1>4. RefsAt(kk, v, p) >= 1
    <2>1. RefsAt(kk, v, p) = Marker(kk, C, v, p) + Need(kk, E, v, p)
      BY <1>1, <1>3 DEF Counted
    <2> QED
      BY <1>3, <2>1 DEF Marker, Need
  <1>5. /\ k1 \in Stores
        /\ Accounts(k1) = Accounts(kk)
        /\ Refers(kk, k1, v, p, -1)
        /\ Refs(k1) = Refs(kk) - 1
        /\ k1.panicked = kk.panicked
    BY <1>1, <1>3, <1>4, ReferenceDropped
  <1> HIDE DEF k1
  <1>6. /\ k1.rewards = kk.rewards /\ k1.period = kk.period /\ k1.commission = kk.commission
        /\ k1.outstanding = kk.outstanding /\ k1.slashes = kk.slashes
        /\ k1.starting = kk.starting /\ k1.pool = kk.pool /\ k1.balance = kk.balance
    BY <1>5 DEF Accounts
  <1>7. /\ k2 \in Stores
        /\ k2.starting = [kk.starting EXCEPT ![e] = NoInfo]
        /\ k2.historical = k1.historical
        /\ k2.period = kk.period /\ k2.commission = kk.commission
        /\ k2.outstanding = kk.outstanding /\ k2.slashes = kk.slashes
        /\ k2.pool = kk.pool /\ k2.balance = kk.balance
        /\ k2.panicked = kk.panicked
    BY <1>2, <1>5, <1>6 DEF Stores
  <1> HIDE DEF k2
  <1>8. \A f \in E2 : f \in E /\ f # e /\ k2.starting[f] = kk.starting[f]
    <2>1. \A f \in E : f \in Delegators \X Validators
      BY <1>1 DEF Apart
    <2>2. DOMAIN kk.starting = Delegators \X Validators
      BY <1>1 DEF Stores
    <2> QED
      BY <1>7, <2>1, <2>2
  <1>9. \A w \in Validators :
            Needed(k2, E2, w) = IF w = v THEN Needed(kk, E, w) \ {p} ELSE Needed(kk, E, w)
    <2> SUFFICES ASSUME NEW w \in Validators
                 PROVE  Needed(k2, E2, w) = IF w = v THEN Needed(kk, E, w) \ {p} ELSE Needed(kk, E, w)
      OBVIOUS
    <2>1. {k2.starting[f].period : f \in {g \in E2 : g[2] = w}}
            = {kk.starting[f].period : f \in {g \in E2 : g[2] = w}}
      BY <1>8
    <2>2. CASE w = v
      <3>1. {g \in E : g[2] = w} = {g \in E2 : g[2] = w} \cup {e}
        BY <1>2, <2>2
      <3>2. \A g \in E2 : g[2] = w => kk.starting[g].period # p
        BY <1>1, <1>2, <1>8, <2>2 DEF Apart, p
      <3>3. \A t \in kk.slashes[w] : t.period # p
        BY <1>1, <1>2, <2>2 DEF Apart, p
      <3>4. {kk.starting[f].period : f \in {g \in E : g[2] = w}}
              = {kk.starting[f].period : f \in {g \in E2 : g[2] = w}} \cup {p}
        BY <3>1 DEF p
      <3>5. Needed(k2, E2, w) = {kk.starting[f].period : f \in {g \in E2 : g[2] = w}}
                                  \cup {t.period : t \in kk.slashes[w]}
        BY <1>7, <2>1 DEF Needed
      <3>6. Needed(kk, E, w) = Needed(k2, E2, w) \cup {p}
        BY <3>4, <3>5 DEF Needed
      <3>7. p \notin Needed(k2, E2, w)
        BY <3>2, <3>3, <3>5
      <3> QED
        BY <2>2, <3>6, <3>7
    <2>3. CASE w # v
      <3>1. {g \in E2 : g[2] = w} = {g \in E : g[2] = w}
        BY <1>2, <2>3
      <3> QED
        BY <1>7, <2>1, <2>3, <3>1 DEF Needed
    <2> QED
      BY <2>2, <2>3
  <1>10. Apart(k2, C, E2)
    <2> HIDE DEF E2
    <2>1. E2 \subseteq E
      BY <1>8
    <2>2. \A f, g \in E2 : f # g /\ f[2] = g[2] => k2.starting[f].period # k2.starting[g].period
      BY <1>1, <1>8 DEF Apart
    <2>3. \A f \in E2 : \A t \in kk.slashes[f[2]] : t.period # k2.starting[f].period
      BY <1>1, <1>8 DEF Apart
    <2>4. \A f \in E2 : k2.starting[f] \in StartingInfos /\ k2.starting[f].period < kk.period[f[2]]
      BY <1>1, <1>8 DEF Apart
    <2> QED
      BY <1>1, <1>7, <2>1, <2>2, <2>3, <2>4 DEF Apart
  <1>11. Counted(k2, C, E2)
    <2> SUFFICES ASSUME NEW w \in Validators, NEW q \in Periods
                 PROVE  RefsAt(k2, w, q) = Marker(k2, C, w, q) + Need(k2, E2, w, q)
      BY DEF Counted
    <2>1. RefsAt(kk, w, q) = Marker(kk, C, w, q) + Need(kk, E, w, q)
      BY <1>1 DEF Counted
    <2>2. RefsAt(k2, w, q) = RefsAt(k1, w, q)
      BY <1>7 DEF RefsAt
    <2>3. Marker(k2, C, w, q) = Marker(kk, C, w, q) /\ Marker(kk, C, w, q) \in {0, 1}
      BY <1>7 DEF Marker
    <2>4. CASE w = v /\ q = p
      <3>1. Need(kk, E, w, q) = 1 /\ Need(k2, E2, w, q) = 0
        BY <1>3, <1>9, <2>4 DEF Need
      <3>2. RefsAt(k1, w, q) = RefsAt(kk, w, q) + (-1)
        BY <1>5, <2>4 DEF Refers
      <3> QED
        BY <2>1, <2>2, <2>3, <3>1, <3>2
    <2>5. CASE ~(w = v /\ q = p)
      <3>1. Need(k2, E2, w, q) = Need(kk, E, w, q)
        BY <1>9, <2>5 DEF Need
      <3>2. RefsAt(k1, w, q) = RefsAt(kk, w, q)
        BY <1>5, <2>5 DEF Refers
      <3> QED
        BY <2>1, <2>2, <2>3, <3>1, <3>2
    <2> QED
      BY <2>4, <2>5
  <1>12. Totalled(k2, C, E2)
    <2>1. IsFiniteSet(E)
      <3>1. IsFiniteSet(Delegators \X Validators) /\ E \subseteq Delegators \X Validators
        BY <1>1, ExportAssumption, FS_Product DEF Apart
      <3> QED
        BY <3>1, FS_Subset
    <2>2. Cardinality(E2) = Cardinality(E) - 1 /\ Cardinality(E) \in Nat
      BY <1>2, <2>1, FS_RemoveElement, FS_CardinalityType
    <2>3. Refs(k2) = Refs(k1) /\ Slashes(k2) = Slashes(kk)
      BY <1>7 DEF Refs, References, Slashes
    <2>4. Refs(kk) = Cardinality(C) + Cardinality(E) + Slashes(kk)
      BY <1>1 DEF Totalled
    <2>5. Slashes(kk) \in Int /\ Cardinality(C) \in Nat
      <3>1. \A w \in Validators : IsFiniteSet(kk.slashes[w])
        BY <1>1 DEF Apart
      <3>2. Slashes(kk) \in Int
        BY <1>1, <3>1, SlashesSummed
      <3>3. IsFiniteSet(C)
        BY <1>1, ExportAssumption, FS_Subset
      <3> QED
        BY <3>2, <3>3, FS_CardinalityType
    <2> QED
      BY <1>5, <2>2, <2>3, <2>4, <2>5 DEF Totalled
  <1>13. Balanced(k2, V)
    BY <1>1, <1>7 DEF Balanced
  <1>14. Books(k2, V, C, E2)
    BY <1>1, <1>7, <1>10, <1>11, <1>12, <1>13 DEF Books
  <1>15. DropInfo(kk, d, v) = k2
    BY DEF DropInfo, k2, k1, p, e
  <1> QED
    BY <1>7, <1>14, <1>15 DEF e

\* A delegation's period ends and its rewards are paid.
LEMMA DelegationEnded ==
    ASSUME NEW kk, NEW V, NEW C, NEW E, Books(kk, V, C, E),
           NEW s, NEW d, NEW v \in C, Known(s, d, v),
           <<d, v>> \in E, kk.period[v] <= MaxPeriod, NEW h
    PROVE  LET k2 == withdrawDelegationRewards(kk, s, d, v, h)
           IN  /\ Books(k2, V, C, E \ {<<d, v>>})
               /\ Fresh(k2, E \ {<<d, v>>}, v)
               /\ k2.period = [kk.period EXCEPT ![v] = kk.period[v] + 1]
               /\ k2.slashes = kk.slashes
  <1> DEFINE ending == kk.period[v]
             ended == IncrementValidatorPeriod(kk, s, v)
             calculated == CalculateDelegationRewards(ended, s, d, v, h, ending)
             rewards == Min({calculated.rewards, ended.outstanding[v]})
             coins == TruncateInt(rewards)
             withdrawn == [ended EXCEPT !.outstanding[v] = @ - rewards,
                                        !.pool = @ + rewards - ToDec(coins),
                                        !.balance = @ - coins,
                                        !.panicked = @ \/ calculated.panicked]
             k2 == withdrawDelegationRewards(kk, s, d, v, h)
  <1> USE DEF Known
  <1>1. /\ Books(ended, V, C, E) /\ Fresh(ended, E, v)
        /\ ended.period = [kk.period EXCEPT ![v] = kk.period[v] + 1]
        /\ ended.starting = kk.starting /\ ended.slashes = kk.slashes
    BY PeriodEndedBooks
  <1>2. k2 = [decrementReferenceCount(withdrawn, v, kk.starting[<<d, v>>].period) EXCEPT
                  !.starting[<<d, v>>] = NoInfo]
    BY DEF withdrawDelegationRewards
  <1> HIDE DEF ended, k2
  <1>3. /\ ended \in Stores /\ v \in Validators /\ v \in V /\ V \subseteq Validators
        /\ C \subseteq Validators
        /\ Apart(ended, C, E) /\ Balanced(ended, V) /\ Apart(kk, C, E)
    BY <1>1 DEF Books
  <1>4. ending \in Periods
    BY <1>3, DistributionAssumption DEF Apart, Periods
  <1> HIDE DEF ending
  <1>5. calculated.rewards \in Int /\ calculated.panicked \in BOOLEAN
    <2>1. IsFiniteSet(ended.slashes[v]) /\ ended.starting[<<d, v>>] \in StartingInfos
      BY <1>3 DEF Apart
    <2> QED
      BY <1>3, <1>4, <2>1, RewardsReckoned
  <1> HIDE DEF calculated
  <1>6. rewards \in Int /\ ended.outstanding[v] \in Int
    BY <1>3, <1>5, LesserInt DEF Stores
  <1> HIDE DEF rewards
  <1>7. coins \in Int /\ ToDec(coins) \in Int
    BY <1>6, DecimalInt
  <1> HIDE DEF coins
  <1>8. /\ withdrawn \in Stores
        /\ withdrawn.historical = ended.historical /\ withdrawn.period = ended.period
        /\ withdrawn.slashes = ended.slashes /\ withdrawn.starting = ended.starting
        /\ withdrawn.commission = ended.commission
        /\ withdrawn.outstanding[v] = ended.outstanding[v] - rewards
        /\ \A w \in Validators : w # v => withdrawn.outstanding[w] = ended.outstanding[w]
        /\ withdrawn.pool = ended.pool + rewards - ToDec(coins)
        /\ withdrawn.balance = ended.balance - coins
    <2> DEFINE o2 == [ended.outstanding EXCEPT ![v] = @ - rewards]
               m2 == ended.pool + rewards - ToDec(coins)
               b2 == ended.balance - coins
               a2 == ended.panicked \/ calculated.panicked
    <2>1. /\ o2 \in [Validators -> Int] /\ m2 \in Int /\ b2 \in Int /\ a2 \in BOOLEAN
          /\ o2[v] = ended.outstanding[v] - rewards
          /\ \A w \in Validators : w # v => o2[w] = ended.outstanding[w]
      BY <1>3, <1>5, <1>6, <1>7 DEF Stores
    <2>2. withdrawn = [ended EXCEPT !.outstanding = o2, !.pool = m2, !.balance = b2, !.panicked = a2]
      BY <1>3 DEF Stores
    <2> HIDE DEF o2, m2, b2, a2, withdrawn
    <2>3. /\ withdrawn \in Stores
          /\ withdrawn.historical = ended.historical /\ withdrawn.period = ended.period
          /\ withdrawn.slashes = ended.slashes /\ withdrawn.starting = ended.starting
          /\ withdrawn.commission = ended.commission
          /\ withdrawn.outstanding = o2 /\ withdrawn.pool = m2 /\ withdrawn.balance = b2
      BY <1>3, <2>1, <2>2 DEF Stores
    <2> QED
      BY <2>1, <2>3 DEF m2, b2
  <1> HIDE DEF withdrawn
  <1>9. Balanced(withdrawn, V)
    <2> DEFINE n == -coins
    <2>1. n \in Int /\ ToDec(n) = -ToDec(coins)
      BY <1>7, DistributionAssumption DEF ToDec
    <2>2. ended.pool \in Int /\ ended.balance \in Int
      BY <1>3 DEF Stores
    <2>3. /\ withdrawn.outstanding[v] + withdrawn.pool = ended.outstanding[v] + ended.pool + ToDec(n)
          /\ withdrawn.balance = ended.balance + n
      BY <1>6, <1>7, <1>8, <2>1, <2>2
    <2> HIDE DEF n
    <2> QED
      BY <1>3, <1>8, <2>1, <2>3, BalanceKept
  <1>10. Books(withdrawn, V, C, E)
    BY <1>1, <1>8, <1>9, CoinsMoved
  <1>11. /\ Books(k2, V, C, E \ {<<d, v>>})
         /\ k2.period = withdrawn.period /\ k2.slashes = withdrawn.slashes
    <2>1. kk.starting[<<d, v>>].period = withdrawn.starting[<<d, v>>].period
      BY <1>1, <1>8
    <2>2. k2 = DropInfo(withdrawn, d, v)
      BY <1>2, <2>1 DEF DropInfo
    <2> QED
      BY <1>10, <2>2, InfoDropped
  <1>12. Fresh(k2, E \ {<<d, v>>}, v)
    <2>1. \A f \in E \ {<<d, v>>} : k2.starting[f] = ended.starting[f]
      <3>1. \A f \in E : f \in Delegators \X Validators
        BY <1>3 DEF Apart
      <3>2. k2.starting = [withdrawn.starting EXCEPT ![<<d, v>>] = NoInfo]
        <4> DEFINE k1 == decrementReferenceCount(withdrawn, v, kk.starting[<<d, v>>].period)
        <4>1. k1.starting = withdrawn.starting /\ "starting" \in DOMAIN k1
          BY <1>8 DEF decrementReferenceCount, Stores
        <4> HIDE DEF k1
        <4> QED
          BY <1>2, <4>1 DEF k1
      <3>3. DOMAIN withdrawn.starting = Delegators \X Validators
        BY <1>8 DEF Stores
      <3> QED
        BY <1>8, <3>1, <3>2, <3>3
    <2>2. Needed(k2, E \ {<<d, v>>}, v) \subseteq Needed(ended, E, v)
      BY <1>8, <1>11, <2>1 DEF Needed
    <2> QED
      BY <1>1, <1>8, <1>11, <2>2 DEF Fresh
  <1> QED
    BY <1>1, <1>8, <1>11, <1>12 DEF k2

\* Rewards are paid and the delegation starts again.
LEMMA DelegationRestarted ==
    ASSUME NEW kk, NEW V, NEW C, NEW E, Books(kk, V, C, E),
           NEW s, NEW d, NEW v \in C, Known(s, d, v),
           <<d, v>> \in E, kk.period[v] <= MaxPeriod, NEW h \in Nat
    PROVE  LET k2 == WithdrawDelegationRewards(kk, s, d, v, h)
           IN  /\ Books(k2, V, C, E)
               /\ k2.period = [kk.period EXCEPT ![v] = kk.period[v] + 1]
               /\ k2.slashes = kk.slashes
  <1> DEFINE k1 == withdrawDelegationRewards(kk, s, d, v, h)
             k2 == initializeDelegation(k1, s, d, v, h)
             E1 == E \ {<<d, v>>}
  <1>1. /\ Books(k1, V, C, E1) /\ Fresh(k1, E1, v)
        /\ k1.period = [kk.period EXCEPT ![v] = kk.period[v] + 1]
        /\ k1.slashes = kk.slashes
    BY DelegationEnded
  <1>2. <<d, v>> \notin E1 /\ E1 \cup {<<d, v>>} = E
    OBVIOUS
  <1> HIDE DEF k1, E1
  <1>3. Books(k2, V, C, E1 \cup {<<d, v>>}) /\ k2.period = k1.period /\ k2.slashes = k1.slashes
    <2>1. <<d, v>> \notin E1
      BY <1>2
    <2> QED
      BY <1>1, <2>1, DelegationStarted DEF k2
  <1>4. WithdrawDelegationRewards(kk, s, d, v, h) = k2
    <2>1. kk.starting[<<d, v>>] \in StartingInfos
      BY DEF Books, Apart
    <2>2. kk.starting[<<d, v>>] # NoInfo
      BY <2>1, DistributionAssumption
    <2> QED
      BY <2>2 DEF WithdrawDelegationRewards, k1
  <1> QED
    BY <1>1, <1>2, <1>3, <1>4

\* A slash is recorded in the period that ends with it.
LEMMA SlashRecorded ==
    ASSUME NEW kk, NEW V, NEW C, NEW E, Books(kk, V, C, E), NEW s, NEW v \in C,
           s.tokens[v] \in Nat, kk.period[v] <= MaxPeriod, NEW h \in Nat, NEW fraction \in Int
    PROVE  LET k2 == updateValidatorSlashFraction(kk, s, v, h, fraction)
           IN  /\ Books(k2, V, C, E)
               /\ k2.period = [kk.period EXCEPT ![v] = kk.period[v] + 1]
               /\ k2.panicked = kk.panicked
  <1> DEFINE p == kk.period[v]
             ended == IncrementValidatorPeriod(kk, s, v)
             k1 == incrementReferenceCount(ended, v, p)
             t == [height |-> h, period |-> p, fraction |-> fraction]
             k2 == updateValidatorSlashFraction(kk, s, v, h, fraction)
  <1>1. /\ Books(ended, V, C, E) /\ Fresh(ended, E, v)
        /\ ended.period = [kk.period EXCEPT ![v] = kk.period[v] + 1]
        /\ ended.panicked = kk.panicked
    BY PeriodEndedBooks
  <1>2. k2 = [k1 EXCEPT !.slashes[v] = @ \cup {t}]
    BY DEF updateValidatorSlashFraction
  <1> HIDE DEF ended
  <1>3. /\ ended \in Stores /\ kk \in Stores /\ C \in SUBSET Validators /\ v \in Validators
        /\ C \subseteq V /\ V \subseteq Validators
        /\ Apart(ended, C, E) /\ Counted(ended, C, E) /\ Totalled(ended, C, E) /\ Balanced(ended, V)
        /\ Apart(kk, C, E)
    BY <1>1 DEF Books
  <1>4. /\ p \in Periods /\ p \in 1..MaxPeriod /\ ended.period[v] = p + 1 /\ ended.period[v] - 1 = p
    BY <1>1, <1>3, DistributionAssumption DEF Apart, Periods, Stores
  <1>5. p \notin Needed(ended, E, v)
    BY <1>1, <1>4 DEF Fresh
  <1>6. RefsAt(ended, v, p) = 1
    <2>1. RefsAt(ended, v, p) = Marker(ended, C, v, p) + Need(ended, E, v, p)
      BY <1>3, <1>4 DEF Counted
    <2> QED
      BY <1>4, <1>5, <2>1 DEF Marker, Need
  <1> HIDE DEF p
  <1>7. /\ k1 \in Stores
        /\ Accounts(k1) = Accounts(ended)
        /\ Refers(ended, k1, v, p, 1)
        /\ Refs(k1) = Refs(ended) + 1
        /\ k1.panicked = (ended.panicked \/ RefsAt(ended, v, p) > 2)
    BY <1>3, <1>4, ReferenceAdded
  <1> HIDE DEF k1, k2
  <1>8. /\ k1.rewards = ended.rewards /\ k1.period = ended.period /\ k1.commission = ended.commission
        /\ k1.outstanding = ended.outstanding /\ k1.slashes = ended.slashes
        /\ k1.starting = ended.starting /\ k1.pool = ended.pool /\ k1.balance = ended.balance
    BY <1>7 DEF Accounts
  <1>9. t \in SlashEvents /\ t.period = p
    BY <1>4 DEF SlashEvents
  <1> HIDE DEF t
  <1>10. /\ k2 \in Stores
         /\ k2.slashes = [ended.slashes EXCEPT ![v] = @ \cup {t}]
         /\ k2.historical = k1.historical
         /\ k2.period = ended.period /\ k2.outstanding = ended.outstanding
         /\ k2.commission = ended.commission
         /\ k2.starting = ended.starting /\ k2.pool = ended.pool /\ k2.balance = ended.balance
         /\ k2.panicked = k1.panicked
    <2> DEFINE x == [k1.slashes EXCEPT ![v] = @ \cup {t}]
    <2>1. x \in [Validators -> SUBSET SlashEvents]
      BY <1>3, <1>7, <1>9 DEF Stores
    <2>2. k2 = [k1 EXCEPT !.slashes = x]
      BY <1>2, <1>7 DEF Stores
    <2> HIDE DEF x
    <2>3. /\ k2 \in Stores /\ k2.slashes = x /\ k2.historical = k1.historical
          /\ k2.period = k1.period /\ k2.outstanding = k1.outstanding /\ k2.commission = k1.commission
          /\ k2.starting = k1.starting /\ k2.pool = k1.pool /\ k2.balance = k1.balance
          /\ k2.panicked = k1.panicked
      BY <1>7, <2>1, <2>2 DEF Stores
    <2> QED
      BY <1>8, <2>3 DEF x
  <1>11. /\ k2.slashes[v] = ended.slashes[v] \cup {t}
         /\ \A w \in Validators : w # v => k2.slashes[w] = ended.slashes[w]
    BY <1>3, <1>10 DEF Stores
  <1>12. \A w \in Validators :
            Needed(k2, E, w) = IF w = v THEN Needed(ended, E, w) \cup {p} ELSE Needed(ended, E, w)
    <2> SUFFICES ASSUME NEW w \in Validators
                 PROVE  Needed(k2, E, w) = IF w = v THEN Needed(ended, E, w) \cup {p} ELSE Needed(ended, E, w)
      OBVIOUS
    <2>1. CASE w = v
      <3>1. {u.period : u \in k2.slashes[w]} = {u.period : u \in ended.slashes[w]} \cup {p}
        BY <1>9, <1>11, <2>1
      <3>2. k2.starting = ended.starting
        BY <1>10
      <3>3. Needed(k2, E, w) = {ended.starting[f].period : f \in {g \in E : g[2] = w}}
                                 \cup {u.period : u \in k2.slashes[w]}
        BY <3>2 DEF Needed
      <3> QED
        BY <2>1, <3>1, <3>3 DEF Needed
    <2>2. CASE w # v
      BY <1>10, <1>11, <2>2 DEF Needed
    <2> QED
      BY <2>1, <2>2
  <1>13. /\ \A f \in E : f[2] = v => ended.starting[f].period # p
         /\ \A u \in ended.slashes[v] : u.period # p
    BY <1>5 DEF Needed
  <1>14. Apart(k2, C, E)
    <2>1. \A w \in Validators : IsFiniteSet(k2.slashes[w]) /\ (w \notin C => k2.slashes[w] = {})
      <3>1. IsFiniteSet(ended.slashes[v])
        BY <1>3 DEF Apart
      <3>2. IsFiniteSet(k2.slashes[v])
        BY <1>11, <3>1, FS_AddElement
      <3> QED
        BY <1>3, <1>11, <3>2 DEF Apart
    <2>2. \A w \in Validators : \A u \in k2.slashes[w] : u.period < k2.period[w]
      <3>1. \A w \in Validators : \A u \in ended.slashes[w] : u.period < ended.period[w]
        BY <1>3 DEF Apart
      <3>2. p < ended.period[v]
        BY <1>4
      <3> QED
        BY <1>9, <1>10, <1>11, <3>1, <3>2
    <2>3. \A e \in E : \A u \in k2.slashes[e[2]] : u.period # k2.starting[e].period
      <3>1. \A e \in E : \A u \in ended.slashes[e[2]] : u.period # ended.starting[e].period
        BY <1>3 DEF Apart
      <3>2. \A e \in E : e[2] \in Validators
        BY <1>3 DEF Apart
      <3> QED
        BY <1>9, <1>10, <1>11, <1>13, <3>1, <3>2
    <2>4. \A w \in Validators : \A u, x \in k2.slashes[w] : u # x => u.period # x.period
      <3>1. \A w \in Validators : \A u, x \in ended.slashes[w] : u # x => u.period # x.period
        BY <1>3 DEF Apart
      <3> QED
        BY <1>9, <1>11, <1>13, <3>1
    <2>5. /\ E \subseteq Delegators \X C
          /\ \A w \in C : k2.period[w] \in 1..(MaxPeriod + 1)
          /\ \A e \in E : k2.starting[e] \in StartingInfos /\ k2.starting[e].period < k2.period[e[2]]
          /\ \A e, f \in E : e # f /\ e[2] = f[2] => k2.starting[e].period # k2.starting[f].period
      BY <1>3, <1>10 DEF Apart
    <2> QED
      BY <2>1, <2>2, <2>3, <2>4, <2>5 DEF Apart
  <1>15. Counted(k2, C, E)
    <2> SUFFICES ASSUME NEW w \in Validators, NEW q \in Periods
                 PROVE  RefsAt(k2, w, q) = Marker(k2, C, w, q) + Need(k2, E, w, q)
      BY DEF Counted
    <2>1. RefsAt(ended, w, q) = Marker(ended, C, w, q) + Need(ended, E, w, q)
      BY <1>3 DEF Counted
    <2>2. RefsAt(k2, w, q) = RefsAt(k1, w, q)
      BY <1>10 DEF RefsAt
    <2>3. Marker(k2, C, w, q) = Marker(ended, C, w, q) /\ Marker(ended, C, w, q) \in {0, 1}
      BY <1>10 DEF Marker
    <2>4. CASE w = v /\ q = p
      <3>1. Need(ended, E, w, q) = 0 /\ Need(k2, E, w, q) = 1
        BY <1>5, <1>12, <2>4 DEF Need
      <3>2. RefsAt(k1, w, q) = RefsAt(ended, w, q) + 1
        BY <1>7, <2>4 DEF Refers
      <3> QED
        BY <2>1, <2>2, <2>3, <3>1, <3>2
    <2>5. CASE ~(w = v /\ q = p)
      <3>1. Need(k2, E, w, q) = Need(ended, E, w, q)
        BY <1>12, <2>5 DEF Need
      <3>2. RefsAt(k1, w, q) = RefsAt(ended, w, q)
        BY <1>7, <2>5 DEF Refers
      <3> QED
        BY <2>1, <2>2, <2>3, <3>1, <3>2
    <2> QED
      BY <2>4, <2>5
  <1>16. Totalled(k2, C, E)
    <2>1. t \notin ended.slashes[v]
      BY <1>9, <1>13
    <2>2. \A w \in Validators : IsFiniteSet(ended.slashes[w]) /\ IsFiniteSet(k2.slashes[w])
      BY <1>3, <1>14 DEF Apart
    <2>3. /\ Cardinality(k2.slashes[v]) = Cardinality(ended.slashes[v]) + 1
          /\ Cardinality(ended.slashes[v]) \in Nat
      BY <1>3, <1>11, <2>1, <2>2, FS_AddElement, FS_CardinalityType
    <2>4. /\ Slashes(ended) \in Int
          /\ Slashes(k2) = Slashes(ended) + Cardinality(k2.slashes[v]) - Cardinality(ended.slashes[v])
      BY <1>3, <1>11, <2>2, SlashesSummed
    <2>5. Refs(k2) = Refs(k1)
      BY <1>10 DEF Refs, References
    <2>6. Refs(ended) = Cardinality(C) + Cardinality(E) + Slashes(ended)
      BY <1>3 DEF Totalled
    <2>7. Cardinality(C) \in Nat /\ Cardinality(E) \in Nat
      <3>1. IsFiniteSet(Delegators \X Validators) /\ E \subseteq Delegators \X Validators
        BY <1>3, ExportAssumption, FS_Product DEF Apart
      <3>2. IsFiniteSet(E) /\ IsFiniteSet(C)
        BY <1>3, <3>1, ExportAssumption, FS_Subset
      <3> QED
        BY <3>2, FS_CardinalityType
    <2> QED
      BY <1>7, <2>3, <2>4, <2>5, <2>6, <2>7 DEF Totalled
  <1>17. Balanced(k2, V)
    BY <1>3, <1>10 DEF Balanced
  <1>18. Books(k2, V, C, E)
    BY <1>3, <1>10, <1>14, <1>15, <1>16, <1>17 DEF Books
  <1>19. k2.panicked = kk.panicked
    <2>1. kk.panicked \in BOOLEAN
      BY <1>3 DEF Stores
    <2> QED
      BY <1>1, <1>6, <1>7, <1>10, <2>1
  <1> QED
    BY <1>1, <1>10, <1>18, <1>19 DEF k2

\* Coins come in for a validator.
LEMMA CoinsAllocated ==
    ASSUME NEW kk, NEW V, NEW C, NEW E, Books(kk, V, C, E), NEW v \in V, NEW n \in Int
    PROVE  LET k2 == AllocateTokensToValidator(kk, v, n)
           IN  Books(k2, V, C, E) /\ k2.period = kk.period
  <1> DEFINE share == MulDec(ToDec(n), CommissionRate)
             k2 == AllocateTokensToValidator(kk, v, n)
  <1>1. kk \in Stores /\ v \in Validators /\ V \subseteq Validators /\ Balanced(kk, V)
    BY DEF Books
  <1>2. ToDec(n) \in Int
    BY DecimalInt
  <1>3. share \in Int
    BY <1>2, DecimalInt, DistributionAssumption
  <1>4. k2 = [kk EXCEPT !.commission[v] = @ + share, !.rewards[v] = @ + ToDec(n) - share,
                        !.outstanding[v] = @ + ToDec(n), !.balance = @ + n]
    BY DEF AllocateTokensToValidator
  <1> HIDE DEF share, k2
  <1> DEFINE c2 == [kk.commission EXCEPT ![v] = @ + share]
             r2 == [kk.rewards EXCEPT ![v] = @ + ToDec(n) - share]
             o2 == [kk.outstanding EXCEPT ![v] = @ + ToDec(n)]
             b2 == kk.balance + n
  <1>5. /\ c2 \in [Validators -> Int] /\ r2 \in [Validators -> Int] /\ o2 \in [Validators -> Int]
        /\ b2 \in Int
        /\ o2[v] = kk.outstanding[v] + ToDec(n)
        /\ \A w \in Validators :
               w # v => o2[w] = kk.outstanding[w] /\ c2[w] = kk.commission[w]
    BY <1>1, <1>2, <1>3 DEF Stores
  <1>6. k2 = [kk EXCEPT !.commission = c2, !.rewards = r2, !.outstanding = o2, !.balance = b2]
    BY <1>1, <1>4 DEF Stores
  <1> HIDE DEF c2, r2, o2
  <1>7. /\ k2 \in Stores
        /\ k2.historical = kk.historical /\ k2.period = kk.period
        /\ k2.slashes = kk.slashes /\ k2.starting = kk.starting
        /\ k2.commission = c2
        /\ k2.outstanding = o2 /\ k2.pool = kk.pool /\ k2.balance = b2
    BY <1>1, <1>5, <1>6 DEF Stores
  <1>8. kk.outstanding[v] \in Int /\ kk.pool \in Int
    BY <1>1 DEF Stores
  <1>9. k2.outstanding[v] + k2.pool = kk.outstanding[v] + kk.pool + ToDec(n)
    BY <1>2, <1>5, <1>7, <1>8
  <1>10. Balanced(k2, V)
    BY <1>1, <1>5, <1>7, <1>9, BalanceKept
  <1>11. Books(k2, V, C, E)
    BY <1>7, <1>10, CoinsMoved
  <1> QED
    BY <1>7, <1>11 DEF k2

\* A commission is paid out.
LEMMA CommissionPaid ==
    ASSUME NEW kk, NEW V, NEW C, NEW E, Books(kk, V, C, E), NEW v \in V
    PROVE  LET k2 == WithdrawValidatorCommission(kk, v)
           IN  Books(k2, V, C, E) /\ k2.period = kk.period
  <1> DEFINE coins == TruncateInt(kk.commission[v])
             n == -coins
             k2 == WithdrawValidatorCommission(kk, v)
  <1>1. kk \in Stores /\ v \in Validators /\ V \subseteq Validators /\ Balanced(kk, V)
    BY DEF Books
  <1>2. coins \in Int
    <2>1. kk.commission[v] \in Int
      BY <1>1 DEF Stores
    <2> QED
      BY <2>1, DecimalInt
  <1>3. k2 = [kk EXCEPT !.commission[v] = @ - ToDec(coins), !.outstanding[v] = @ - ToDec(coins),
                        !.balance = @ - coins]
    BY DEF WithdrawValidatorCommission
  <1> HIDE DEF coins, k2
  <1>4. n \in Int /\ ToDec(coins) \in Int /\ ToDec(n) = -ToDec(coins)
    BY <1>2, DistributionAssumption DEF ToDec
  <1> DEFINE c2 == [kk.commission EXCEPT ![v] = @ - ToDec(coins)]
             o2 == [kk.outstanding EXCEPT ![v] = @ - ToDec(coins)]
             b2 == kk.balance - coins
  <1>5. /\ c2 \in [Validators -> Int] /\ o2 \in [Validators -> Int] /\ b2 \in Int
        /\ o2[v] = kk.outstanding[v] - ToDec(coins)
        /\ \A w \in Validators :
               w # v => o2[w] = kk.outstanding[w] /\ c2[w] = kk.commission[w]
    BY <1>1, <1>2, <1>4 DEF Stores
  <1>6. k2 = [kk EXCEPT !.commission = c2, !.outstanding = o2, !.balance = b2]
    BY <1>1, <1>3 DEF Stores
  <1> HIDE DEF c2, o2
  <1>7. /\ k2 \in Stores
        /\ k2.historical = kk.historical /\ k2.period = kk.period
        /\ k2.slashes = kk.slashes /\ k2.starting = kk.starting
        /\ k2.commission = c2
        /\ k2.outstanding = o2 /\ k2.pool = kk.pool /\ k2.balance = b2
    BY <1>1, <1>5, <1>6 DEF Stores
  <1>8. kk.outstanding[v] \in Int /\ kk.pool \in Int /\ kk.balance \in Int
    BY <1>1 DEF Stores
  <1>9. /\ k2.outstanding[v] + k2.pool = kk.outstanding[v] + kk.pool + ToDec(n)
        /\ k2.balance = kk.balance + n
    BY <1>2, <1>4, <1>5, <1>7, <1>8
  <1> HIDE DEF n
  <1>10. Balanced(k2, V)
    BY <1>1, <1>4, <1>5, <1>7, <1>9, BalanceKept
  <1>11. Books(k2, V, C, E)
    BY <1>7, <1>10, CoinsMoved
  <1> QED
    BY <1>7, <1>11 DEF k2

\* Books in which nothing is set up.
LEMMA BlankBooks ==
    ASSUME NEW kk \in Stores, NEW V \in SUBSET Validators, Balanced(kk, V),
           \A v \in Validators : kk.slashes[v] = {},
           \A v \in Validators, p \in Periods : kk.historical[v][p].refs = 0
    PROVE  Books(kk, V, {}, {})
  <1>1. Apart(kk, {}, {})
    <2>1. IsFiniteSet({})
      BY FS_EmptySet
    <2> QED
      BY <2>1 DEF Apart
  <1>2. Counted(kk, {}, {})
    <2>1. \A v \in Validators : Needed(kk, {}, v) = {}
      BY DEF Needed
    <2> QED
      BY <2>1 DEF Counted, RefsAt, Marker, Need
  <1>3. IsFiniteSet(Validators) /\ IsFiniteSet(Periods)
    BY ExportAssumption, DistributionAssumption, FS_Interval DEF Periods
  <1>4. Refs(kk) = 0
    <2>1. \A v \in Validators : References(kk, v) = 0
      <3> SUFFICES ASSUME NEW v \in Validators PROVE References(kk, v) = 0
        OBVIOUS
      <3> DEFINE f == [p \in Periods |-> kk.historical[v][p].refs]
      <3>1. \A p \in Periods : f[p] = 0
        OBVIOUS
      <3>2. References(kk, v) = SumOver(f, Periods)
        BY DEF References
      <3> HIDE DEF f
      <3> QED
        BY <1>3, <3>1, <3>2, SumZero
    <2> DEFINE g == [v \in Validators |-> References(kk, v)]
    <2>2. \A v \in Validators : g[v] = 0
      BY <2>1
    <2>3. Refs(kk) = SumOver(g, Validators)
      BY DEF Refs
    <2> HIDE DEF g
    <2> QED
      BY <1>3, <2>2, <2>3, SumZero
  <1>5. Slashes(kk) = 0
    <2> DEFINE g == [v \in Validators |-> Cardinality(kk.slashes[v])]
    <2>1. \A v \in Validators : g[v] = 0
      BY FS_EmptySet
    <2>2. Slashes(kk) = SumOver(g, Validators)
      BY DEF Slashes
    <2> HIDE DEF g
    <2> QED
      BY <1>3, <2>1, <2>2, SumZero
  <1>6. Totalled(kk, {}, {})
    <2>1. Cardinality({}) = 0
      BY FS_EmptySet
    <2> QED
      BY <1>4, <1>5, <2>1 DEF Totalled
  <1> QED
    BY <1>1, <1>2, <1>6 DEF Books

\* The history is cleared: nothing is set up any more.
LEMMA HistoryCleared ==
    ASSUME NEW kk, NEW V, NEW C, NEW E, Books(kk, V, C, E)
    PROVE  LET k2 == ClearHistory(kk)
           IN  Books(k2, V, {}, {}) /\ k2.panicked = kk.panicked
  <1> DEFINE k2 == ClearHistory(kk)
             x2 == [v \in Validators |-> [p \in Periods |-> Absent]]
             t2 == [v \in Validators |-> {}]
  <1>1. kk \in Stores /\ V \in SUBSET Validators /\ Balanced(kk, V)
    BY DEF Books
  <1>2. k2 = [kk EXCEPT !.slashes = t2, !.historical = x2]
    BY DEF ClearHistory
  <1>3. /\ x2 \in [Validators -> [Periods -> Records]] /\ t2 \in [Validators -> SUBSET SlashEvents]
        /\ \A v \in Validators, p \in Periods : x2[v][p].refs = 0
        /\ \A v \in Validators : t2[v] = {}
    BY DEF Records, Absent
  <1> HIDE DEF k2, x2, t2
  <1>4. /\ k2 \in Stores
        /\ k2.slashes = t2 /\ k2.historical = x2
        /\ k2.commission = kk.commission
        /\ k2.outstanding = kk.outstanding /\ k2.pool = kk.pool /\ k2.balance = kk.balance
        /\ k2.panicked = kk.panicked
    BY <1>1, <1>2, <1>3 DEF Stores
  <1>5. Balanced(k2, V)
    BY <1>1, <1>4 DEF Balanced
  <1>6. Books(k2, V, {}, {})
    BY <1>1, <1>3, <1>4, <1>5, BlankBooks
  <1> QED
    BY <1>4, <1>6 DEF k2

\* A validator is set up, and what was still outstanding goes to the pool.
LEMMA ValidatorSetUp ==
    ASSUME NEW kk, NEW V, NEW C, NEW E, Books(kk, V, C, E), NEW v \in V, v \notin C, NEW c
    PROVE  LET k2 == ValidatorStep(c, v, kk)
           IN  /\ Books(k2, V, C \cup {v}, E)
               /\ k2.period = [kk.period EXCEPT ![v] = 1]
               /\ k2.panicked = kk.panicked
  <1> DEFINE k2 == ValidatorStep(c, v, kk)
             C2 == C \cup {v}
             x2 == [kk.historical EXCEPT ![v][0] = [ratio |-> 0, refs |-> 1]]
             r2 == [kk.rewards EXCEPT ![v] = 0]
             p2 == [kk.period EXCEPT ![v] = 1]
             c2 == [kk.commission EXCEPT ![v] = 0]
             o2 == [kk.outstanding EXCEPT ![v] = 0]
             m2 == kk.pool + kk.outstanding[v]
  <1>1. /\ kk \in Stores /\ v \in Validators /\ C \subseteq V /\ V \subseteq Validators
        /\ C \in SUBSET Validators
        /\ Apart(kk, C, E) /\ Counted(kk, C, E) /\ Totalled(kk, C, E) /\ Balanced(kk, V)
    BY DEF Books
  <1>2. 0 \in Periods /\ MaxPeriod \in Nat
    BY DistributionAssumption DEF Periods
  <1>3. /\ x2 \in [Validators -> [Periods -> Records]]
        /\ x2[v][0].refs = 1
        /\ \A w \in Validators, q \in Periods : ~(w = v /\ q = 0) => x2[w][q] = kk.historical[w][q]
    <2>1. [ratio |-> 0, refs |-> 1] \in Records
      BY DEF Records
    <2>2. kk.historical \in [Validators -> [Periods -> Records]]
      BY <1>1 DEF Stores
    <2> QED
      BY <1>1, <1>2, <2>1, <2>2
  <1>4. /\ r2 \in [Validators -> Int] /\ p2 \in [Validators -> Nat] /\ c2 \in [Validators -> Int]
        /\ o2 \in [Validators -> Int] /\ m2 \in Int
        /\ o2[v] = 0 /\ \A w \in Validators : w # v => o2[w] = kk.outstanding[w]
        /\ \A w \in Validators : w # v => c2[w] = kk.commission[w]
        /\ p2[v] = 1 /\ \A w \in Validators : w # v => p2[w] = kk.period[w]
    BY <1>1 DEF Stores
  <1>5. k2 = [kk EXCEPT !.historical = x2, !.rewards = r2, !.period = p2, !.commission = c2,
                        !.outstanding = o2, !.pool = m2]
    BY <1>1 DEF ValidatorStep, initializeValidator, Stores
  <1> HIDE DEF k2, x2, r2, p2, c2, o2
  <1>6. /\ k2 \in Stores
        /\ k2.historical = x2 /\ k2.period = p2 /\ k2.outstanding = o2 /\ k2.pool = m2
        /\ k2.commission = c2
        /\ k2.slashes = kk.slashes /\ k2.starting = kk.starting /\ k2.balance = kk.balance
        /\ k2.panicked = kk.panicked
    BY <1>1, <1>3, <1>4, <1>5 DEF Stores
  <1>7. \A w \in Validators : Needed(k2, E, w) = Needed(kk, E, w)
    BY <1>6 DEF Needed
  <1>8. Needed(kk, E, v) = {}
    BY <1>1, NeededBefore
  <1>9. \A q \in Periods : RefsAt(kk, v, q) = 0
    BY <1>1, <1>8 DEF Counted, Marker, Need
  <1>10. /\ RefsAt(k2, v, 0) = 1
         /\ \A w \in Validators, q \in Periods : ~(w = v /\ q = 0) => RefsAt(k2, w, q) = RefsAt(kk, w, q)
    BY <1>3, <1>6 DEF RefsAt
  <1>11. Apart(k2, C2, E)
    <2>1. \A e \in E : e[2] \in Validators /\ e[2] # v
      BY <1>1 DEF Apart
    <2>2. kk.slashes[v] = {}
      BY <1>1 DEF Apart
    <2>3. E \subseteq Delegators \X C2
      BY <1>1 DEF Apart
    <2>4. \A w \in C2 : k2.period[w] \in 1..(MaxPeriod + 1)
      BY <1>1, <1>2, <1>4, <1>6 DEF Apart
    <2>5. \A e \in E : k2.starting[e] \in StartingInfos /\ k2.starting[e].period < k2.period[e[2]]
      BY <1>1, <1>4, <1>6, <2>1 DEF Apart
    <2>6. \A w \in Validators : \A s \in k2.slashes[w] : s.period < k2.period[w]
      BY <1>1, <1>4, <1>6, <2>2 DEF Apart
    <2> QED
      BY <1>1, <1>6, <2>3, <2>4, <2>5, <2>6 DEF Apart
  <1>12. Counted(k2, C2, E)
    <2> SUFFICES ASSUME NEW w \in Validators, NEW q \in Periods
                 PROVE  RefsAt(k2, w, q) = Marker(k2, C2, w, q) + Need(k2, E, w, q)
      BY DEF Counted
    <2>1. Need(k2, E, w, q) = Need(kk, E, w, q)
      BY <1>7 DEF Need
    <2>2. CASE w = v
      <3>1. Need(kk, E, w, q) = 0
        BY <1>8, <2>2 DEF Need
      <3>2. q + 1 = k2.period[w] <=> q = 0
        BY <1>4, <1>6, <2>2 DEF Periods
      <3> QED
        BY <1>9, <1>10, <2>1, <2>2, <3>1, <3>2 DEF Marker
    <2>3. CASE w # v
      <3>1. Marker(k2, C2, w, q) = Marker(kk, C, w, q)
        BY <1>4, <1>6, <2>3 DEF Marker
      <3> QED
        BY <1>1, <1>10, <2>1, <2>3, <3>1 DEF Counted
    <2> QED
      BY <2>2, <2>3
  <1>13. Totalled(k2, C2, E)
    <2>1. Refs(kk) \in Int /\ Refs(k2) = Refs(kk) + 1
      <3>1. Refs(kk) \in Int /\ Refs(k2) = Refs(kk) + RefsAt(k2, v, 0) - RefsAt(kk, v, 0)
        BY <1>1, <1>2, <1>6, <1>10, RefsSummed
      <3> QED
        BY <1>2, <1>9, <1>10, <3>1
    <2>2. Slashes(k2) = Slashes(kk)
      BY <1>6 DEF Slashes
    <2>3. IsFiniteSet(C)
      BY <1>1, ExportAssumption, FS_Subset
    <2>4. Cardinality(C2) = Cardinality(C) + 1 /\ Cardinality(C) \in Nat
      BY <2>3, FS_AddElement, FS_CardinalityType
    <2>5. Cardinality(E) \in Nat
      <3>1. IsFiniteSet(Delegators \X Validators) /\ E \subseteq Delegators \X Validators
        BY <1>1, ExportAssumption, FS_Product DEF Apart
      <3> QED
        BY <3>1, FS_Subset, FS_CardinalityType
    <2>6. Slashes(kk) \in Int
      BY <1>1, SlashesSummed DEF Apart
    <2>7. Refs(kk) = Cardinality(C) + Cardinality(E) + Slashes(kk)
      BY <1>1 DEF Totalled
    <2> QED
      BY <2>1, <2>2, <2>4, <2>5, <2>6, <2>7 DEF Totalled
  <1>14. Balanced(k2, V)
    <2> DEFINE n == 0
    <2>1. n \in Int /\ ToDec(n) = 0
      BY DistributionAssumption DEF ToDec
    <2>2. kk.outstanding[v] \in Int /\ kk.pool \in Int /\ kk.balance \in Int
      BY <1>1 DEF Stores
    <2>3. k2.outstanding[v] + k2.pool = kk.outstanding[v] + kk.pool + ToDec(n) /\ k2.balance = kk.balance + n
      BY <1>4, <1>6, <2>1, <2>2
    <2>4. \A w \in Validators :
              w # v => k2.outstanding[w] = kk.outstanding[w] /\ k2.commission[w] = kk.commission[w]
      BY <1>4, <1>6
    <2> HIDE DEF n
    <2> QED
      BY <1>1, <1>6, <2>1, <2>3, <2>4, BalanceKept
  <1>15. C2 \subseteq V
    BY <1>1
  <1>16. Books(k2, V, C2, E)
    BY <1>1, <1>6, <1>11, <1>12, <1>13, <1>14, <1>15 DEF Books
  <1> QED
    BY <1>6, <1>16 DEF k2, p2

\* A validator that nothing was ever outstanding for.
LEMMA ValidatorInitialized ==
    ASSUME NEW kk, NEW V, NEW C, NEW E, Books(kk, V, C, E), NEW v \in Validators, v \notin V
    PROVE  LET k2 == initializeValidator(kk, v)
           IN  /\ Books(k2, V \cup {v}, C \cup {v}, E)
               /\ k2.period = [kk.period EXCEPT ![v] = 1]
               /\ k2.panicked = kk.panicked
  <1> DEFINE V2 == V \cup {v}
             k1 == [kk EXCEPT !.pool = @ + kk.outstanding[v]]
  <1>1. kk \in Stores /\ Balanced(kk, V) /\ C \subseteq V /\ V \subseteq Validators
    BY DEF Books
  <1>2. kk.outstanding[v] = 0
    BY <1>1 DEF Balanced
  <1>3. k1 = kk
    BY <1>1, <1>2 DEF Stores
  <1>4. initializeValidator(kk, v) = ValidatorStep(0, v, kk)
    BY <1>3 DEF ValidatorStep
  <1>5. Balanced(kk, V2)
    BY <1>1 DEF Balanced
  <1>6. Books(kk, V2, C, E) /\ v \in V2 /\ v \notin C
    BY <1>1, <1>5 DEF Books
  <1> HIDE DEF V2
  <1>7. LET k2 == ValidatorStep(0, v, kk)
        IN  /\ Books(k2, V2, C \cup {v}, E)
            /\ k2.period = [kk.period EXCEPT ![v] = 1]
            /\ k2.panicked = kk.panicked
    BY <1>6, ValidatorSetUp
  <1> QED
    BY <1>4, <1>7 DEF V2
-----------------------------------------------------------------------------
(* Delegations and validators.                                             *)

\* The books of the delegations and validators that there are.
Ledger(kk, s) == Covered(s) /\ Books(kk, CreatedIn(s), CreatedIn(s), Delegations(s))

\* What the books tell of staking is the shares and who has been created.
LEMMA LedgerSame ==
    ASSUME NEW k1, NEW s1, NEW s2, Ledger(k1, s1), s2.shares = s1.shares,
           CreatedIn(s2) = CreatedIn(s1), \A v \in Validators : s2.tokens[v] \in Nat,
           StakingOK(s1), \A v \in Validators : s2.tokens[v] <= s1.tokens[v]
    PROVE  Ledger(k1, s2)
  <1>1. Delegations(s2) = Delegations(s1)
    BY DEF Delegations
  <1>2. \A v \in Validators : DelegatorShares(s2, v) = DelegatorShares(s1, v)
    BY DEF DelegatorShares
  <1>3. ASSUME NEW v \in Validators
        PROVE  s2.tokens[v] <= DelegatorShares(s2, v)
    <2>1. DelegatorShares(s1, v) \in Nat /\ s1.tokens[v] \in Nat
      BY SharesBound DEF StakingOK, Stakings
    <2>2. s1.tokens[v] <= DelegatorShares(s1, v)
      BY DEF Ledger, Covered
    <2> QED
      BY <1>2, <2>1, <2>2
  <1> QED
    BY <1>1, <1>3 DEF Ledger, Covered

\* A delegation is one of a validator that there is.
LEMMA DelegationOf ==
    ASSUME NEW s, StakingOK(s), NEW d, NEW v, <<d, v>> \in Delegations(s)
    PROVE  d \in Delegators /\ v \in CreatedIn(s) /\ Known(s, d, v)
  <1>1. d \in Delegators /\ v \in Validators /\ s.shares[<<d, v>>] > 0
    BY DEF Delegations
  <1>2. s.status[v] # "none"
    BY <1>1 DEF StakingOK
  <1> QED
    BY <1>1, <1>2 DEF CreatedIn, Known, StakingOK, Stakings

\* Before its shares change a delegation, if it is there, is ended.
LEMMA HookedBefore ==
    ASSUME NEW kk, NEW V, NEW C, NEW E, Books(kk, V, C, E), NEW s, StakingOK(s),
           NEW d \in Delegators, NEW v \in C, s.shares[<<d, v>>] > 0 <=> <<d, v>> \in E,
           kk.period[v] <= MaxPeriod, NEW h
    PROVE  LET k2 == BeforeDelegation(kk, s, d, v, h)
           IN  /\ Books(k2, V, C, E \ {<<d, v>>})
               /\ Fresh(k2, E \ {<<d, v>>}, v)
               /\ k2.period = [kk.period EXCEPT ![v] = kk.period[v] + 1]
  <1>1. v \in Validators /\ s.tokens[v] \in Nat
    BY DEF Books, StakingOK, Stakings
  <1>2. CASE s.shares[<<d, v>>] > 0
    <2>1. Known(s, d, v)
      BY <1>1, <1>2 DEF Known, StakingOK, Stakings
    <2>2. BeforeDelegation(kk, s, d, v, h) = withdrawDelegationRewards(kk, s, d, v, h)
      BY <1>2 DEF BeforeDelegation
    <2> DEFINE k2 == withdrawDelegationRewards(kk, s, d, v, h)
    <2>3. /\ Books(k2, V, C, E \ {<<d, v>>})
          /\ Fresh(k2, E \ {<<d, v>>}, v)
          /\ k2.period = [kk.period EXCEPT ![v] = kk.period[v] + 1]
      BY <1>2, <2>1, DelegationEnded
    <2> QED
      BY <2>2, <2>3
  <1>3. CASE ~(s.shares[<<d, v>>] > 0)
    <2>1. E \ {<<d, v>>} = E
      BY <1>3
    <2>2. BeforeDelegation(kk, s, d, v, h) = IncrementValidatorPeriod(kk, s, v)
      BY <1>3 DEF BeforeDelegation
    <2> DEFINE k2 == IncrementValidatorPeriod(kk, s, v)
    <2>3. /\ Books(k2, V, C, E)
          /\ Fresh(k2, E, v)
          /\ k2.period = [kk.period EXCEPT ![v] = kk.period[v] + 1]
      BY <1>1, PeriodEndedBooks
    <2> QED
      BY <2>1, <2>2, <2>3
  <1> QED
    BY <1>2, <1>3

\* Tokens are delegated.
LEMMA DelegatedBooks ==
    ASSUME NEW kk, NEW s, StakingOK(s), Ledger(kk, s), NEW d \in Delegators, NEW v \in Validators,
           s.status[v] # "none", ~InvalidExRate(s, v), NEW amount \in Nat \ {0},
           kk.period[v] <= MaxPeriod, NEW h \in Nat
    PROVE  LET delegated == Delegate([k |-> kk, st |-> s], d, v, amount, h)
           IN  Ledger(delegated.k, delegated.st)
  <1> DEFINE s2 == AddTokensFromDel(s, d, v, amount)
             k1 == BeforeDelegation(kk, s, d, v, h)
             k2 == initializeDelegation(k1, s2, d, v, h)
             C == CreatedIn(s)
             D == Delegations(s)
             D1 == D \ {<<d, v>>}
  <1>1. ChangesShares(s, s2, d, v) /\ StakingOK(s2)
    BY AddsTokens DEF ChangesShares
  <1>2. Covered(s2) /\ s2.shares[<<d, v>>] > 0
    BY AddCovers DEF Ledger
  <1>3. Books(kk, C, C, D) /\ v \in C /\ (s.shares[<<d, v>>] > 0 <=> <<d, v>> \in D)
    BY DEF Ledger, CreatedIn, Delegations
  <1>4. Delegate([k |-> kk, st |-> s], d, v, amount, h) = [k |-> k2, st |-> s2]
    BY DEF Delegate
  <1>5. CreatedIn(s2) = C
    BY <1>1 DEF CreatedIn, ChangesShares
  <1>6. Delegations(s2) = D1 \cup {<<d, v>>}
    BY <1>1, <1>2 DEF Delegations, ChangesShares
  <1> HIDE DEF C, D
  <1>7. Books(k1, C, C, D1) /\ Fresh(k1, D1, v)
    BY <1>3, HookedBefore
  <1>8. Known(s2, d, v) /\ <<d, v>> \notin D1
    BY <1>1, <1>2 DEF Known, StakingOK, Stakings
  <1> HIDE DEF k1, s2, D1
  <1>9. Books(k2, C, C, D1 \cup {<<d, v>>})
    BY <1>3, <1>7, <1>8, DelegationStarted
  <1>10. Ledger(k2, s2)
    BY <1>2, <1>5, <1>6, <1>9 DEF Ledger
  <1> QED
    BY <1>4, <1>10

\* A whole delegation is taken back.
LEMMA UnboundBooks ==
    ASSUME NEW kk, NEW s, StakingOK(s), Ledger(kk, s), NEW d \in Delegators, NEW v \in Validators,
           s.shares[<<d, v>>] > 0, kk.period[v] <= MaxPeriod, NEW h
    PROVE  LET unbound == Unbond([k |-> kk, st |-> s], d, v, h)
           IN  Ledger(unbound.k, unbound.st)
  <1> DEFINE s2 == RemoveDelShares(s, d, v)
             k1 == BeforeDelegation(kk, s, d, v, h)
             C == CreatedIn(s)
             D == Delegations(s)
             D1 == D \ {<<d, v>>}
  <1>1. ChangesShares(s, s2, d, v) /\ s2.shares[<<d, v>>] = 0
    BY RemovesShares
  <1>2. Covered(s2)
    BY RemoveCovers DEF Ledger
  <1>3. Books(kk, C, C, D) /\ <<d, v>> \in D
    BY DEF Ledger, Delegations
  <1>4. v \in C
    BY <1>3, DelegationOf
  <1>5. Unbond([k |-> kk, st |-> s], d, v, h) = [k |-> k1, st |-> s2]
    BY DEF Unbond
  <1>6. CreatedIn(s2) = C
    BY <1>1 DEF CreatedIn, ChangesShares
  <1>7. Delegations(s2) = D1
    BY <1>1 DEF Delegations, ChangesShares
  <1> HIDE DEF C, D
  <1>8. Books(k1, C, C, D1)
    BY <1>3, <1>4, HookedBefore
  <1> HIDE DEF k1, s2, D1
  <1>9. Ledger(k1, s2)
    BY <1>2, <1>6, <1>7, <1>8 DEF Ledger
  <1> QED
    BY <1>5, <1>9

\* A validator is created.
LEMMA CreatedBooks ==
    ASSUME NEW kk, NEW s, StakingOK(s), Ledger(kk, s), NEW v \in Validators, s.status[v] = "none",
           NEW h \in Nat
    PROVE  LET created == Create([k |-> kk, st |-> s], v, h)
           IN  Ledger(created.k, created.st)
  <1> DEFINE s1 == [s EXCEPT !.status[v] = "unbonded", !.index = @ \cup {v}]
             k1 == initializeValidator(kk, v)
             o == Operator[v]
             C == CreatedIn(s)
             D == Delegations(s)
  <1>0. o \in Delegators /\ SelfDelegation \in Nat \ {0}
    BY ExportAssumption
  <1>1. /\ s1.status = [s.status EXCEPT ![v] = "unbonded"]
        /\ s1.jailed = s.jailed /\ s1.index = s.index \cup {v}
        /\ s1.tokens = s.tokens /\ s1.shares = s.shares
        /\ s1 \in Stakings /\ s \in Stakings
    BY DEF Stakings, StakingOK
  <1>2. Create([k |-> kk, st |-> s], v, h) = Delegate([k |-> k1, st |-> s1], o, v, SelfDelegation, h)
    BY DEF Create
  <1> HIDE DEF s1, o
  <1>3. StakingOK(s1)
    BY <1>1 DEF StakingOK, Stakings
  <1>4. CreatedIn(s1) = C \cup {v} /\ v \notin C
    BY <1>1 DEF CreatedIn, Stakings
  <1>5. Delegations(s1) = D
    BY <1>1 DEF Delegations
  <1>6. Covered(s1)
    BY <1>1 DEF Ledger, Covered, DelegatorShares
  <1>7. Books(kk, C, C, D)
    BY DEF Ledger
  <1> HIDE DEF C, D
  <1>8. /\ Books(k1, C \cup {v}, C \cup {v}, D)
        /\ k1.period = [kk.period EXCEPT ![v] = 1]
    BY <1>4, <1>7, ValidatorInitialized
  <1>9. k1.period[v] <= MaxPeriod
    <2>1. kk.period \in [Validators -> Nat]
      BY <1>7 DEF Books, Stores
    <2>2. k1.period[v] = 1
      BY <1>8, <2>1
    <2>3. Cardinality(Delegators) \in Nat
      BY ExportAssumption, FS_CardinalityType
    <2> QED
      BY <2>2, <2>3, PeriodAssumption, ExportAssumption, DistributionAssumption
  <1> HIDE DEF k1
  <1>10. Ledger(k1, s1)
    BY <1>4, <1>5, <1>6, <1>8 DEF Ledger
  <1>11. s1.status[v] # "none" /\ ~InvalidExRate(s1, v)
    <2>1. \A d \in Delegators : s1.shares[<<d, v>>] = 0
      BY <1>1 DEF StakingOK
    <2>2. s1.shares \in [Delegators \X Validators -> Nat]
      BY <1>1 DEF Stakings
    <2>3. DelegatorShares(s1, v) = 0
      BY <2>1, <2>2, SharesBound
    <2> QED
      BY <1>1, <2>3 DEF InvalidExRate, Stakings
  <1> DEFINE created == Delegate([k |-> k1, st |-> s1], o, v, SelfDelegation, h)
  <1>12. Ledger(created.k, created.st)
    BY <1>0, <1>3, <1>9, <1>10, <1>11, DelegatedBooks
  <1> QED
    BY <1>2, <1>12 DEF k1
-----------------------------------------------------------------------------
(* The books through an export.                                            *)

StartStep(c, e, kk) == DelegationStep(c.st, e, kk)

\* How many of the delegations in T are to v.
To(T, v) == Cardinality({e \in T : e[2] = v})

\* What holds after each of the export's steps: a period ends with each reward
\* that is paid and with each delegation that starts again.
CommissionsPaid(c, T, kk) ==
    Books(kk, CreatedIn(c.st), CreatedIn(c.st), Delegations(c.st)) /\ kk.period = c.period
RewardsPaid(c, T, kk) ==
    /\ Books(kk, CreatedIn(c.st), CreatedIn(c.st), Delegations(c.st))
    /\ \A v \in Validators : kk.period[v] <= c.period[v] + To(T, v)
ValidatorsSetUp(c, T, kk) ==
    /\ Books(kk, CreatedIn(c.st), T, {})
    /\ \A v \in T : kk.period[v] = 1
    /\ kk.panicked = c.panicked
DelegationsStarted(c, T, kk) ==
    /\ Books(kk, CreatedIn(c.st), CreatedIn(c.st), T)
    /\ \A v \in CreatedIn(c.st) : kk.period[v] <= 1 + To(T, v)
    /\ kk.panicked = c.panicked

PaidCommissions == INSTANCE FoldTheorems WITH Step <- CommissionStep, Pick <- Chosen, P <- CommissionsPaid
PaidRewards == INSTANCE FoldTheorems WITH Step <- RewardStep, Pick <- Chosen, P <- RewardsPaid
SetUps == INSTANCE FoldTheorems WITH Step <- ValidatorStep, Pick <- Chosen, P <- ValidatorsSetUp
Starts == INSTANCE FoldTheorems WITH Step <- StartStep, Pick <- Chosen, P <- DelegationsStarted

\* Those in T, and those in T without e.
LEMMA ToOneMore ==
    ASSUME NEW s, NEW T \in SUBSET Delegations(s), NEW e \in T, NEW v \in Validators
    PROVE  /\ To(T \ {e}, v) \in Nat /\ To(T, v) \in Nat
           /\ To(T, v) = To(T \ {e}, v) + (IF v = e[2] THEN 1 ELSE 0)
           /\ To(T, v) <= Cardinality(Delegators)
  <1>1. T \in SUBSET (Delegators \X Validators)
    BY DelegationsFinite
  <1>2. /\ To(T \ {e}, v) \in Nat /\ To(T, v) \in Nat
        /\ To(T, v) = To(T \ {e}, v) + (IF v = e[2] THEN 1 ELSE 0)
    BY <1>1, DelegationsTo DEF To
  <1>3. To(T, v) <= Cardinality(Delegators)
    <2> DEFINE A == {f \in T : f[2] = v}
               B == {f \in Delegations(s) : f[2] = v}
    <2>1. A \subseteq B /\ B \subseteq Delegations(s)
      OBVIOUS
    <2>2. Cardinality(B) \in Nat /\ Cardinality(B) <= Cardinality(Delegators) /\ Cardinality(Delegators) \in Nat
      BY DelegationsBound
    <2>3. To(T, v) = Cardinality(A)
      BY DEF To
    <2> HIDE DEF A, B
    <2>4. IsFiniteSet(B)
      BY <2>1, DelegationsFinite, FS_Subset
    <2>5. Cardinality(A) <= Cardinality(B)
      BY <2>1, <2>4, FS_Subset
    <2> QED
      BY <1>2, <2>2, <2>3, <2>5
  <1> QED
    BY <1>2, <1>3

\* There is none in no set.
LEMMA ToNone == \A v \in Validators : To({}, v) = 0
  <1>1. \A v \in Validators : {e \in {} : e[2] = v} = {}
    OBVIOUS
  <1> QED
    BY <1>1, FS_EmptySet DEF To

\* The commissions and the rewards are paid.
LEMMA AllWithdrawn ==
    ASSUME NEW kk, NEW s, StakingOK(s), Ledger(kk, s), NEW h \in Nat,
           \A v \in Validators : kk.period[v] + Cardinality(Delegators) <= MaxPeriod
    PROVE  Books(WithdrawAll(kk, s, CreatedIn(s), h), CreatedIn(s), CreatedIn(s), Delegations(s))
  <1> DEFINE C == CreatedIn(s)
             D == Delegations(s)
             c == [st |-> s, height |-> h, period |-> kk.period]
             commissions == FoldSet(LAMBDA v, a : WithdrawValidatorCommission(a, v), kk, C)
             withdrawn == WithdrawAll(kk, s, C, h)
  <1>1. C \subseteq Validators /\ CommissionsPaid(c, {}, kk)
    BY DEF Ledger, CommissionsPaid, CreatedIn
  <1>2. PaidCommissions!IsFiniteSet(C)
    <2>1. IsFiniteSet(C)
      BY <1>1, ExportAssumption, FS_Subset
    <2> QED
      BY <2>1 DEF IsFiniteSet, PaidCommissions!IsFiniteSet
  <1>3. ASSUME NEW T \in SUBSET C, NEW v \in T, NEW a, CommissionsPaid(c, T \ {v}, a)
        PROVE  CommissionsPaid(c, T, CommissionStep(c, v, a))
    <2> HIDE DEF C, D
    <2>1. Books(a, C, C, D) /\ a.period = kk.period /\ v \in C
      BY <1>3 DEF CommissionsPaid, C, D
    <2> DEFINE b == WithdrawValidatorCommission(a, v)
    <2>2. Books(b, C, C, D) /\ b.period = a.period
      BY <2>1, CommissionPaid
    <2>3. CommissionStep(c, v, a) = b
      BY DEF CommissionStep
    <2> HIDE DEF b
    <2> QED
      BY <2>1, <2>2, <2>3 DEF CommissionsPaid, C, D
  <1>4. PaidCommissions!Inductive(c, kk, C)
    BY <1>1, <1>3 DEF PaidCommissions!Inductive, PaidCommissions!Picks, Chosen
  <1>5. commissions = PaidCommissions!Fold(c, kk, C)
    BY DEF FoldSet, MapThenFoldSet, PaidCommissions!Fold, Chosen, CommissionStep
  <1>6. CommissionsPaid(c, C, commissions)
    <2> HIDE DEF c, C
    <2>1. CommissionsPaid(c, C, PaidCommissions!Fold(c, kk, C))
      BY <1>2, <1>4, PaidCommissions!FoldInduction
    <2> QED
      BY <1>5, <2>1
  <1>7. withdrawn = FoldSet(LAMBDA e, a : WithdrawDelegationRewards(a, s, e[1], e[2], h), commissions, D)
    BY DEF WithdrawAll
  <1> HIDE DEF commissions, withdrawn
  <1>8. withdrawn = PaidRewards!Fold(c, commissions, D)
    BY <1>7 DEF FoldSet, MapThenFoldSet, PaidRewards!Fold, Chosen, RewardStep
  <1>9. PaidRewards!IsFiniteSet(D)
    <2>1. IsFiniteSet(D)
      BY DelegationsFinite
    <2> QED
      BY <2>1 DEF IsFiniteSet, PaidRewards!IsFiniteSet
  <1>10. \A v \in Validators : kk.period[v] \in Nat
    BY DEF Ledger, Books, Stores
  <1>11. ASSUME NEW T \in SUBSET D, NEW e \in T, NEW a, RewardsPaid(c, T \ {e}, a)
         PROVE  RewardsPaid(c, T, RewardStep(c, e, a))
    <2> DEFINE d == e[1]
               v == e[2]
               b == WithdrawDelegationRewards(a, s, d, v, h)
    <2>1. e \in D /\ e = <<d, v>>
      BY DelegationsFinite
    <2>2. RewardStep(c, e, a) = b
      BY DEF RewardStep
    <2> HIDE DEF d, v
    <2>3. d \in Delegators /\ v \in C /\ Known(s, d, v) /\ v \in Validators
      BY <1>1, <2>1, DelegationOf
    <2> DEFINE T1 == T \ {e}
    <2>4. /\ Books(a, C, C, D)
          /\ \A w \in Validators : a.period[w] <= kk.period[w] + To(T1, w)
      BY <1>11 DEF RewardsPaid
    <2>5. \A w \in Validators :
            /\ To(T1, w) \in Nat /\ To(T, w) \in Nat
            /\ To(T, w) = To(T1, w) + (IF w = v THEN 1 ELSE 0)
            /\ To(T, w) <= Cardinality(Delegators)
      BY ToOneMore DEF v
    <2> HIDE DEF T1, c
    <2>6. \A w \in Validators : a.period[w] \in Nat
      BY <2>4 DEF Books, Stores
    <2>7. Cardinality(Delegators) \in Nat /\ MaxPeriod \in Nat
      BY ExportAssumption, FS_CardinalityType, DistributionAssumption
    <2>8. a.period[v] <= MaxPeriod
      BY <1>10, <2>3, <2>4, <2>5, <2>6, <2>7
    <2> HIDE DEF C, D
    <2>9. Books(b, C, C, D) /\ b.period = [a.period EXCEPT ![v] = a.period[v] + 1]
      BY <2>1, <2>3, <2>4, <2>8, DelegationRestarted
    <2> HIDE DEF b
    <2>10. \A w \in Validators : b.period[w] = a.period[w] + (IF w = v THEN 1 ELSE 0)
      BY <2>4, <2>6, <2>9 DEF Books, Stores
    <2>11. \A w \in Validators : b.period[w] <= kk.period[w] + To(T, w)
      BY <1>10, <2>4, <2>5, <2>6, <2>10
    <2> QED
      BY <2>2, <2>9, <2>11 DEF RewardsPaid, c, C, D
  <1>12. RewardsPaid(c, {}, commissions)
    <2>1. Books(commissions, C, C, D) /\ commissions.period = kk.period
      BY <1>6 DEF CommissionsPaid
    <2>2. \A v \in Validators : commissions.period[v] <= kk.period[v] + To({}, v)
      BY <1>10, <2>1, ToNone
    <2> QED
      BY <2>1, <2>2 DEF RewardsPaid
  <1>13. PaidRewards!Inductive(c, commissions, D)
    BY <1>11, <1>12 DEF PaidRewards!Inductive, PaidRewards!Picks, Chosen
  <1>14. RewardsPaid(c, D, withdrawn)
    <2> HIDE DEF c, D
    <2>1. RewardsPaid(c, D, PaidRewards!Fold(c, commissions, D))
      BY <1>9, <1>13, PaidRewards!FoldInduction
    <2> QED
      BY <1>8, <2>1
  <1> QED
    BY <1>14 DEF RewardsPaid, withdrawn

\* Validators and delegations are set up again.
LEMMA ExportedBooks ==
    ASSUME StakingOK(st), Ledger(k, st), height \in Nat,
           \A v \in Validators : k.period[v] + Cardinality(Delegators) <= MaxPeriod
    PROVE  /\ Books(ExportedDistribution, Created, Created, Delegations(st))
           /\ ExportedDistribution.panicked = WithdrawAll(k, st, Created, height).panicked
  <1> DEFINE C == CreatedIn(st)
             D == Delegations(st)
             withdrawn == WithdrawAll(k, st, C, height)
             cleared == ClearHistory(withdrawn)
             validators == ReinitializeValidators(cleared, C)
             started == ReinitializeDelegations(validators)
             c == [st |-> st, panicked |-> withdrawn.panicked]
  <1>1. Books(withdrawn, C, C, D)
    BY AllWithdrawn
  <1>2. ExportedDistribution = started /\ Created = C
    BY DEF ExportedDistribution, Created
  <1>3. C \subseteq Validators
    BY DEF CreatedIn
  <1> HIDE DEF C, D, withdrawn
  <1>4. Books(cleared, C, {}, {}) /\ cleared.panicked = withdrawn.panicked
    BY <1>1, HistoryCleared
  <1> HIDE DEF cleared
  <1>5. ASSUME NEW T \in SUBSET C, NEW v \in T, NEW a, ValidatorsSetUp(c, T \ {v}, a)
        PROVE  ValidatorsSetUp(c, T, ValidatorStep(c, v, a))
    <2> DEFINE T1 == T \ {v}
               b == ValidatorStep(c, v, a)
    <2>1. /\ Books(a, C, T1, {}) /\ (\A w \in T1 : a.period[w] = 1) /\ a.panicked = withdrawn.panicked
      BY <1>5 DEF ValidatorsSetUp, C
    <2>2. v \in C /\ v \notin T1 /\ T1 \cup {v} = T
      OBVIOUS
    <2> HIDE DEF T1, c
    <2>3. /\ Books(b, C, T1 \cup {v}, {})
          /\ b.period = [a.period EXCEPT ![v] = 1]
          /\ b.panicked = a.panicked
      BY <2>1, <2>2, ValidatorSetUp
    <2> HIDE DEF b
    <2>4. a.period \in [Validators -> Nat]
      BY <2>1 DEF Books, Stores
    <2>5. \A w \in T : b.period[w] = 1
      BY <1>3, <2>1, <2>2, <2>3, <2>4
    <2>6. Books(b, C, T, {})
      BY <2>2, <2>3
    <2> QED
      BY <2>1, <2>3, <2>5, <2>6 DEF ValidatorsSetUp, b, c, C
  <1>6. ValidatorsSetUp(c, {}, cleared)
    BY <1>4 DEF ValidatorsSetUp, C
  <1>7. SetUps!Inductive(c, cleared, C)
    BY <1>5, <1>6 DEF SetUps!Inductive, SetUps!Picks, Chosen
  <1>8. SetUps!IsFiniteSet(C)
    <2>1. IsFiniteSet(C)
      BY <1>3, ExportAssumption, FS_Subset
    <2> QED
      BY <2>1 DEF IsFiniteSet, SetUps!IsFiniteSet
  <1>9. ValidatorsSetUp(c, C, validators)
    <2>1. validators = SetUps!Fold(c, cleared, C)
      BY DEF ReinitializeValidators, FoldSet, MapThenFoldSet, SetUps!Fold, Chosen, ValidatorStep
    <2> HIDE DEF c, validators
    <2>2. ValidatorsSetUp(c, C, SetUps!Fold(c, cleared, C))
      BY <1>7, <1>8, SetUps!FoldInduction
    <2> QED
      BY <2>1, <2>2
  <1> HIDE DEF validators
  <1>10. D \subseteq Delegators \X Validators /\ D = Delegations(st)
    BY DelegationsFinite DEF D
  <1>11. ASSUME NEW T \in SUBSET D, NEW e \in T, NEW a, DelegationsStarted(c, T \ {e}, a)
         PROVE  DelegationsStarted(c, T, StartStep(c, e, a))
    <2> DEFINE d == e[1]
               v == e[2]
               T1 == T \ {e}
               a1 == IncrementValidatorPeriod(a, st, v)
               b == initializeDelegation(a1, st, d, v, 0)
    <2>1. e \in Delegations(st) /\ e = <<d, v>>
      BY <1>10
    <2>2. StartStep(c, e, a) = b
      BY DEF StartStep, DelegationStep
    <2>3. /\ Books(a, C, C, T1)
          /\ (\A w \in C : a.period[w] <= 1 + To(T1, w))
          /\ a.panicked = withdrawn.panicked
      BY <1>11 DEF DelegationsStarted, C
    <2>4. e \notin T1 /\ T1 \cup {e} = T
      OBVIOUS
    <2>5. \A w \in Validators :
            /\ To(T1, w) \in Nat /\ To(T, w) \in Nat
            /\ To(T, w) = To(T1, w) + (IF w = v THEN 1 ELSE 0)
            /\ To(T, w) <= Cardinality(Delegators)
      BY <1>10, ToOneMore
    <2> HIDE DEF d, v, T1
    <2>6. d \in Delegators /\ v \in C /\ Known(st, d, v) /\ v \in Validators
      BY <1>3, <2>1, DelegationOf DEF C
    <2>7. \A w \in Validators : a.period[w] \in Nat
      BY <2>3 DEF Books, Stores
    <2>8. a.period[v] <= MaxPeriod
      <3>1. Cardinality(Delegators) \in Nat /\ 1 + Cardinality(Delegators) <= MaxPeriod
        <4>1. Cardinality(Delegators) \in Nat
          BY ExportAssumption, FS_CardinalityType
        <4> QED
          BY <4>1, ExportAssumption, PeriodAssumption, DistributionAssumption
      <3> QED
        BY <2>3, <2>5, <2>6, <2>7, <3>1, DistributionAssumption
    <2>9. st.tokens[v] \in Nat
      BY <2>6 DEF Known
    <2>10. /\ Books(a1, C, C, T1) /\ Fresh(a1, T1, v)
           /\ a1.period = [a.period EXCEPT ![v] = a.period[v] + 1]
           /\ a1.panicked = a.panicked
      BY <2>3, <2>6, <2>8, <2>9, PeriodEndedBooks
    <2> HIDE DEF a1
    <2>11. <<d, v>> \notin T1 /\ 0 \in Nat
      BY <2>1, <2>4
    <2>12. /\ Books(b, C, C, T1 \cup {<<d, v>>})
           /\ b.period = a1.period
           /\ b.panicked = a1.panicked
      BY <2>6, <2>10, <2>11, DelegationStarted
    <2> HIDE DEF b
    <2>13. Books(b, C, C, T)
      BY <2>1, <2>4, <2>12
    <2>14. \A w \in C : b.period[w] <= 1 + To(T, w)
      <3>1. \A w \in Validators : b.period[w] = a.period[w] + (IF w = v THEN 1 ELSE 0)
        BY <2>3, <2>7, <2>10, <2>12 DEF Books, Stores
      <3> QED
        BY <1>3, <2>3, <2>5, <2>7, <3>1
    <2> QED
      BY <2>2, <2>3, <2>10, <2>12, <2>13, <2>14 DEF DelegationsStarted, C
  <1>12. DelegationsStarted(c, {}, validators)
    <2>1. Books(validators, C, C, {}) /\ (\A v \in C : validators.period[v] = 1)
          /\ validators.panicked = withdrawn.panicked
      BY <1>9 DEF ValidatorsSetUp, C
    <2>2. \A v \in C : validators.period[v] <= 1 + To({}, v)
      BY <1>3, <2>1, ToNone
    <2> QED
      BY <2>1, <2>2 DEF DelegationsStarted, C
  <1>13. Starts!Inductive(c, validators, D)
    BY <1>11, <1>12 DEF Starts!Inductive, Starts!Picks, Chosen
  <1>14. Starts!IsFiniteSet(D)
    <2>1. IsFiniteSet(D)
      BY DelegationsFinite DEF D
    <2> QED
      BY <2>1 DEF IsFiniteSet, Starts!IsFiniteSet
  <1>15. started = Starts!Fold(c, validators, D)
    BY DEF ReinitializeDelegations, FoldSet, MapThenFoldSet, Starts!Fold, Chosen, StartStep, DelegationStep, D
  <1>16. DelegationsStarted(c, D, started)
    <2> HIDE DEF c, started
    <2>1. DelegationsStarted(c, D, Starts!Fold(c, validators, D))
      BY <1>13, <1>14, Starts!FoldInduction
    <2> QED
      BY <1>15, <2>1
  <1> HIDE DEF started
  <1>17. Books(started, C, C, D) /\ started.panicked = withdrawn.panicked
    BY <1>16 DEF DelegationsStarted, C
  <1> QED
    BY <1>2, <1>17 DEF withdrawn, D
-----------------------------------------------------------------------------
(* The books in every state.                                               *)

LedgerInv == ExportInv /\ Ledger(k, st)

\* There is room for the periods that an export ends.
LEMMA PeriodsLeft ==
    ASSUME ExportInv
    PROVE  \A v \in Validators : /\ k.period[v] + Cardinality(Delegators) <= MaxPeriod
                                 /\ k.period[v] <= MaxPeriod
  <1>1. /\ \A v \in Validators : k.period[v] <= Begun + txs + height
        /\ txs \in 0..MaxTxs /\ height \in 0..MaxHeight
    BY DEF ExportInv, PeriodsInv, CountersInv
  <1>2. \A v \in Validators : k.period[v] \in Nat
    BY PeriodsNat
  <1>3. Cardinality(Delegators) \in Nat
    BY ExportAssumption, FS_CardinalityType
  <1> QED
    BY <1>1, <1>2, <1>3, PeriodAssumption, ExportAssumption, DistributionAssumption DEF Begun

\* The genesis transactions start the books.
GenesisBooks(c, T, state) ==
    /\ state = [k |-> state.k, st |-> state.st]
    /\ StateOK(state.k, state.st, 0)
    /\ Ledger(state.k, state.st)
    /\ \A v \in Validators : v \notin T => state.st.status[v] = "none"

FirstBooks == INSTANCE FoldTheorems WITH Step <- CreateStep, Pick <- Chosen, P <- GenesisBooks

\* Before them there is nothing.
LEMMA NoBooks == GenesisBooks(0, {}, [k |-> EmptyStore, st |-> NoStaking])
  <1>1. StakingOK(NoStaking)
    BY DEF NoStaking, StakingOK, Stakings
  <1>2. StoreOK(EmptyStore)
    BY DEF EmptyStore, StoreOK
  <1>3. Delegations(NoStaking) = {} /\ CreatedIn(NoStaking) = {}
    BY DEF NoStaking, Delegations, CreatedIn
  <1>4. StateOK(EmptyStore, NoStaking, 0)
    <2>1. StoreHeights(EmptyStore, Delegations(NoStaking), 0)
      BY <1>3 DEF EmptyStore, StoreHeights
    <2>2. Unused(EmptyStore, NoStaking)
      BY DEF Unused, EmptyStore
    <2> QED
      BY <1>1, <1>2, <2>1, <2>2 DEF StateOK
  <1>5. Covered(NoStaking)
    <2> SUFFICES ASSUME NEW v \in Validators
                 PROVE  NoStaking.tokens[v] <= DelegatorShares(NoStaking, v)
      BY DEF Covered
    <2>1. DelegatorShares(NoStaking, v) \in Nat
      BY <1>1, SharesBound DEF StakingOK, Stakings
    <2>2. NoStaking.tokens[v] = 0
      BY DEF NoStaking
    <2> QED
      BY <2>1, <2>2
  <1>6. /\ EmptyStore \in Stores
        /\ \A v \in Validators : EmptyStore.slashes[v] = {} /\ EmptyStore.outstanding[v] = 0
                                /\ EmptyStore.commission[v] = 0
        /\ \A v \in Validators, p \in Periods : EmptyStore.historical[v][p].refs = 0
        /\ EmptyStore.pool = 0 /\ EmptyStore.balance = 0
    BY DEF EmptyStore, Stores, Records, Absent
  <1>7. Balanced(EmptyStore, {})
    <2> DEFINE f == EmptyStore.outstanding
    <2>1. \A v \in Validators : f[v] = 0
      BY <1>6
    <2> HIDE DEF f
    <2>2. SumOver(f, Validators) = 0
      BY <2>1, ExportAssumption, SumZero
    <2>3. ToDec(0) = 0
      BY DistributionAssumption DEF ToDec
    <2> QED
      BY <1>6, <2>2, <2>3 DEF Balanced, f
  <1>8. Books(EmptyStore, {}, {}, {})
    BY <1>6, <1>7, BlankBooks
  <1>9. Ledger(EmptyStore, NoStaking)
    BY <1>3, <1>5, <1>8 DEF Ledger
  <1>10. \A v \in Validators : NoStaking.status[v] = "none"
    BY DEF NoStaking
  <1> QED
    BY <1>4, <1>9, <1>10 DEF GenesisBooks

\* The first genesis has its books.
LEMMA GenesisLedger ==
    LET genesis == FoldSet(LAMBDA v, s : Create(s, v, 0),
                           [k |-> EmptyStore, st |-> NoStaking], InitialValidators)
    IN  GenesisBooks(0, InitialValidators, genesis)
  <1> DEFINE base == [k |-> EmptyStore, st |-> NoStaking]
  <1>1. ASSUME NEW T \in SUBSET InitialValidators, NEW v \in T, NEW a, GenesisBooks(0, T \ {v}, a)
        PROVE  GenesisBooks(0, T, CreateStep(0, v, a))
    <2>0. v \in Validators /\ T \subseteq Validators /\ 0 \in Nat
      BY ExportAssumption
    <2> DEFINE kk == a.k
               s == a.st
               created == Create([k |-> kk, st |-> s], v, 0)
    <2>1. /\ a = [k |-> kk, st |-> s]
          /\ StateOK(kk, s, 0) /\ Ledger(kk, s) /\ StakingOK(s)
          /\ s.status[v] = "none"
          /\ \A w \in Validators : w \notin T => s.status[w] = "none"
      BY <1>1, <2>0 DEF GenesisBooks, StateOK
    <2> HIDE DEF kk, s
    <2>2. /\ StateOK(created.k, created.st, 0)
          /\ created.st.status = [s.status EXCEPT ![v] = "unbonded"]
      BY <2>0, <2>1, Creates
    <2>3. Ledger(created.k, created.st)
      BY <2>0, <2>1, CreatedBooks
    <2>4. CreateStep(0, v, a) = created
      BY <2>1 DEF CreateStep
    <2>5. created = [k |-> created.k, st |-> created.st]
      BY DEF Create, Delegate
    <2> HIDE DEF created
    <2>6. \A w \in Validators : w \notin T => created.st.status[w] = "none"
      BY <2>0, <2>1, <2>2 DEF StateOK, StakingOK, Stakings
    <2> QED
      BY <2>2, <2>3, <2>4, <2>5, <2>6 DEF GenesisBooks
  <1>2. FirstBooks!Inductive(0, base, InitialValidators)
    BY <1>1, NoBooks DEF FirstBooks!Inductive, FirstBooks!Picks, Chosen
  <1>3. FirstBooks!IsFiniteSet(InitialValidators)
    <2>1. IsFiniteSet(InitialValidators)
      BY ExportAssumption, FS_Subset
    <2> QED
      BY <2>1 DEF IsFiniteSet, FirstBooks!IsFiniteSet
  <1> HIDE DEF base
  <1>4. GenesisBooks(0, InitialValidators, FirstBooks!Fold(0, base, InitialValidators))
    BY <1>2, <1>3, FirstBooks!FoldInduction
  <1>5. FoldSet(LAMBDA v, s : Create(s, v, 0), base, InitialValidators)
            = FirstBooks!Fold(0, base, InitialValidators)
    BY DEF FoldSet, MapThenFoldSet, FirstBooks!Fold, Chosen, CreateStep
  <1> QED
    BY <1>4, <1>5 DEF base

\* An update of the validator set changes neither.
LEMMA LedgerUpdated ==
    ASSUME NEW kk, NEW s, StakingOK(s), Ledger(kk, s), NEW h \in Nat
    PROVE  Ledger(kk, ApplyAndReturnValidatorSetUpdates(s, h))
  <1> DEFINE s2 == ApplyAndReturnValidatorSetUpdates(s, h)
  <1>1. /\ StakingOK(s2) /\ SameIndex(s, s2) /\ s2.shares = s.shares
        /\ \A v \in Validators : s2.status[v] = "none" <=> s.status[v] = "none"
    BY UpdatesBonded
  <1> HIDE DEF s2
  <1>2. s2.tokens = s.tokens /\ \A v \in Validators : s.tokens[v] \in Nat
    BY <1>1 DEF SameIndex, StakingOK, Stakings
  <1>3. CreatedIn(s2) = CreatedIn(s)
    BY <1>1 DEF CreatedIn
  <1>4. \A v \in Validators : s2.tokens[v] \in Nat /\ s2.tokens[v] <= s.tokens[v]
    BY <1>2
  <1> QED
    BY <1>1, <1>3, <1>4, LedgerSame DEF s2

\* The books start with the first genesis.
LEMMA LedgerInit == Init => Ledger(k, st)
  <1> SUFFICES ASSUME Init PROVE Ledger(k, st)
    OBVIOUS
  <1> DEFINE genesis == FoldSet(LAMBDA v, s : Create(s, v, 0),
                                [k |-> EmptyStore, st |-> NoStaking], InitialValidators)
             s0 == genesis.st
  <1>1. GenesisBooks(0, InitialValidators, genesis)
    BY GenesisLedger
  <1>2. k = genesis.k /\ st = ApplyAndReturnValidatorSetUpdates(s0, 0)
    BY DEF Init
  <1> HIDE DEF genesis
  <1>3. StakingOK(s0) /\ Ledger(k, s0)
    BY <1>1, <1>2 DEF GenesisBooks, StateOK
  <1> HIDE DEF s0
  <1> QED
    BY <1>2, <1>3, LedgerUpdated

\* What is known of the state when a step is taken.
LEMMA LedgerStart ==
    ASSUME LedgerInv
    PROVE  /\ StakingOK(st) /\ st \in Stakings /\ StateOK(k, st, height)
           /\ Ledger(k, st) /\ height \in Nat
           /\ Books(k, Created, Created, Delegations(st))
           /\ \A v \in Validators : k.period[v] <= MaxPeriod
  <1>1. StakingOK(st) /\ st \in Stakings /\ StateOK(k, st, height) /\ Ledger(k, st) /\ height \in Nat
    BY DEF LedgerInv, ExportInv, CountersInv, StateOK, StakingOK
  <1>2. Books(k, Created, Created, Delegations(st))
    BY <1>1 DEF Ledger, Created
  <1>3. \A v \in Validators : k.period[v] <= MaxPeriod
    BY PeriodsLeft DEF LedgerInv
  <1> QED
    BY <1>1, <1>2, <1>3

\* New books of the same delegations.
LEMMA LedgerOf ==
    ASSUME LedgerInv, NEW k2, Books(k2, Created, Created, Delegations(st))
    PROVE  Ledger(k2, st)
  BY DEF LedgerInv, Ledger, Created

\* Fees are allocated to a bonded validator.
LEMMA BeginBlockLedger ==
    ASSUME LedgerInv, NEW v \in Validators, NEW n \in Rewards, BeginBlock(v, n)
    PROVE  Ledger(k', st')
  <1>1. /\ k' = AllocateTokensToValidator(k, v, n) /\ st' = st
        /\ v \in Created /\ n \in Int
    BY ExportAssumption DEF BeginBlock, Created, CreatedIn
  <1>2. Books(k, Created, Created, Delegations(st))
    BY LedgerStart
  <1> DEFINE k2 == AllocateTokensToValidator(k, v, n)
             C == Created
             D == Delegations(st)
  <1>3. Books(k2, C, C, D)
    <2> HIDE DEF C, D
    <2>1. Books(k, C, C, D) /\ v \in C
      BY <1>1, <1>2 DEF C, D
    <2> QED
      BY <1>1, <2>1, CoinsAllocated
  <1>4. Ledger(k2, st)
    BY <1>3, LedgerOf
  <1> QED
    BY <1>1, <1>4

\* A slash burns tokens and no shares.
LEMMA SlashLedger ==
    ASSUME LedgerInv, NEW v \in Validators, NEW power \in Powers, HandleValidatorSignature(v, power)
    PROVE  Ledger(k', st')
  <1> DEFINE amount == TruncateInt(MulDec(ToDec(power * PowerReduction), SlashFractionDowntime))
             burned == TokensToBurn(v, amount)
             fraction == Min({QuoRoundUp(ToDec(burned), ToDec(st.tokens[v])), Prec})
  <1>1. /\ st.status[v] = "bonded"
        /\ k' = IF st.tokens[v] > 0 THEN updateValidatorSlashFraction(k, st, v, height, fraction)
                ELSE k
        /\ st' = [st EXCEPT !.tokens[v] = @ - burned, !.jailed[v] = TRUE, !.index = @ \ {v}]
    BY DEF HandleValidatorSignature
  <1>2. /\ StakingOK(st) /\ st \in Stakings /\ height \in Nat /\ st.tokens[v] \in Nat
        /\ Books(k, Created, Created, Delegations(st)) /\ k.period[v] <= MaxPeriod
        /\ v \in Created /\ Ledger(k, st)
    BY <1>1, LedgerStart DEF Stakings, Created, CreatedIn
  <1>3. amount \in Nat
    BY SlashAmount
  <1> HIDE DEF amount
  <1>4. burned \in Nat /\ burned <= st.tokens[v]
    BY <1>2, <1>3, MinOfTwo DEF TokensToBurn
  <1> HIDE DEF burned
  <1>5. st.tokens[v] > 0 => fraction \in Int
    <2> SUFFICES ASSUME st.tokens[v] > 0 PROVE fraction \in Int
      OBVIOUS
    <2> DEFINE x == ToDec(burned)
               y == ToDec(st.tokens[v])
    <2>1. x \in Int /\ y \in Int
      BY <1>2, <1>4, DecimalInt
    <2>2. y > 0
      BY <1>2, DistributionAssumption DEF ToDec
    <2> HIDE DEF x, y
    <2>3. QuoRoundUp(x, y) \in Int /\ Prec \in Int
      <3>1. Prec \in Int
        BY DistributionAssumption
      <3>2. QuoRoundUp(x, y) \in Int
        BY <2>1, <2>2, DecimalInt
      <3> QED
        BY <3>1, <3>2
    <2>4. Min({QuoRoundUp(x, y), Prec}) \in Int
      BY <2>3, LesserInt
    <2> QED
      BY <2>4 DEF x, y
  <1> HIDE DEF fraction
  <1>6. /\ st'.shares = st.shares /\ st'.status = st.status
        /\ \A w \in Validators : w # v => st'.tokens[w] = st.tokens[w]
    BY <1>1, <1>2 DEF Stakings
  <1>7. \A w \in Validators : st'.tokens[w] \in Nat /\ st'.tokens[w] <= st.tokens[w]
    <2>1. st'.tokens[v] = st.tokens[v] - burned
      BY <1>1, <1>2 DEF Stakings
    <2> QED
      BY <1>2, <1>4, <1>6, <2>1 DEF Stakings
  <1>8. Created' = Created /\ CreatedIn(st') = CreatedIn(st)
    BY <1>6 DEF Created, CreatedIn
  <1>9. Ledger(k', st)
    <2>1. CASE st.tokens[v] > 0
      <3> DEFINE k2 == updateValidatorSlashFraction(k, st, v, height, fraction)
                 C == Created
                 D == Delegations(st)
      <3>1. Books(k, C, C, D) /\ v \in C /\ fraction \in Int
        BY <1>2, <1>5, <2>1
      <3> HIDE DEF C, D
      <3>2. Books(k2, C, C, D)
        BY <1>2, <3>1, SlashRecorded
      <3>3. Ledger(k2, st)
        BY <3>2, LedgerOf DEF C, D
      <3> QED
        BY <1>1, <2>1, <3>3
    <2>2. CASE ~(st.tokens[v] > 0)
      BY <1>1, <1>2, <2>2
    <2> QED
      BY <2>1, <2>2
  <1> QED
    BY <1>2, <1>6, <1>7, <1>8, <1>9, LedgerSame

\* A validator is created.
LEMMA CreateLedger ==
    ASSUME LedgerInv, NEW v \in Validators, MsgCreateValidator(v)
    PROVE  Ledger(k', st')
  <1> DEFINE created == Create([k |-> k, st |-> st], v, height)
  <1>1. st.status[v] = "none" /\ k' = created.k /\ st' = created.st
    BY DEF MsgCreateValidator
  <1>2. StakingOK(st) /\ Ledger(k, st) /\ height \in Nat
    BY LedgerStart
  <1>3. Ledger(created.k, created.st)
    BY <1>1, <1>2, CreatedBooks
  <1> QED
    BY <1>1, <1>3

\* Tokens are delegated.
LEMMA DelegateLedger ==
    ASSUME LedgerInv, NEW d \in Delegators, NEW v \in Validators, NEW amount \in Amounts,
           MsgDelegate(d, v, amount)
    PROVE  Ledger(k', st')
  <1> DEFINE delegated == Delegate([k |-> k, st |-> st], d, v, amount, height)
  <1>1. /\ st.status[v] # "none" /\ ~InvalidExRate(st, v) /\ amount \in Nat \ {0}
        /\ k' = delegated.k /\ st' = delegated.st
    BY ExportAssumption DEF MsgDelegate, Created, CreatedIn
  <1>2. StakingOK(st) /\ Ledger(k, st) /\ height \in Nat /\ k.period[v] <= MaxPeriod
    BY LedgerStart
  <1>3. Ledger(delegated.k, delegated.st)
    BY <1>1, <1>2, DelegatedBooks
  <1> QED
    BY <1>1, <1>3

\* A delegation is taken back.
LEMMA UndelegateLedger ==
    ASSUME LedgerInv, NEW d \in Delegators, NEW v \in Validators, MsgUndelegate(d, v)
    PROVE  Ledger(k', st')
  <1> DEFINE unbound == Unbond([k |-> k, st |-> st], d, v, height)
  <1>1. st.shares[<<d, v>>] > 0 /\ k' = unbound.k /\ st' = unbound.st
    BY DEF MsgUndelegate
  <1>2. StakingOK(st) /\ Ledger(k, st) /\ k.period[v] <= MaxPeriod
    BY LedgerStart
  <1>3. Ledger(unbound.k, unbound.st)
    BY <1>1, <1>2, UnboundBooks
  <1> QED
    BY <1>1, <1>3

\* Another validator's shares do not change the rate of this one.
LEMMA ExRateSame ==
    ASSUME NEW s, StakingOK(s), NEW s2, NEW d \in Delegators, NEW v \in Validators,
           ChangesShares(s, s2, d, v), NEW w \in Validators, w # v, ~InvalidExRate(s, w)
    PROVE  ~InvalidExRate(s2, w)
  <1>1. DelegatorShares(s2, w) = DelegatorShares(s, w)
    BY SharesMoved
  <1>2. s2.tokens[w] = s.tokens[w]
    BY DEF ChangesShares
  <1> QED
    BY <1>1, <1>2 DEF InvalidExRate

\* A delegation moves: two validators end a period.
LEMMA RedelegateLedger ==
    ASSUME LedgerInv, NEW d \in Delegators, NEW src \in Validators, NEW dst \in Validators,
           MsgBeginRedelegate(d, src, dst)
    PROVE  Ledger(k', st')
  <1> DEFINE unbound == Unbond([k |-> k, st |-> st], d, src, height)
             amount == st.tokens[src] - unbound.st.tokens[src]
             redelegated == Delegate(unbound, d, dst, amount, height)
             k1 == unbound.k
             s1 == unbound.st
             again == Delegate([k |-> k1, st |-> s1], d, dst, amount, height)
  <1>1. /\ st.shares[<<d, src>>] > 0 /\ src # dst /\ amount > 0
        /\ st.status[dst] # "none" /\ ~InvalidExRate(st, dst)
        /\ k' = redelegated.k /\ st' = redelegated.st
    BY DEF MsgBeginRedelegate, Created, CreatedIn
  <1>2. /\ StakingOK(st) /\ StateOK(k, st, height) /\ Ledger(k, st) /\ height \in Nat
        /\ \A v \in Validators : k.period[v] <= MaxPeriod
    BY LedgerStart
  <1>3. /\ StateOK(unbound.k, unbound.st, height)
        /\ ChangesShares(st, unbound.st, d, src)
        /\ Ends(k, unbound.k, src)
        /\ amount \in Nat
    BY <1>1, <1>2, Unbonds
  <1>4. Ledger(unbound.k, unbound.st)
    BY <1>1, <1>2, UnboundBooks
  <1>5. redelegated = again
    <2>1. unbound = [k |-> unbound.k, st |-> unbound.st]
      BY DEF Unbond
    <2> QED
      BY <2>1
  <1> HIDE DEF unbound, amount, redelegated
  <1>6. amount \in Nat \ {0}
    BY <1>1, <1>3
  <1>7. StakingOK(s1) /\ ChangesShares(st, s1, d, src) /\ Ledger(k1, s1) /\ Ends(k, k1, src) /\ StoreOK(k1)
    BY <1>3, <1>4 DEF StateOK
  <1> HIDE DEF k1, s1
  <1>8. s1.status[dst] # "none"
    BY <1>1, <1>7 DEF ChangesShares
  <1>9. ~InvalidExRate(s1, dst)
    BY <1>1, <1>2, <1>7, ExRateSame
  <1>10. k1.period[dst] <= MaxPeriod
    <2>1. k1.period[dst] \in Nat /\ k.period[dst] \in Nat
      BY <1>2, <1>7 DEF StoreOK, StateOK
    <2>2. k1.period[dst] <= k.period[dst]
      BY <1>1, <1>7, <2>1 DEF Ends
    <2> QED
      BY <1>2, <2>1, <2>2, DistributionAssumption
  <1>11. Ledger(again.k, again.st)
    BY <1>2, <1>6, <1>7, <1>8, <1>9, <1>10, DelegatedBooks
  <1> QED
    BY <1>1, <1>5, <1>11

\* Rewards or a commission are withdrawn.
LEMMA WithdrawLedger ==
    ASSUME LedgerInv, NEW v \in Validators,
           \/ \E d \in Delegators : MsgWithdrawDelegatorReward(d, v)
           \/ MsgWithdrawValidatorCommission(v)
    PROVE  Ledger(k', st')
  <1> DEFINE C == Created
             D == Delegations(st)
  <1>1. /\ Books(k, C, C, D) /\ StakingOK(st) /\ height \in Nat
        /\ k.period[v] <= MaxPeriod
    BY LedgerStart
  <1>2. ASSUME NEW d \in Delegators, MsgWithdrawDelegatorReward(d, v)
        PROVE  Ledger(k', st')
    <2> DEFINE k2 == WithdrawDelegationRewards(k, st, d, v, height)
    <2>1. st.shares[<<d, v>>] > 0 /\ k' = k2 /\ st' = st
      BY <1>2 DEF MsgWithdrawDelegatorReward
    <2>2. <<d, v>> \in D
      BY <2>1 DEF Delegations
    <2>3. v \in C /\ Known(st, d, v)
      BY <1>1, <2>2, DelegationOf DEF Created
    <2> HIDE DEF C, D
    <2>4. Books(k2, C, C, D)
      BY <1>1, <2>2, <2>3, DelegationRestarted
    <2>5. Ledger(k2, st)
      BY <2>4, LedgerOf DEF C, D
    <2> QED
      BY <2>1, <2>5
  <1>3. CASE MsgWithdrawValidatorCommission(v)
    <2> DEFINE k2 == WithdrawValidatorCommission(k, v)
    <2>1. k.commission[v] > 0 /\ k' = k2 /\ st' = st
      BY <1>3 DEF MsgWithdrawValidatorCommission
    <2>2. v \in C
      <3>1. v \notin C => k.commission[v] = 0
        BY <1>1 DEF Books, Balanced
      <3> QED
        BY <2>1, <3>1
    <2> HIDE DEF C, D
    <2>3. Books(k2, C, C, D)
      BY <1>1, <2>2, CommissionPaid
    <2>4. Ledger(k2, st)
      BY <2>3, LedgerOf DEF C, D
    <2> QED
      BY <2>1, <2>4
  <1> QED
    BY <1>2, <1>3

\* The end of a block leaves tokens and shares alone.
LEMMA EndBlockLedger ==
    ASSUME LedgerInv, EndBlock
    PROVE  Ledger(k', st')
  <1>1. k' = k /\ st' = ApplyAndReturnValidatorSetUpdates(st, height)
    BY DEF EndBlock
  <1>2. StakingOK(st) /\ Ledger(k, st) /\ height \in Nat
    BY LedgerStart
  <1>3. Ledger(k, ApplyAndReturnValidatorSetUpdates(st, height))
    BY <1>2, LedgerUpdated
  <1> QED
    BY <1>1, <1>3

\* Staking with the same tokens, shares and validators.
LEMMA LedgerKept ==
    ASSUME NEW kk, NEW s, StakingOK(s), Ledger(kk, s), NEW s2,
           s2.tokens = s.tokens, s2.shares = s.shares, s2.status = s.status
    PROVE  Ledger(kk, s2)
  <1>1. CreatedIn(s2) = CreatedIn(s)
    BY DEF CreatedIn
  <1>2. \A v \in Validators : s2.tokens[v] \in Nat /\ s2.tokens[v] <= s.tokens[v]
    BY DEF StakingOK, Stakings
  <1> QED
    BY <1>1, <1>2, LedgerSame

\* A validator leaves jail.
LEMMA UnjailLedger ==
    ASSUME LedgerInv, NEW v \in Validators, MsgUnjail(v)
    PROVE  Ledger(k', st')
  <1>1. k' = k /\ st' = [st EXCEPT !.jailed[v] = FALSE, !.index = @ \cup {v}]
    BY DEF MsgUnjail
  <1>2. StakingOK(st) /\ st \in Stakings /\ Ledger(k, st)
    BY LedgerStart
  <1>3. st'.tokens = st.tokens /\ st'.shares = st.shares /\ st'.status = st.status
    BY <1>1, <1>2 DEF Stakings
  <1> QED
    BY <1>1, <1>2, <1>3, LedgerKept

\* An export leaves new books of the same delegations.
LEMMA ExportLedger ==
    ASSUME LedgerInv, NEW list, Export(list)
    PROVE  Ledger(k', st')
  <1> DEFINE s1 == ResetValidators(st, list)
  <1>1. /\ phase = "committed"
        /\ k' = ExportedDistribution
        /\ st' = ApplyAndReturnValidatorSetUpdates(s1, height)
    BY DEF Export
  <1>2. /\ StakingOK(st) /\ st \in Stakings /\ Ledger(k, st) /\ height \in Nat
        /\ \A v \in Validators : k.period[v] + Cardinality(Delegators) <= MaxPeriod
    BY LedgerStart, PeriodsLeft DEF LedgerInv
  <1>3. Books(ExportedDistribution, Created, Created, Delegations(st))
    BY <1>2, ExportedBooks
  <1>4. Ledger(ExportedDistribution, st)
    BY <1>3, LedgerOf
  <1>5. st'.shares = st.shares /\ st'.status = st.status
    BY ExportStaking DEF LedgerInv
  <1>6. st'.tokens = st.tokens
    BY <1>1, <1>2 DEF ApplyAndReturnValidatorSetUpdates, ResetValidators, Stakings
  <1> QED
    BY <1>1, <1>2, <1>4, <1>5, <1>6, LedgerKept

\* The new chain starts with the books it is given.
LEMMA InitGenesisLedger ==
    ASSUME LedgerInv, InitGenesis
    PROVE  Ledger(k', st')
  <1>1. k' = k /\ st' = [st EXCEPT !.index = {v \in Created : ~st.jailed[v]}]
    BY DEF InitGenesis
  <1>2. StakingOK(st) /\ st \in Stakings /\ Ledger(k, st)
    BY LedgerStart
  <1>3. st'.tokens = st.tokens /\ st'.shares = st.shares /\ st'.status = st.status
    BY <1>1, <1>2 DEF Stakings
  <1> QED
    BY <1>1, <1>2, <1>3, LedgerKept

\* The first genesis satisfies it.
LEMMA LedgerInvInit == Init => LedgerInv
  BY ExportInvInit, LedgerInit DEF LedgerInv

\* Every step keeps it.
LEMMA LedgerInvNext == LedgerInv /\ [Next]_vars => LedgerInv'
  <1> SUFFICES ASSUME LedgerInv, [Next]_vars PROVE LedgerInv'
    OBVIOUS
  <1>1. ExportInv'
    BY ExportInvNext DEF LedgerInv
  <1>2. Ledger(k', st')
    <2>1. CASE \E v \in Validators, n \in Rewards : BeginBlock(v, n)
      BY <2>1, BeginBlockLedger
    <2>2. CASE \E v \in Validators, p \in Powers : HandleValidatorSignature(v, p)
      BY <2>2, SlashLedger
    <2>3. CASE EndBlock
      BY <2>3, EndBlockLedger
    <2>4. CASE \E v \in Validators : MsgCreateValidator(v)
      BY <2>4, CreateLedger
    <2>5. CASE \E v \in Validators : MsgUnjail(v)
      BY <2>5, UnjailLedger
    <2>6. CASE \E d \in Delegators, v \in Validators, n \in Amounts : MsgDelegate(d, v, n)
      BY <2>6, DelegateLedger
    <2>7. CASE \E d \in Delegators, v \in Validators : MsgUndelegate(d, v)
      BY <2>7, UndelegateLedger
    <2>8. CASE \E d \in Delegators, v \in Validators, w \in Validators : MsgBeginRedelegate(d, v, w)
      BY <2>8, RedelegateLedger
    <2>9. CASE \E v \in Validators : \/ \E d \in Delegators : MsgWithdrawDelegatorReward(d, v)
                                     \/ MsgWithdrawValidatorCommission(v)
      BY <2>9, WithdrawLedger
    <2>10. CASE \E list \in AllowLists : Export(list)
      BY <2>10, ExportLedger
    <2>11. CASE InitGenesis
      BY <2>11, InitGenesisLedger
    <2>12. CASE (\E list \in AllowLists : ExportFails(list)) \/ UNCHANGED vars
      <3>1. k' = k /\ st' = st
        BY <2>12 DEF ExportFails, vars
      <3> QED
        BY <3>1 DEF LedgerInv
    <2> QED
      BY <2>1, <2>2, <2>3, <2>4, <2>5, <2>6, <2>7, <2>8, <2>9, <2>10, <2>11, <2>12 DEF Next
  <1> QED
    BY <1>1, <1>2 DEF LedgerInv
-----------------------------------------------------------------------------
(* Theorems about the books.                                               *)

\* Books of the present delegations, in the words of the module's invariants.
LEMMA BooksInOrder ==
    ASSUME NEW kk, Books(kk, Created, Created, Delegations(st))
    PROVE  ReferenceCountInvariant(kk, st, Created) /\ ModuleAccountInvariant(kk)
  <1>1. ReferenceCountInvariant(kk, st, Created)
    <2>1. Totalled(kk, Created, Delegations(st))
      BY DEF Books
    <2> QED
      BY <2>1 DEF Totalled, Refs, Slashes, ReferenceCountInvariant
  <1>2. ModuleAccountInvariant(kk)
    <2> DEFINE s == SumOver(kk.outstanding, Validators)
    <2>1. s + kk.pool = ToDec(kk.balance) /\ kk.balance \in Int
      BY DEF Books, Balanced, Stores
    <2> HIDE DEF s
    <2>2. TruncateInt(ToDec(kk.balance)) = kk.balance
      <3>1. (kk.balance * Prec) \div Prec = kk.balance
        BY <2>1, DistributionAssumption
      <3> QED
        BY <2>1, <3>1 DEF TruncateInt, ToDec
    <2> QED
      BY <2>1, <2>2 DEF ModuleAccountInvariant, s
  <1> QED
    BY <1>1, <1>2

\* The reference counts of historical rewards always add up: on the first
\* chain, in every exported genesis and on every chain started from one, after
\* any sequence of delegations, slashes and withdrawals.
THEOREM ReferencesAlwaysCounted == Spec => []ReferencesCounted
  <1>1. LedgerInv => ReferencesCounted
    BY LedgerStart, BooksInOrder DEF ReferencesCounted
  <1> QED
    BY <1>1, LedgerInvInit, LedgerInvNext, PTL DEF Spec

\* The module account always holds exactly the whole coins of what is
\* outstanding and of the community pool, so that the InitGenesis of an export
\* does not panic on it, however the decimals were rounded before.
THEOREM HoldingsAlwaysBacked == Spec => []HoldingsBacked
  <1>1. LedgerInv => HoldingsBacked
    BY LedgerStart, BooksInOrder DEF HoldingsBacked
  <1> QED
    BY <1>1, LedgerInvInit, LedgerInvNext, PTL DEF Spec

\* Period by period: one reference from the validator to the last period that
\* ended and one from the delegation or the slash, never both, that needs it;
\* none that nobody needs.
EachReferenceCounted ==
    /\ Apart(k, Created, Delegations(st))
    /\ Counted(k, Created, Delegations(st))
    /\ \A v \in Validators, p \in Periods : k.historical[v][p].refs <= 2

\* No count of references ever passes two, where incrementReferenceCount panics
\* above that, and every period that is still needed has its count: what
\* decrementReferenceCount panics on does not happen either.
THEOREM EveryReferenceCounted == Spec => []EachReferenceCounted
  <1>1. LedgerInv => EachReferenceCounted
    <2> SUFFICES ASSUME LedgerInv PROVE EachReferenceCounted
      OBVIOUS
    <2>1. /\ Apart(k, Created, Delegations(st))
          /\ Counted(k, Created, Delegations(st))
      BY LedgerStart DEF Books
    <2>2. \A v \in Validators, p \in Periods : RefsAt(k, v, p) <= 2
      BY <2>1 DEF Counted, Marker, Need
    <2> QED
      BY <2>1, <2>2 DEF EachReferenceCounted, RefsAt
  <1> QED
    BY <1>1, LedgerInvInit, LedgerInvNext, PTL DEF Spec

\* Whenever a block has been committed, whatever the chain did and however many
\* exports came before it, x/distribution is rebuilt in order: the invariants the
\* export asserts of the old books hold of the new ones, and of the passes only
\* the withdrawals can panic, which CanWithdrawInvariant has tried before.
THEOREM RebuildAlwaysKeepsBooks == Spec => []RebuildKeepsBooks
  <1>1. LedgerInv => RebuildKeepsBooks
    <2> SUFFICES ASSUME LedgerInv, phase = "committed"
                 PROVE  /\ ReferenceCountInvariant(ExportedDistribution, st, Created)
                        /\ ModuleAccountInvariant(ExportedDistribution)
                        /\ ExportedDistribution.panicked => WithdrawAll(k, st, Created, height).panicked
      BY DEF RebuildKeepsBooks
    <2>1. /\ StakingOK(st) /\ Ledger(k, st) /\ height \in Nat
          /\ \A v \in Validators : k.period[v] + Cardinality(Delegators) <= MaxPeriod
      BY LedgerStart, PeriodsLeft DEF LedgerInv
    <2>2. /\ Books(ExportedDistribution, Created, Created, Delegations(st))
          /\ ExportedDistribution.panicked = WithdrawAll(k, st, Created, height).panicked
      BY <2>1, ExportedBooks
    <2> QED
      BY <2>2, BooksInOrder
  <1> QED
    BY <1>1, LedgerInvInit, LedgerInvNext, PTL DEF Spec

\* As the code cuts a validator's key, no export of a chain with a validator
\* goes through, with an allow list or without.
THEOREM ExportNeverGoesThrough ==
    ASSUME KeyCut = 1
    PROVE  Spec => [][phase' = "exported" => Created = {}]_vars
  <1>1. \A v \in Validators : ~KeyFound(v)
    <2> SUFFICES ASSUME NEW v \in Validators PROVE ~KeyFound(v)
      OBVIOUS
    <2>1. Len(SubSeq(<<"prefix", "length", v>>, 2, 3)) = 2 /\ Len(<<v>>) = 1
      OBVIOUS
    <2>2. AddressOfKey(ValidatorKey(v)) = SubSeq(<<"prefix", "length", v>>, 2, 3)
      BY DEF AddressOfKey, ValidatorKey
    <2> QED
      BY <2>1, <2>2 DEF KeyFound
  <1>2. Next => [phase' = "exported" => Created = {}]_vars
    <2> SUFFICES ASSUME Next, phase' = "exported" PROVE Created = {}
      OBVIOUS
    <2>1. PICK list \in AllowLists : Export(list)
      BY DEF Next, BeginBlock, HandleValidatorSignature, EndBlock, MsgCreateValidator,
             MsgWithdrawValidatorCommission, MsgUnjail, MsgDelegate, MsgUndelegate,
             MsgBeginRedelegate, MsgWithdrawDelegatorReward, ExportFails, InitGenesis,
             Transaction, Goto
    <2>2. \A v \in Created : KeyFound(v)
      BY <2>1 DEF Export, ExportError
    <2> QED
      BY <1>1, <2>2 DEF Created, CreatedIn
  <1> QED
    BY <1>2, PTL DEF Spec
=============================================================================
