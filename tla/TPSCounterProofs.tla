-------------------------- MODULE TPSCounterProofs --------------------------
(***************************************************************************)
(* Proofs about TPSCounter, for counters of every width and any number of  *)
(* transactions.                                                           *)
(***************************************************************************)
EXTENDS TPSCounter, TLAPS

\* An atomic addition of one stays within the width of the counter, and brings
\* it to zero when it does not bring it one further.
LEMMA Wraps ==
    ASSUME NEW n \in Counter
    PROVE  /\ (n + 1) % Modulus \in Counter
           /\ (n + 1) % Modulus <= n + 1
           /\ n + 1 < Modulus => (n + 1) % Modulus = n + 1
  <1>1. CASE n + 1 < Modulus
    BY <1>1, ModulusAssumption DEF Counter
  <1>2. CASE n + 1 = Modulus
    BY <1>2, ModulusAssumption DEF Counter
  <1>3. QED
    BY <1>1, <1>2, ModulusAssumption DEF Counter

\* What is recorded is a natural number, no more than the growth of the counter.
LEMMA Recorded ==
    ASSUME NEW now \in Counter, NEW previous \in Counter, NEW total \in Nat
    PROVE  /\ recordValue(now, previous) \in Nat
           /\ previous <= now => recordValue(now, previous) <= now - previous
           /\ now < previous => recordValue(now, previous) = 0
           /\ Add(total, recordValue(now, previous)) \in Nat
           /\ Add(total, recordValue(now, previous)) <= total + recordValue(now, previous)
  BY TPSAssumption, ModulusAssumption DEF recordValue, Add, Counter

\* The type invariant with the variables one by one.
TypeInv ==
    /\ nSuccessful \in Counter /\ NFailed \in Counter
    /\ latestNSuccessful \in Counter /\ latestNFailed \in Counter
    /\ lastNSuccessful \in Counter /\ lastNFailed \in Counter
    /\ pc \in {"select", "load", "record", "done"}
    /\ recordedOK \in Nat /\ recordedERR \in Nat
    /\ succeeded \in Nat /\ failed \in Nat

\* The counters start within their width.
LEMMA TypeInvInit == Init => TypeInv
  BY ModulusAssumption DEF Init, TypeInv, Counter

\* Every step of either goroutine keeps the counters within their width.
LEMMA TypeInvNext == TypeInv /\ [Next]_vars => TypeInv'
  <1> SUFFICES ASSUME TypeInv, [Next]_vars PROVE TypeInv'
    OBVIOUS
  <1>1. CASE incrementSuccess
    BY <1>1, Wraps DEF TypeInv, incrementSuccess, latest, last, recorded
  <1>2. CASE incrementFailure
    BY <1>2, Wraps DEF TypeInv, incrementFailure, latest, last, recorded
  <1>3. CASE LoadSuccessful
    BY <1>3 DEF TypeInv, LoadSuccessful, counters, last, recorded, delivered
  <1>4. CASE LoadFailed
    BY <1>4 DEF TypeInv, LoadFailed, counters, last, recorded, delivered
  <1>5. CASE Record
    BY <1>5, Recorded DEF TypeInv, Record, counters, latest, delivered
  <1>6. CASE Stop
    BY <1>6 DEF TypeInv, Stop, counters, latest, last, recorded, delivered
  <1>7. CASE UNCHANGED vars
    BY <1>7 DEF TypeInv, vars, counters, latest, last, recorded, delivered
  <1>8. QED
    BY <1>1, <1>2, <1>3, <1>4, <1>5, <1>6, <1>7 DEF Next, start

\* The counters stay within their width, whatever it is.
THEOREM TypeCorrect == Spec => []TypeOK
  <1>1. TypeInv => TypeOK
    BY DEF TypeInv, TypeOK
  <1>2. QED
    BY <1>1, TypeInvInit, TypeInvNext, PTL DEF Spec
-----------------------------------------------------------------------------
(* Nothing is reported that was not there.                                 *)

\* Behind the last and the latest value stand the successes delivered when they
\* were loaded.  What a counter has lost by wrapping around only grows.
Lags(seen, loaded) ==
    /\ recordedOK <= seen /\ seen <= loaded /\ loaded <= succeeded
    /\ seen - lastNSuccessful <= loaded - latestNSuccessful
    /\ loaded - latestNSuccessful <= succeeded - nSuccessful

LagInv == TypeInv /\ \E seen, loaded \in Nat : Lags(seen, loaded)

\* No step reports more than was loaded, nor loads more than was delivered.
LEMMA LagInvNext == LagInv /\ [Next]_vars => LagInv'
  <1> SUFFICES ASSUME LagInv, [Next]_vars PROVE \E seen, loaded \in Nat : Lags(seen, loaded)'
    BY TypeInvNext DEF LagInv
  <1>1. PICK seen \in Nat, loaded \in Nat : Lags(seen, loaded)
    BY DEF LagInv
  <1>2. TypeInv /\ TypeInv'
    BY TypeInvNext DEF LagInv
  <1>3. CASE incrementSuccess
    <2>1. nSuccessful' <= nSuccessful + 1 /\ nSuccessful' \in Int
      BY <1>2, <1>3, Wraps DEF incrementSuccess, TypeInv, Counter
    <2>2. Lags(seen, loaded)'
      BY <1>1, <1>2, <1>3, <2>1, ModulusAssumption
      DEF incrementSuccess, Lags, TypeInv, latest, last, recorded, Counter
    <2>3. QED
      BY <2>2
  <1>4. CASE LoadSuccessful
    <2>1. Lags(seen, succeeded)'
      BY <1>1, <1>2, <1>4, ModulusAssumption
      DEF LoadSuccessful, Lags, TypeInv, counters, last, recorded, delivered, Counter
    <2>2. succeeded' \in Nat /\ succeeded' = succeeded
      BY <1>2, <1>4 DEF LoadSuccessful, delivered, TypeInv
    <2>3. QED
      BY <2>1, <2>2 DEF Lags
  <1>5. CASE Record
    <2> DEFINE value == recordValue(latestNSuccessful, lastNSuccessful)
    <2>1. /\ value \in Nat
          /\ recordedOK' \in Nat /\ recordedOK' <= recordedOK + value
          /\ lastNSuccessful <= latestNSuccessful => value <= latestNSuccessful - lastNSuccessful
          /\ latestNSuccessful < lastNSuccessful => value = 0
      BY <1>2, <1>5, Recorded DEF Record, TypeInv
    <2> HIDE DEF value
    <2>2. recordedOK' <= loaded
      BY <1>1, <1>2, <2>1, ModulusAssumption DEF Lags, TypeInv, Counter
    <2>3. Lags(loaded, loaded)'
      BY <1>1, <1>2, <1>5, <2>2, ModulusAssumption
      DEF Record, Lags, TypeInv, counters, latest, delivered, Counter
    <2>4. QED
      BY <2>3
  <1>6. CASE UNCHANGED <<recordedOK, lastNSuccessful, latestNSuccessful, succeeded, nSuccessful>>
    BY <1>1, <1>6 DEF Lags
  <1>7. QED
    BY <1>3, <1>4, <1>5, <1>6
    DEF Next, start, incrementFailure, LoadFailed, Stop, vars,
        counters, latest, last, recorded, delivered

\* However narrow the counters are and however ticks fall among transactions,
\* the reporter never reports a success that was not there.
THEOREM NeverReportsMore == Spec => []NeverOverReported
  <1>1. Init => LagInv
    <2>1. Init => Lags(0, 0)
      BY DEF Init, Lags
    <2>2. QED
      BY <2>1, TypeInvInit DEF LagInv
  <1>2. LagInv => NeverOverReported
    BY DEF LagInv, Lags, NeverOverReported, TypeInv
  <1>3. QED
    BY <1>1, <1>2, LagInvNext, PTL DEF Spec
-----------------------------------------------------------------------------
(* Until a counter may lose a difference, everything is recorded once.     *)

\* The counter of successes is their number, and no local value is ahead of it;
\* between ticks what has been recorded is the value kept for the next one.
OnceInv ==
    /\ TypeInv
    /\ succeeded + failed <= MaxTx
    /\ Fits => /\ nSuccessful = succeeded
               /\ lastNSuccessful <= latestNSuccessful
               /\ latestNSuccessful <= succeeded
               /\ recordedOK = lastNSuccessful

\* No step records a success twice or passes one over.
LEMMA OnceInvNext == OnceInv /\ [Next]_vars => OnceInv'
  <1> SUFFICES ASSUME OnceInv, [Next]_vars PROVE OnceInv'
    OBVIOUS
  <1>1. TypeInv /\ TypeInv'
    BY TypeInvNext DEF OnceInv
  <1>2. CASE incrementSuccess
    <2>1. Fits' => Fits
      BY <1>1, <1>2, ModulusAssumption DEF incrementSuccess, Fits, TypeInv
    <2>2. Fits' => nSuccessful' = succeeded'
      <3>1. Fits' => nSuccessful + 1 < Modulus /\ nSuccessful = succeeded
        BY <1>1, <1>2, <2>1, ModulusAssumption DEF incrementSuccess, Fits, TypeInv, OnceInv
      <3>2. QED
        BY <1>1, <1>2, <3>1, Wraps DEF incrementSuccess, TypeInv
    <2>3. QED
      BY <1>1, <1>2, <2>1, <2>2, TPSAssumption, ModulusAssumption
      DEF OnceInv, incrementSuccess, latest, last, recorded, TypeInv, Counter
  <1>3. CASE incrementFailure
    BY <1>1, <1>3, TPSAssumption
    DEF OnceInv, incrementFailure, latest, last, recorded, TypeInv, Fits
  <1>4. CASE LoadSuccessful
    BY <1>1, <1>4, ModulusAssumption
    DEF OnceInv, LoadSuccessful, counters, last, recorded, delivered, TypeInv, Fits, Counter
  <1>5. CASE Record
    <2>1. ASSUME Fits PROVE recordedOK' = latestNSuccessful
      <3>1. recordValue(latestNSuccessful, lastNSuccessful) = latestNSuccessful - lastNSuccessful
        BY <1>1, <2>1, ModulusAssumption DEF OnceInv, TypeInv, Fits, recordValue, Counter
      <3>2. recordedOK + (latestNSuccessful - lastNSuccessful) <= MaxRecorded
        BY <1>1, <2>1, TPSAssumption, ModulusAssumption DEF OnceInv, TypeInv, Counter
      <3>3. QED
        BY <1>1, <1>5, <2>1, <3>1, <3>2, ModulusAssumption
        DEF Record, Add, OnceInv, TypeInv, Counter
    <2>2. QED
      BY <1>1, <1>5, <2>1, ModulusAssumption
      DEF Record, OnceInv, counters, latest, delivered, TypeInv, Fits, Counter
  <1>6. CASE UNCHANGED <<recordedOK, lastNSuccessful, latestNSuccessful, nSuccessful, delivered>>
    BY <1>1, <1>6 DEF OnceInv, Fits, delivered
  <1>7. QED
    BY <1>2, <1>3, <1>4, <1>5, <1>6
    DEF Next, start, LoadFailed, Stop, vars, counters, latest, last, recorded, delivered

\* Each success is recorded once, by the first tick that sees it, as long as
\* the successes fit the positive half of the counter.
THEOREM SuccessesAlwaysRecordedOnce == Spec => []SuccessesRecordedOnce
  <1>1. Init => OnceInv
    BY TypeInvInit, TPSAssumption DEF Init, OnceInv
  <1>2. OnceInv => SuccessesRecordedOnce
    BY DEF OnceInv, SuccessesRecordedOnce
  <1>3. QED
    BY <1>1, <1>2, OnceInvNext, PTL DEF Spec
=============================================================================
