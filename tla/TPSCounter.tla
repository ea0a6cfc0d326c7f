----------------------------- MODULE TPSCounter -----------------------------
(***************************************************************************)
(* The transaction counter of the application: DeliverTx adds to two       *)
(* atomic counters, and a goroutine of its own loads both on every tick    *)
(* and reports how much they have grown since the tick before.             *)
(*                                                                         *)
(* The atomic operations of the two goroutines interleave.  The counters   *)
(* are unsigned and wrap around; what recordValue reports is signed.       *)
(***************************************************************************)
EXTENDS Integers

CONSTANTS
    Width,        \* bits of the counters: 64 in the code
    Cancellable,  \* can the context of the reporter be cancelled?
    MaxTx,        \* bound: transactions delivered
    MaxRecorded   \* bound: what is recorded is counted up to here

ASSUME TPSAssumption ==
    /\ Width \in Nat \ {0}
    /\ Cancellable \in BOOLEAN
    /\ MaxTx \in Nat
    /\ MaxRecorded \in Nat /\ MaxRecorded > MaxTx

Modulus == 2^Width

\* It follows from Width being positive; the provers have no theory of powers.
ASSUME ModulusAssumption == Modulus \in Nat /\ Modulus > 1

VARIABLES
    nSuccessful, NFailed,                  \* the counters
    pc,                                    \* where the reporter is
    latestNSuccessful, latestNFailed,      \* its local variables
    lastNSuccessful, lastNFailed,
    recordedOK, recordedERR,               \* all that it has recorded, by status
    succeeded, failed                      \* the transactions delivered so far

counters == <<nSuccessful, NFailed>>
latest == <<latestNSuccessful, latestNFailed>>
last == <<lastNSuccessful, lastNFailed>>
recorded == <<recordedOK, recordedERR>>
delivered == <<succeeded, failed>>
vars == <<counters, pc, latest, last, recorded, delivered>>

Init ==
    /\ nSuccessful = 0 /\ NFailed = 0
    /\ pc = "select"
    /\ latestNSuccessful = 0 /\ latestNFailed = 0
    /\ lastNSuccessful = 0 /\ lastNFailed = 0
    /\ recordedOK = 0 /\ recordedERR = 0
    /\ succeeded = 0 /\ failed = 0
-----------------------------------------------------------------------------
(* DeliverTx: one of the counters, by the result of the transaction.       *)

incrementSuccess ==
    /\ succeeded + failed < MaxTx
    /\ nSuccessful' = (nSuccessful + 1) % Modulus
    /\ succeeded' = succeeded + 1
    /\ UNCHANGED <<NFailed, pc, latest, last, recorded, failed>>

incrementFailure ==
    /\ succeeded + failed < MaxTx
    /\ NFailed' = (NFailed + 1) % Modulus
    /\ failed' = failed + 1
    /\ UNCHANGED <<nSuccessful, pc, latest, last, recorded, succeeded>>
-----------------------------------------------------------------------------
(* The reporter.                                                           *)

\* Mutant: the difference is recorded as it is.
recordValueUnchecked(now, previous) == now - previous

\* Nothing is recorded when the counter has wrapped around, or when the
\* difference is negative as a signed number.
recordValue(now, previous) ==
    IF now < previous \/ now - previous >= Modulus \div 2 THEN 0 ELSE now - previous

\* Add to what has been recorded.
Add(total, n) == IF total + n <= MaxRecorded THEN total + n ELSE MaxRecorded

\* A tick: the first load.
LoadSuccessful ==
    /\ pc = "select"
    /\ pc' = "load"
    /\ latestNSuccessful' = nSuccessful
    /\ UNCHANGED <<counters, latestNFailed, last, recorded, delivered>>

LoadFailed ==
    /\ pc = "load"
    /\ pc' = "record"
    /\ latestNFailed' = NFailed
    /\ UNCHANGED <<counters, latestNSuccessful, last, recorded, delivered>>

\* Mutants: the counters are loaded again for the next tick; the last value is
\* not moved on.
RecordReloads ==
    /\ pc = "record"
    /\ pc' = "select"
    /\ recordedOK' = Add(recordedOK, recordValue(latestNSuccessful, lastNSuccessful))
    /\ recordedERR' = Add(recordedERR, recordValue(latestNSuccessful, lastNFailed))
    /\ lastNSuccessful' = nSuccessful
    /\ lastNFailed' = NFailed
    /\ UNCHANGED <<counters, latest, delivered>>
RecordKeepsLast ==
    /\ pc = "record"
    /\ pc' = "select"
    /\ recordedOK' = Add(recordedOK, recordValue(latestNSuccessful, lastNSuccessful))
    /\ recordedERR' = Add(recordedERR, recordValue(latestNSuccessful, lastNFailed))
    /\ UNCHANGED <<counters, latest, last, delivered>>

\* Both differences are recorded, and the loaded values kept for the next tick.
\* The failures are taken from the counter of successes.
Record ==
    /\ pc = "record"
    /\ pc' = "select"
    /\ recordedOK' = Add(recordedOK, recordValue(latestNSuccessful, lastNSuccessful))
    /\ recordedERR' = Add(recordedERR, recordValue(latestNSuccessful, lastNFailed))
    /\ lastNSuccessful' = latestNSuccessful
    /\ lastNFailed' = latestNFailed
    /\ UNCHANGED <<counters, latest, delivered>>

\* The context is done: start returns and closes doneCh.
Stop ==
    /\ Cancellable
    /\ pc = "select"
    /\ pc' = "done"
    /\ UNCHANGED <<counters, latest, last, recorded, delivered>>

start == LoadSuccessful \/ LoadFailed \/ Record

Next == incrementSuccess \/ incrementFailure \/ start \/ Stop

Spec == Init /\ [][Next]_vars

\* The ticker goes on ticking and the goroutine is scheduled.
FairSpec == Spec /\ WF_vars(start)
-----------------------------------------------------------------------------
(* Properties.                                                             *)

Counter == 0..(Modulus - 1)

\* The counters stay within their width.
TypeOK ==
    /\ {nSuccessful, NFailed, latestNSuccessful, latestNFailed, lastNSuccessful, lastNFailed} \subseteq Counter
    /\ pc \in {"select", "load", "record", "done"}
    /\ {recordedOK, recordedERR, succeeded, failed} \subseteq Nat

\* The counters have not come to where a difference may be lost.
Fits == succeeded < Modulus \div 2

\* A success is recorded once, by the first tick that sees it, however the ticks
\* fall among the transactions.
SuccessesRecordedOnce == Fits /\ pc \in {"select", "done"} => recordedOK = lastNSuccessful

\* Every success is recorded in the end, unless the reporter is stopped first.
SuccessesRecorded ==
    \A n \in 1..(Modulus \div 2) : succeeded = n ~> recordedOK >= n \/ pc = "done" \/ ~Fits

\* A counter that wraps around makes the reporter miss transactions, never
\* report one that was not there.
NeverOverReported == recordedOK <= succeeded

\* What is recorded as failed are the failures seen so far.
FailuresRecordedOnce == pc \in {"select", "done"} => recordedERR = lastNFailed
=============================================================================
