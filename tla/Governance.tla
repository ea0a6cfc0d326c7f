----------------------------- MODULE Governance -----------------------------
(***************************************************************************)
(* Governance proposals of the intrarelayer module: their way through the  *)
(* gov module of the SDK, and the intrarelayer hook that moves the end of  *)
(* the vote on a registration.                                             *)
(*                                                                         *)
(* A block has messages (SubmitProposal, Deposit) and then the EndBlocker, *)
(* which first drops the proposals whose deposit period is over and then   *)
(* tallies those whose voting period is.  Each loop goes through the queue *)
(* entries that were due when it started, one step per entry.  Votes and   *)
(* stakes are left out: a tally may come out either way.                   *)
(***************************************************************************)
EXTENDS Integers, FiniteSets

CONSTANTS
    Ids,               \* bound: proposal ids, 1..n
    Periods,           \* values of the two voting period parameters
    MinDeposit,        \* gov parameters
    MaxDepositPeriod,
    KeeperWired,       \* was the proposal handler given a keeper that is set up?
    Absent,            \* no proposal is stored
    MaxDeposit,        \* bound: a proposal's total deposit
    LastSubmission,    \* bound: the last block time with submissions
    MaxGap,            \* bound: time between two blocks
    MaxTime            \* bound: block times go no further

RegisterKinds == {"RegisterCoin", "RegisterERC20"}
ModuleKinds == RegisterKinds \cup {"ToggleTokenRelay", "UpdateTokenPairERC20"}

\* A parameter change names the parameter and its new value.
ParameterChanges == [kind : {"VotingPeriod", "TokenPairVotingPeriod"}, value : Periods]
Contents == [kind : ModuleKinds] \cup ParameterChanges

Statuses == {"deposit", "voting", "passed", "rejected", "failed"}
Proposal == [content : Contents, status : Statuses, totalDeposit : Nat,
             depositEnd : Nat, votingStart : Nat, votingEnd : Nat]

ASSUME GovernanceAssumption ==
    /\ Ids \subseteq Nat
    /\ Periods \subseteq Nat \ {0}
    /\ {MinDeposit, MaxDeposit, MaxDepositPeriod, LastSubmission, MaxGap, MaxTime} \subseteq Nat
    /\ KeeperWired \in BOOLEAN
    /\ Absent \notin Proposal

\* The bounds leave room for every proposal to come to its end.
ASSUME RoomAssumption ==
    \A period \in Periods : LastSubmission + MaxDepositPeriod + MaxGap + period <= MaxTime

VARIABLES
    now,                    \* block time
    stage,                  \* "deliver", or the loop the EndBlocker is in, or "halted"
    todo,                   \* queue entries the loop has yet to go through
    nextID,                 \* the id of the next proposal
    proposals,              \* the stored proposals
    inactive,               \* the two proposal queues: entries of id and end time
    active,
    deposits,               \* by proposal, the sum of its stored deposits
    votingPeriod,           \* parameter of gov
    tokenPairVotingPeriod   \* parameter of intrarelayer

queues == <<inactive, active>>
periods == <<votingPeriod, tokenPairVotingPeriod>>
vars == <<now, stage, todo, nextID, proposals, queues, deposits, periods>>

Entry(id, time) == [id |-> id, time |-> time]
Entries == [id : Ids, time : Nat]
Due(queue) == {e \in queue : e.time <= now}
Comes(e, f) == e.time < f.time \/ (e.time = f.time /\ e.id <= f.id)

Init ==
    /\ now = 1
    /\ stage = "deliver"
    /\ todo = {}
    /\ nextID = 1
    /\ proposals = [id \in Ids |-> Absent]
    /\ inactive = {}
    /\ active = {}
    /\ deposits = [id \in Ids |-> 0]
    /\ votingPeriod \in Periods
    /\ tokenPairVotingPeriod \in Periods
-----------------------------------------------------------------------------
(* The proposal handlers.                                                  *)

\* How the handler ends when the keeper's operation ends with result: a keeper
\* without a store panics, and so does handleRegisterERC20Proposal, which reads
\* the pair that RegisterERC20 does not return.
Handler(content, result) ==
    CASE content.kind \notin ModuleKinds -> "ok"
      [] content.kind \in ModuleKinds /\ ~KeeperWired -> "panic"
      [] content.kind = "RegisterERC20" /\ KeeperWired /\ result = "ok" -> "panic"
      [] OTHER -> result
-----------------------------------------------------------------------------
(* Messages.  The operators map what a message has of the store: the       *)
(* proposal and the queues.                                                *)

\* Mutant: the voting start is not recorded.
ActivateVotingPeriodUnstarted(id, s) ==
    LET end == now + votingPeriod
    IN  [s EXCEPT !.proposal = [@ EXCEPT !.status = "voting", !.votingEnd = end],
                  !.inactive = @ \ {Entry(id, s.proposal.depositEnd)},
                  !.active = @ \cup {Entry(id, end)}]

ActivateVotingPeriod(id, s) ==
    LET end == now + votingPeriod
    IN  [s EXCEPT !.proposal = [@ EXCEPT !.status = "voting", !.votingStart = now, !.votingEnd = end],
                  !.inactive = @ \ {Entry(id, s.proposal.depositEnd)},
                  !.active = @ \cup {Entry(id, end)}]

\* The hook overrides the end of the vote on a registration, whenever a deposit
\* is made during the vote.
OverridesVotingPeriod(p) ==
    /\ tokenPairVotingPeriod # votingPeriod
    /\ p.status = "voting"
    /\ p.content.kind \in RegisterKinds

\* Mutants: the old queue entry is kept; the entry is not put back; only one of
\* the two kinds of registration is looked at.
AfterProposalDepositKeepsEntry(id, s) ==
    LET end == s.proposal.votingStart + tokenPairVotingPeriod
    IN  IF OverridesVotingPeriod(s.proposal)
        THEN [s EXCEPT !.proposal.votingEnd = end, !.active = @ \cup {Entry(id, end)}] ELSE s
AfterProposalDepositDropsEntry(id, s) ==
    LET end == s.proposal.votingStart + tokenPairVotingPeriod
    IN  IF OverridesVotingPeriod(s.proposal)
        THEN [s EXCEPT !.proposal.votingEnd = end,
                       !.active = @ \ {Entry(id, s.proposal.votingEnd)}] ELSE s
AfterProposalDepositERC20Only(id, s) ==
    LET end == s.proposal.votingStart + tokenPairVotingPeriod
    IN  IF OverridesVotingPeriod(s.proposal) /\ s.proposal.content.kind = "RegisterERC20"
        THEN [s EXCEPT !.proposal.votingEnd = end,
                       !.active = (@ \ {Entry(id, s.proposal.votingEnd)}) \cup {Entry(id, end)}] ELSE s

AfterProposalDeposit(id, s) ==
    LET end == s.proposal.votingStart + tokenPairVotingPeriod
    IN  IF OverridesVotingPeriod(s.proposal)
        THEN [s EXCEPT !.proposal.votingEnd = end,
                       !.active = (@ \ {Entry(id, s.proposal.votingEnd)}) \cup {Entry(id, end)}]
        ELSE s

\* Mutant: the activated proposal is stored without the deposit.
AddDepositLosesAmount(id, s, amount) ==
    AfterProposalDeposit(id, IF s.proposal.status = "deposit" /\ s.proposal.totalDeposit + amount >= MinDeposit
                             THEN ActivateVotingPeriod(id, s)
                             ELSE [s EXCEPT !.proposal.totalDeposit = @ + amount])

AddDeposit(id, s, amount) ==
    LET deposited == [s EXCEPT !.proposal.totalDeposit = @ + amount]
        activates == s.proposal.status = "deposit" /\ deposited.proposal.totalDeposit >= MinDeposit
    IN  AfterProposalDeposit(id, IF activates THEN ActivateVotingPeriod(id, deposited) ELSE deposited)

Store(id, s) ==
    /\ proposals' = [proposals EXCEPT ![id] = s.proposal]
    /\ inactive' = s.inactive
    /\ active' = s.active

\* Mutant: the handler is not tried out.
SubmitProposalUntried(content, amount, result) ==
    /\ stage = "deliver" /\ nextID \in Ids /\ now <= LastSubmission
    /\ LET end == now + MaxDepositPeriod
           new == [content |-> content, status |-> "deposit", totalDeposit |-> 0,
                   depositEnd |-> end, votingStart |-> 0, votingEnd |-> 0]
       IN  Store(nextID, AddDeposit(nextID, [proposal |-> new, active |-> active,
                                             inactive |-> inactive \cup {Entry(nextID, end)}], amount))
    /\ deposits' = [deposits EXCEPT ![nextID] = @ + amount]
    /\ nextID' = nextID + 1
    /\ UNCHANGED <<now, stage, todo, periods>>

\* MsgSubmitProposal: the handler is tried out on the content, in a context that
\* is dropped; then the proposal is stored and the initial deposit added.
SubmitProposal(content, amount, result) ==
    /\ stage = "deliver"
    /\ nextID \in Ids
    /\ now <= LastSubmission
    /\ Handler(content, result) = "ok"
    /\ LET end == now + MaxDepositPeriod
           new == [content |-> content, status |-> "deposit", totalDeposit |-> 0,
                   depositEnd |-> end, votingStart |-> 0, votingEnd |-> 0]
       IN  Store(nextID, AddDeposit(nextID, [proposal |-> new, active |-> active,
                                             inactive |-> inactive \cup {Entry(nextID, end)}], amount))
    /\ deposits' = [deposits EXCEPT ![nextID] = @ + amount]
    /\ nextID' = nextID + 1
    /\ UNCHANGED <<now, stage, todo, periods>>

\* MsgDeposit.
Deposit(id, amount) ==
    /\ stage = "deliver"
    /\ proposals[id] # Absent
    /\ proposals[id].status \in {"deposit", "voting"}
    /\ proposals[id].totalDeposit + amount <= MaxDeposit
    /\ Store(id, AddDeposit(id, [proposal |-> proposals[id], active |-> active, inactive |-> inactive], amount))
    /\ deposits' = [deposits EXCEPT ![id] = @ + amount]
    /\ UNCHANGED <<now, stage, todo, nextID, periods>>
-----------------------------------------------------------------------------
(* EndBlocker.                                                             *)

EndBlockerStarts ==
    /\ stage = "deliver"
    /\ stage' = "inactive"
    /\ todo' = Due(inactive)
    /\ UNCHANGED <<now, nextID, proposals, queues, deposits, periods>>

\* The entry an iterator comes to next.
Current(e) == \A f \in todo : Comes(e, f)

\* A panic outside of a transaction stops the node, and every other one.
Halt ==
    /\ stage' = "halted"
    /\ UNCHANGED <<now, todo, nextID, proposals, queues, deposits, periods>>

\* A proposal that did not reach the minimum deposit in time is deleted.
DropInactive ==
    /\ stage = "inactive"
    /\ \E e \in todo :
       LET id == e.id
           p == proposals[id]
       IN  /\ Current(e)
           /\ IF p = Absent THEN Halt
              ELSE
                /\ todo' = todo \ {e}
                /\ proposals' = [proposals EXCEPT ![id] = Absent]
                /\ inactive' = inactive \ {Entry(id, p.depositEnd)}
                /\ active' = active \ {Entry(id, p.votingEnd)}
                /\ deposits' = [deposits EXCEPT ![id] = 0]
                /\ UNCHANGED <<now, stage, nextID, periods>>

InactiveLoopEnds ==
    /\ stage = "inactive"
    /\ todo = {}
    /\ stage' = "active"
    /\ todo' = Due(active)
    /\ UNCHANGED <<now, nextID, proposals, queues, deposits, periods>>

\* The parameters after the handler of a passed proposal.
Executed(content) ==
    /\ votingPeriod' = IF content.kind = "VotingPeriod" THEN content.value ELSE votingPeriod
    /\ tokenPairVotingPeriod' =
          IF content.kind = "TokenPairVotingPeriod" THEN content.value ELSE tokenPairVotingPeriod

\* Mutant: the tallied proposal stays in the queue.
TallyActiveKeepsEntry(passes, result) ==
    /\ stage = "active"
    /\ \E e \in todo :
       LET id == e.id
           status == IF ~passes THEN "rejected" ELSE IF result = "ok" THEN "passed" ELSE "failed"
       IN  /\ Current(e)
           /\ proposals' = [proposals EXCEPT ![id].status = status]
           /\ IF status = "passed" THEN Executed(proposals[id].content) ELSE UNCHANGED periods
           /\ deposits' = [deposits EXCEPT ![id] = 0]
           /\ todo' = todo \ {e}
           /\ UNCHANGED <<now, stage, nextID, queues>>

\* A vote that is over is tallied; the handler of a proposal that passes is
\* executed, and what it did is kept unless it fails.
TallyActive(passes, result) ==
    /\ stage = "active"
    /\ \E e \in todo :
       LET id == e.id
           p == proposals[id]
           outcome == Handler(p.content, result)
           status == IF ~passes THEN "rejected" ELSE IF outcome = "ok" THEN "passed" ELSE "failed"
       IN  /\ Current(e)
           /\ IF p = Absent \/ (passes /\ outcome = "panic") THEN Halt
              ELSE
                /\ proposals' = [proposals EXCEPT ![id].status = status]
                /\ IF status = "passed" THEN Executed(p.content) ELSE UNCHANGED periods
                /\ active' = active \ {Entry(id, p.votingEnd)}
                /\ deposits' = [deposits EXCEPT ![id] = 0]
                /\ todo' = todo \ {e}
                /\ UNCHANGED <<now, stage, nextID, inactive>>

\* The block ends and the next one begins, at a later time.
NextBlock(gap) ==
    /\ stage = "active"
    /\ todo = {}
    /\ stage' = "deliver"
    /\ now' = IF now + gap <= MaxTime THEN now + gap ELSE MaxTime
    /\ UNCHANGED <<todo, nextID, proposals, queues, deposits, periods>>

Block ==
    \/ EndBlockerStarts
    \/ DropInactive
    \/ InactiveLoopEnds
    \/ \E passes \in BOOLEAN, result \in {"ok", "error"} : TallyActive(passes, result)
    \/ \E gap \in 1..MaxGap : NextBlock(gap)

Next ==
    \/ \E content \in Contents, amount \in 0..MaxDeposit, result \in {"ok", "error"} :
          SubmitProposal(content, amount, result)
    \/ \E id \in Ids, amount \in 0..MaxDeposit : Deposit(id, amount)
    \/ Block

Spec == Init /\ [][Next]_vars

\* Consensus goes on making blocks.
FairSpec == Spec /\ WF_vars(Block)
-----------------------------------------------------------------------------
(* Properties.                                                             *)

Stored(id) == proposals[id] # Absent
Open(id) == Stored(id) /\ proposals[id].status \in {"deposit", "voting"}

\* Proposals, queues and parameters have their types; a vote has a start.
TypeOK ==
    /\ now \in Nat \ {0}
    /\ stage \in {"deliver", "inactive", "active", "halted"}
    /\ nextID \in Nat
    /\ proposals \in [Ids -> Proposal \cup {Absent}]
    /\ \A id \in Ids : Stored(id) /\ proposals[id].status # "deposit" => proposals[id].votingStart # 0
    /\ todo \subseteq Entries
    /\ inactive \subseteq Entries
    /\ active \subseteq Entries
    /\ deposits \in [Ids -> Nat]
    /\ votingPeriod \in Periods
    /\ tokenPairVotingPeriod \in Periods

\* A proposal is in the queue of its status, with its own end time and once, and
\* in no queue when it is decided: whatever the hook does, it is decided once.
QueueConsistent ==
    /\ inactive = {Entry(id, proposals[id].depositEnd) :
                      id \in {i \in Ids : Stored(i) /\ proposals[i].status = "deposit"}}
    /\ active = {Entry(id, proposals[id].votingEnd) :
                      id \in {i \in Ids : Stored(i) /\ proposals[i].status = "voting"}}

\* The deposits kept for a proposal add up to its total until they are refunded
\* or burned, which happens when it is decided or dropped.
DepositsAccountedFor ==
    \A id \in Ids : deposits[id] = IF Open(id) THEN proposals[id].totalDeposit ELSE 0

\* The EndBlocker never panics: a handler that would is found out at submission.
NeverHalts == stage # "halted"

\* A decision is not taken back or taken again.
DecidedOnce ==
    [][\A id \in Ids : Stored(id) /\ ~Open(id) => proposals'[id] = proposals[id]]_vars

\* A vote on a registration gets the module's voting period when it opens.  The
\* votes on toggling and updating a pair keep the period of gov, for which the
\* hook returns early (gov_hooks.go:44).
Opens(id) == Stored(id)' /\ proposals'[id].status = "voting" /\ ~(Stored(id) /\ proposals[id].status = "voting")
LastsTokenPairPeriod(id) == proposals'[id].votingEnd = proposals'[id].votingStart + tokenPairVotingPeriod
RegistrationPeriod ==
    [][\A id \in Ids : Opens(id) /\ proposals'[id].content.kind \in RegisterKinds =>
          LastsTokenPairPeriod(id)]_vars

\* Every proposal is dropped or decided in the end.
Resolved == \A id \in Ids : Open(id) ~> ~Open(id)

\* A coin can be proposed for registration (spec/01_concepts.md:13).
CoinProposable ==
    stage = "deliver" /\ nextID \in Ids /\ now <= LastSubmission =>
        ENABLED SubmitProposal([kind |-> "RegisterCoin"], 1, "ok")
=============================================================================
