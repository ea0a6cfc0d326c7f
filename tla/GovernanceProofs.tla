--------------------------- MODULE GovernanceProofs ---------------------------
(***************************************************************************)
(* Proofs about Governance, for any number of proposals, any periods and   *)
(* any deposits: the queues agree with the proposals, deposits are         *)
(* accounted for, the EndBlocker never panics, and a decision stands.      *)
(*                                                                         *)
(* They rest on one inductive invariant.  Its parts beyond the properties  *)
(* say that the entries a loop of the EndBlocker has yet to visit are      *)
(* still queued, that ids to come are unused, and that the handler of a    *)
(* stored proposal does not panic.                                         *)
(***************************************************************************)
EXTENDS Governance, TLAPS

\* The loops of the EndBlocker only visit entries that are still queued.
TodoQueued ==
    /\ stage = "deliver" => todo = {}
    /\ stage = "inactive" => todo \subseteq inactive
    /\ stage = "active" => todo \subseteq active

\* Ids to come are unused.
Fresh == \A id \in Ids : id >= nextID => proposals[id] = Absent

\* A stored proposal has a content whose handler does not panic.
Safe(content) == content.kind \in ModuleKinds => KeeperWired /\ content.kind # "RegisterERC20"
Accepted == \A id \in Ids : Stored(id) => Safe(proposals[id].content)

\* The queues as seen from one proposal.
InQueues(id, p, waiting, voting) ==
    /\ \A t \in Nat : Entry(id, t) \in waiting <=> p.status = "deposit" /\ t = p.depositEnd
    /\ \A t \in Nat : Entry(id, t) \in voting <=> p.status = "voting" /\ t = p.votingEnd

NotQueued(id, waiting, voting) ==
    \A t \in Nat : Entry(id, t) \notin waiting /\ Entry(id, t) \notin voting

\* QueueConsistent, proposal by proposal.
Queued ==
    \A id \in Ids : IF Stored(id) THEN InQueues(id, proposals[id], inactive, active)
                    ELSE NotQueued(id, inactive, active)

\* The entries of all other proposals are the same in two queues.
OthersKept(id, queue, queue2) == \A e \in Entries : e.id # id => (e \in queue2 <=> e \in queue)

Inv ==
    /\ TypeOK
    /\ Queued
    /\ DepositsAccountedFor
    /\ NeverHalts
    /\ TodoQueued
    /\ Fresh
    /\ Accepted
-----------------------------------------------------------------------------
\* An entry is determined by its id and its time.
LEMMA EntryFacts ==
    ASSUME NEW id \in Ids, NEW t \in Nat
    PROVE  /\ Entry(id, t) \in Entries
           /\ Entry(id, t).id = id
           /\ Entry(id, t).time = t
           /\ \A e \in Entries : e = Entry(e.id, e.time)
           /\ \A id2 \in Ids, t2 \in Nat : Entry(id, t) = Entry(id2, t2) => id = id2 /\ t = t2
  BY DEF Entry, Entries

\* Reading the queues proposal by proposal is what QueueConsistent says of them.
LEMMA QueuedIsConsistent ==
    ASSUME TypeOK, Queued
    PROVE  QueueConsistent
  <1>1. \A id \in Ids : Stored(id) => proposals[id].depositEnd \in Nat /\ proposals[id].votingEnd \in Nat
    BY DEF TypeOK, Stored, Proposal
  <1>2. \A e \in Entries : e.id \in Ids /\ e.time \in Nat /\ e = Entry(e.id, e.time)
    BY DEF Entry, Entries
  <1>3. \A e \in inactive : /\ Stored(e.id) /\ proposals[e.id].status = "deposit"
                            /\ e = Entry(e.id, proposals[e.id].depositEnd)
    BY <1>2 DEF TypeOK, Queued, InQueues, NotQueued
  <1>4. \A e \in active : /\ Stored(e.id) /\ proposals[e.id].status = "voting"
                          /\ e = Entry(e.id, proposals[e.id].votingEnd)
    BY <1>2 DEF TypeOK, Queued, InQueues, NotQueued
  <1>5. \A id \in Ids : Stored(id) /\ proposals[id].status = "deposit" =>
           Entry(id, proposals[id].depositEnd) \in inactive
    BY <1>1 DEF Queued, InQueues
  <1>6. \A id \in Ids : Stored(id) /\ proposals[id].status = "voting" =>
           Entry(id, proposals[id].votingEnd) \in active
    BY <1>1 DEF Queued, InQueues
  <1>7. inactive \subseteq Entries /\ active \subseteq Entries
    BY DEF TypeOK
  <1>8. inactive = {Entry(id, proposals[id].depositEnd) :
                      id \in {i \in Ids : Stored(i) /\ proposals[i].status = "deposit"}}
    BY <1>2, <1>3, <1>5, <1>7
  <1>9. active = {Entry(id, proposals[id].votingEnd) :
                      id \in {i \in Ids : Stored(i) /\ proposals[i].status = "voting"}}
    BY <1>2, <1>4, <1>6, <1>7
  <1> QED
    BY <1>8, <1>9 DEF QueueConsistent
-----------------------------------------------------------------------------
(* What the operators on a proposal and its queues do.                     *)

\* ActivateVotingPeriod moves the proposal from one queue to the other.
LEMMA ActivateFacts ==
    ASSUME NEW id \in Ids, NEW p \in Proposal, NEW I \in SUBSET Entries, NEW A \in SUBSET Entries,
           now \in Nat \ {0}, votingPeriod \in Nat, p.status = "deposit", InQueues(id, p, I, A),
           NEW r, r = ActivateVotingPeriod(id, [proposal |-> p, active |-> A, inactive |-> I])
    PROVE  /\ r = [proposal |-> r.proposal, active |-> r.active, inactive |-> r.inactive]
           /\ r.proposal = [p EXCEPT !.status = "voting", !.votingStart = now, !.votingEnd = now + votingPeriod]
           /\ r.proposal \in Proposal
           /\ r.inactive \subseteq Entries /\ r.active \subseteq Entries
           /\ InQueues(id, r.proposal, r.inactive, r.active)
           /\ OthersKept(id, I, r.inactive) /\ OthersKept(id, A, r.active)
  <1> DEFINE end == now + votingPeriod
             q == [p EXCEPT !.status = "voting", !.votingStart = now, !.votingEnd = end]
             I2 == I \ {Entry(id, p.depositEnd)}
             A2 == A \cup {Entry(id, end)}
  <1>1. r = [proposal |-> q, active |-> A2, inactive |-> I2]
    BY DEF ActivateVotingPeriod
  <1>a. end \in Nat /\ p.depositEnd \in Nat
    BY DEF Proposal
  <1>b. \A e \in Nat, n \in Nat :
           LET x == [p EXCEPT !.status = "voting", !.votingStart = n, !.votingEnd = e]
           IN  x \in Proposal /\ x.status = "voting" /\ x.votingEnd = e
    BY DEF Proposal, Statuses
  <1>2. q \in Proposal /\ q.status = "voting" /\ q.votingEnd = end /\ end \in Nat /\ p.depositEnd \in Nat
    BY <1>a, <1>b
  <1>3. I2 \subseteq Entries /\ A2 \subseteq Entries
    BY <1>2, EntryFacts
  <1>4. InQueues(id, q, I2, A2)
    <2>1. \A t \in Nat : Entry(id, t) \notin I2
      BY <1>2 DEF InQueues
    <2>2. \A t \in Nat : Entry(id, t) \in A2 <=> t = end
      BY <1>2, EntryFacts DEF InQueues
    <2> QED
      BY <1>2, <2>1, <2>2 DEF InQueues
  <1>5. OthersKept(id, I, I2) /\ OthersKept(id, A, A2)
    BY <1>2, EntryFacts DEF OthersKept
  <1>6. r.proposal = q /\ r.active = A2 /\ r.inactive = I2
    BY <1>1
  <1>7. r = [proposal |-> r.proposal, active |-> r.active, inactive |-> r.inactive]
    BY <1>1, <1>6
  <1>8. r.proposal = [p EXCEPT !.status = "voting", !.votingStart = now, !.votingEnd = now + votingPeriod]
    BY <1>6
  <1> HIDE DEF q, A2, I2
  <1> QED
    BY <1>2, <1>3, <1>4, <1>5, <1>6, <1>7, <1>8

\* The hook keeps the proposal in the queue of its status, at its new end.
LEMMA HookFacts ==
    ASSUME NEW id \in Ids, NEW p \in Proposal, NEW I \in SUBSET Entries, NEW A \in SUBSET Entries,
           tokenPairVotingPeriod \in Nat, InQueues(id, p, I, A),
           NEW r, r = AfterProposalDeposit(id, [proposal |-> p, active |-> A, inactive |-> I])
    PROVE  /\ r.proposal \in Proposal
           /\ r.proposal.status = p.status /\ r.proposal.content = p.content
           /\ r.proposal.totalDeposit = p.totalDeposit /\ r.proposal.votingStart = p.votingStart
           /\ r.proposal.votingEnd = IF OverridesVotingPeriod(p) THEN p.votingStart + tokenPairVotingPeriod
                                     ELSE p.votingEnd
           /\ r.inactive \subseteq Entries /\ r.active \subseteq Entries
           /\ InQueues(id, r.proposal, r.inactive, r.active)
           /\ OthersKept(id, I, r.inactive) /\ OthersKept(id, A, r.active)
  <1> DEFINE s == [proposal |-> p, active |-> A, inactive |-> I]
             end == p.votingStart + tokenPairVotingPeriod
             q == [p EXCEPT !.votingEnd = end]
             A2 == (A \ {Entry(id, p.votingEnd)}) \cup {Entry(id, end)}
  <1>1. CASE ~OverridesVotingPeriod(p)
    <2>1. r = s
      BY <1>1 DEF AfterProposalDeposit
    <2> QED
      BY <1>1, <2>1 DEF OthersKept
  <1>2. CASE OverridesVotingPeriod(p)
    <2>1. r = [proposal |-> q, active |-> A2, inactive |-> I]
      BY <1>2 DEF AfterProposalDeposit
    <2>2. /\ q \in Proposal /\ q.status = p.status /\ q.content = p.content /\ q.depositEnd = p.depositEnd
          /\ q.totalDeposit = p.totalDeposit /\ q.votingStart = p.votingStart /\ q.votingEnd = end
          /\ end \in Nat /\ p.votingEnd \in Nat
      BY DEF Proposal
    <2>3. p.status = "voting"
      BY <1>2 DEF OverridesVotingPeriod
    <2>4. A2 \subseteq Entries
      BY <2>2, EntryFacts
    <2>5. \A t \in Nat : Entry(id, t) \in A2 <=> t = end
      BY <2>2, <2>3, EntryFacts DEF InQueues
    <2>6. InQueues(id, q, I, A2)
      BY <2>2, <2>3, <2>5 DEF InQueues
    <2>7. OthersKept(id, I, I) /\ OthersKept(id, A, A2)
      BY <2>2, EntryFacts DEF OthersKept
    <2>8. r.proposal = q /\ r.active = A2 /\ r.inactive = I
      BY <2>1
    <2> HIDE DEF q, A2
    <2> QED
      BY <1>2, <2>2, <2>4, <2>6, <2>7, <2>8
  <1> QED
    BY <1>1, <1>2

\* What AddDeposit needs, and what it makes of a proposal and its queues.
ClockOK == now \in Nat \ {0} /\ votingPeriod \in Nat /\ tokenPairVotingPeriod \in Nat
Depositable(id, p, I, A) ==
    /\ p \in Proposal /\ I \subseteq Entries /\ A \subseteq Entries
    /\ p.status \in {"deposit", "voting"}
    /\ p.status = "voting" => p.votingStart # 0
    /\ InQueues(id, p, I, A)
Deposited(r, id, p, I, A, amount) ==
    /\ r.proposal.content = p.content
    /\ r.proposal.totalDeposit = p.totalDeposit + amount
    /\ Depositable(id, r.proposal, r.inactive, r.active)
    /\ OthersKept(id, I, r.inactive) /\ OthersKept(id, A, r.active)
    /\ p.status = "deposit" /\ r.proposal.status = "voting" /\ p.content.kind \in RegisterKinds =>
          r.proposal.votingEnd = r.proposal.votingStart + tokenPairVotingPeriod

\* AddDeposit, hook included: the deposit is added, the proposal stays open and
\* in the queue of its status, and no other proposal's entries are touched.
LEMMA AddDepositFacts ==
    ASSUME NEW id \in Ids, NEW p, NEW I, NEW A, NEW amount \in Nat, ClockOK, Depositable(id, p, I, A)
    PROVE  Deposited(AddDeposit(id, [proposal |-> p, active |-> A, inactive |-> I], amount), id, p, I, A, amount)
  <1> USE DEF ClockOK, Depositable
  <1> SUFFICES ASSUME NEW r, r = AddDeposit(id, [proposal |-> p, active |-> A, inactive |-> I], amount)
               PROVE  Deposited(r, id, p, I, A, amount)
    OBVIOUS
  <1> DEFINE d == [p EXCEPT !.totalDeposit = @ + amount]
             s == [proposal |-> d, active |-> A, inactive |-> I]
             activates == p.status = "deposit" /\ d.totalDeposit >= MinDeposit
  <1>1. /\ d \in Proposal /\ d.status = p.status /\ d.content = p.content /\ d.votingStart = p.votingStart
        /\ d.totalDeposit = p.totalDeposit + amount /\ d.depositEnd = p.depositEnd /\ d.votingEnd = p.votingEnd
    BY DEF Proposal
  <1>2. InQueues(id, d, I, A)
    BY <1>1 DEF InQueues
  <1>a. [[proposal |-> p, active |-> A, inactive |-> I] EXCEPT !.proposal.totalDeposit = @ + amount] = s
    OBVIOUS
  <1>3. r = AfterProposalDeposit(id, IF activates THEN ActivateVotingPeriod(id, s) ELSE s)
    BY <1>a, Zenon DEF AddDeposit
  <1>4. CASE ~activates
    <2>1. r = AfterProposalDeposit(id, [proposal |-> d, active |-> A, inactive |-> I])
      BY <1>3, <1>4
    <2> HIDE DEF d, s, activates
    <2>2. /\ r.proposal \in Proposal
          /\ r.proposal.status = d.status /\ r.proposal.content = d.content
          /\ r.proposal.totalDeposit = d.totalDeposit /\ r.proposal.votingStart = d.votingStart
          /\ r.proposal.votingEnd = IF OverridesVotingPeriod(d) THEN d.votingStart + tokenPairVotingPeriod
                                    ELSE d.votingEnd
          /\ r.inactive \subseteq Entries /\ r.active \subseteq Entries
          /\ InQueues(id, r.proposal, r.inactive, r.active)
          /\ OthersKept(id, I, r.inactive) /\ OthersKept(id, A, r.active)
      <3>1. I \in SUBSET Entries /\ A \in SUBSET Entries /\ tokenPairVotingPeriod \in Nat
        OBVIOUS
      <3> QED
        BY <1>1, <1>2, <2>1, <3>1, HookFacts, Zenon
    <2> QED
      BY <1>1, <2>2 DEF Deposited
  <1>5. CASE activates
    <2> DEFINE a == ActivateVotingPeriod(id, s)
    <2>1. r = AfterProposalDeposit(id, a)
      BY <1>3, <1>5
    <2>2. d.status = "deposit"
      BY <1>1, <1>5
    <2> HIDE DEF d, activates
    <2>3. /\ a = [proposal |-> a.proposal, active |-> a.active, inactive |-> a.inactive]
          /\ a.proposal = [d EXCEPT !.status = "voting", !.votingStart = now, !.votingEnd = now + votingPeriod]
          /\ a.proposal \in Proposal
          /\ a.inactive \subseteq Entries /\ a.active \subseteq Entries
          /\ InQueues(id, a.proposal, a.inactive, a.active)
          /\ OthersKept(id, I, a.inactive) /\ OthersKept(id, A, a.active)
      BY <1>1, <1>2, <2>2, ActivateFacts
    <2>4. /\ a.proposal.status = "voting" /\ a.proposal.votingStart = now
          /\ a.proposal.votingEnd = now + votingPeriod
          /\ a.proposal.content = d.content /\ a.proposal.totalDeposit = d.totalDeposit
      BY <1>1, <2>3 DEF Proposal
    <2> DEFINE q == a.proposal
               J == a.inactive
               B == a.active
    <2>5. r = AfterProposalDeposit(id, [proposal |-> q, active |-> B, inactive |-> J])
      BY <2>1, <2>3, Zenon
    <2>6. q \in Proposal /\ J \in SUBSET Entries /\ B \in SUBSET Entries /\ InQueues(id, q, J, B)
      BY <2>3
    <2>7. OthersKept(id, I, J) /\ OthersKept(id, A, B)
      BY <2>3
    <2>8. /\ q.status = "voting" /\ q.votingStart = now /\ q.votingEnd = now + votingPeriod
          /\ q.content = d.content /\ q.totalDeposit = d.totalDeposit
      BY <2>4
    <2> HIDE DEF a, q, J, B
    <2>9. /\ r.proposal \in Proposal
          /\ r.proposal.status = q.status /\ r.proposal.content = q.content
          /\ r.proposal.totalDeposit = q.totalDeposit /\ r.proposal.votingStart = q.votingStart
          /\ r.proposal.votingEnd = IF OverridesVotingPeriod(q) THEN q.votingStart + tokenPairVotingPeriod
                                    ELSE q.votingEnd
          /\ r.inactive \subseteq Entries /\ r.active \subseteq Entries
          /\ InQueues(id, r.proposal, r.inactive, r.active)
          /\ OthersKept(id, J, r.inactive) /\ OthersKept(id, B, r.active)
      BY <2>5, <2>6, HookFacts, Zenon
    <2>10. OthersKept(id, I, r.inactive) /\ OthersKept(id, A, r.active)
      BY <2>7, <2>9 DEF OthersKept
    <2>11. q.content.kind \in RegisterKinds =>
             r.proposal.votingEnd = r.proposal.votingStart + tokenPairVotingPeriod
      BY <2>8, <2>9 DEF OverridesVotingPeriod
    <2> QED
      BY <1>1, <2>8, <2>9, <2>10, <2>11 DEF Deposited
  <1> QED
    BY <1>4, <1>5
-----------------------------------------------------------------------------
(* The invariant holds at the start and each action preserves it.          *)

\* A proposal whose entries are untouched is queued as it was.
LEMMA OthersStay ==
    ASSUME NEW id \in Ids, NEW j \in Ids, j # id, NEW I, NEW A, NEW I2, NEW A2,
           OthersKept(id, I, I2), OthersKept(id, A, A2)
    PROVE  /\ \A p : InQueues(j, p, I, A) => InQueues(j, p, I2, A2)
           /\ NotQueued(j, I, A) => NotQueued(j, I2, A2)
  <1>1. \A t \in Nat : Entry(j, t) \in I2 <=> Entry(j, t) \in I
    BY EntryFacts DEF OthersKept
  <1>2. \A t \in Nat : Entry(j, t) \in A2 <=> Entry(j, t) \in A
    BY EntryFacts DEF OthersKept
  <1> QED
    BY <1>1, <1>2 DEF InQueues, NotQueued

\* Changing one proposal together with its own entries keeps all queued.
LEMMA QueuedChange ==
    ASSUME NEW id \in Ids, TypeOK, Queued, NEW p, p # Absent,
           proposals' = [proposals EXCEPT ![id] = p],
           InQueues(id, p, inactive', active'),
           OthersKept(id, inactive, inactive'), OthersKept(id, active, active')
    PROVE  Queued'
  <1>1. proposals'[id] = p /\ \A j \in Ids : j # id => proposals'[j] = proposals[j]
    BY DEF TypeOK
  <1>2. ASSUME NEW j \in Ids
        PROVE  IF Stored(j)' THEN InQueues(j, proposals'[j], inactive', active')
               ELSE NotQueued(j, inactive', active')
    <2>1. CASE j = id
      BY <1>1, <2>1 DEF Stored
    <2>2. CASE j # id
      <3>1. /\ \A q : InQueues(j, q, inactive, active) => InQueues(j, q, inactive', active')
            /\ NotQueued(j, inactive, active) => NotQueued(j, inactive', active')
        BY <2>2, OthersStay
      <3> QED
        BY <1>1, <2>2, <3>1 DEF Queued, Stored
    <2> QED
      BY <2>1, <2>2
  <1> QED
    BY <1>2 DEF Queued

\* The handler of a content that was tried out does not panic later.
LEMMA HandlerFacts ==
    ASSUME NEW content, NEW result \in {"ok", "error"}
    PROVE  /\ Handler(content, result) = "ok" => Safe(content)
           /\ Safe(content) => Handler(content, result) # "panic"
  <1>1. CASE content.kind \notin ModuleKinds
    BY <1>1 DEF Handler, Safe, ModuleKinds, RegisterKinds
  <1>2. CASE content.kind \in ModuleKinds /\ ~KeeperWired
    BY <1>2 DEF Handler, Safe
  <1>3. CASE content.kind \in ModuleKinds /\ KeeperWired /\ content.kind = "RegisterERC20" /\ result = "ok"
    BY <1>3 DEF Handler, Safe
  <1>4. CASE content.kind \in ModuleKinds /\ KeeperWired /\ ~(content.kind = "RegisterERC20" /\ result = "ok")
    BY <1>4 DEF Handler, Safe
  <1> QED
    BY <1>1, <1>2, <1>3, <1>4

\* A queued entry belongs to a stored proposal of that status.
LEMMA EntryOfProposal ==
    ASSUME TypeOK, Queued, NEW e \in Entries
    PROVE  /\ e.id \in Ids /\ e.time \in Nat /\ e = Entry(e.id, e.time)
           /\ e \in inactive => /\ Stored(e.id) /\ proposals[e.id] \in Proposal
                                /\ proposals[e.id].status = "deposit"
                                /\ e.time = proposals[e.id].depositEnd
           /\ e \in active => /\ Stored(e.id) /\ proposals[e.id] \in Proposal
                              /\ proposals[e.id].status = "voting"
                              /\ e.time = proposals[e.id].votingEnd
  <1>1. e.id \in Ids /\ e.time \in Nat /\ e = Entry(e.id, e.time)
    BY DEF Entry, Entries
  <1> QED
    BY <1>1 DEF TypeOK, Queued, InQueues, NotQueued, Stored

\* The initial state satisfies the invariant.
LEMMA InvInit == Init => Inv
  <1> SUFFICES ASSUME Init PROVE Inv
    OBVIOUS
  <1>1. TypeOK
    BY GovernanceAssumption DEF Init, TypeOK, Stored
  <1>2. Queued
    BY DEF Init, Queued, NotQueued, Stored
  <1> QED
    BY <1>1, <1>2 DEF Init, Inv, DepositsAccountedFor, NeverHalts, TodoQueued, Fresh, Accepted, Open, Stored

\* What RegistrationPeriod says of one step and one proposal.
OpensInTime(id) ==
    Opens(id) /\ proposals'[id].content.kind \in RegisterKinds => LastsTokenPairPeriod(id)

\* MsgSubmitProposal takes an unused id for a content that was tried out.
LEMMA InvSubmit ==
    ASSUME Inv, NEW content \in Contents, NEW amount \in 0..MaxDeposit, NEW result \in {"ok", "error"},
           SubmitProposal(content, amount, result)
    PROVE  /\ Inv' /\ proposals[nextID] = Absent /\ OpensInTime(nextID)
           /\ \A j \in Ids : j # nextID => proposals'[j] = proposals[j]
  <1> DEFINE id == nextID
             end == now + MaxDepositPeriod
             new == [content |-> content, status |-> "deposit", totalDeposit |-> 0,
                     depositEnd |-> end, votingStart |-> 0, votingEnd |-> 0]
             I == inactive \cup {Entry(id, end)}
             r == AddDeposit(id, [proposal |-> new, active |-> active, inactive |-> I], amount)
  <1>1. id \in Ids /\ nextID' = nextID + 1 /\ stage = "deliver"
        /\ UNCHANGED <<now, stage, todo, votingPeriod, tokenPairVotingPeriod>>
    BY DEF SubmitProposal, periods
  <1>2. Store(id, r) /\ deposits' = [deposits EXCEPT ![id] = @ + amount] /\ Safe(content)
    BY HandlerFacts DEF SubmitProposal
  <1>3. proposals[id] = Absent /\ nextID \in Nat
    BY <1>1 DEF Inv, Fresh, TypeOK
  <1>4. /\ now \in Nat \ {0} /\ votingPeriod \in Nat /\ tokenPairVotingPeriod \in Nat
        /\ amount \in Nat /\ end \in Nat /\ inactive \subseteq Entries /\ active \subseteq Entries
    BY GovernanceAssumption DEF Inv, TypeOK
  <1>5. new \in Proposal /\ I \in SUBSET Entries
    BY <1>1, <1>4, EntryFacts DEF Proposal, Statuses
  <1>6. NotQueued(id, inactive, active)
    BY <1>1, <1>3 DEF Inv, Queued, Stored
  <1>7. InQueues(id, new, I, active)
    BY <1>1, <1>4, <1>6, EntryFacts DEF InQueues, NotQueued
  <1>8. OthersKept(id, inactive, I)
    BY <1>1, <1>4, EntryFacts DEF OthersKept
  <1>9. new.status = "deposit" /\ new.content = content /\ new.totalDeposit = 0
    OBVIOUS
  <1>10. proposals' = [proposals EXCEPT ![id] = r.proposal] /\ inactive' = r.inactive /\ active' = r.active
    BY <1>2 DEF Store
  <1> HIDE DEF id, end, new, I
  <1>11. /\ r.proposal \in Proposal
         /\ r.proposal.status \in {"deposit", "voting"} /\ r.proposal.content = content
         /\ r.proposal.status = "voting" => r.proposal.votingStart # 0
         /\ r.proposal.totalDeposit = amount
         /\ r.proposal.status = "voting" /\ content.kind \in RegisterKinds =>
               r.proposal.votingEnd = r.proposal.votingStart + tokenPairVotingPeriod
         /\ r.inactive \subseteq Entries /\ r.active \subseteq Entries
         /\ InQueues(id, r.proposal, r.inactive, r.active)
         /\ OthersKept(id, I, r.inactive) /\ OthersKept(id, active, r.active)
    <2>1. Depositable(id, new, I, active) /\ ClockOK /\ amount \in Nat
      BY <1>4, <1>5, <1>7, <1>9 DEF Depositable, ClockOK
    <2>2. Deposited(r, id, new, I, active, amount)
      BY <1>1, <2>1, AddDepositFacts
    <2> HIDE DEF r
    <2> QED
      BY <1>4, <1>9, <2>2 DEF Deposited, Depositable
  <1> HIDE DEF r
  <1>12. r.proposal # Absent
    BY <1>11, GovernanceAssumption
  <1>13. proposals'[id] = r.proposal /\ \A j \in Ids : j # id => proposals'[j] = proposals[j]
    BY <1>1, <1>10 DEF Inv, TypeOK
  <1>14. TypeOK'
    <2>1. proposals' \in [Ids -> Proposal \cup {Absent}]
      BY <1>10, <1>11 DEF Inv, TypeOK
    <2>2. deposits' \in [Ids -> Nat]
      <3>1. deposits[id] + amount \in Nat
        BY <1>1, <1>4 DEF Inv, TypeOK
      <3> QED
        BY <1>2, <3>1 DEF Inv, TypeOK
    <2>3. \A j \in Ids : Stored(j)' /\ proposals'[j].status # "deposit" => proposals'[j].votingStart # 0
      BY <1>11, <1>13 DEF Inv, TypeOK, Stored
    <2> QED
      BY <1>1, <1>3, <1>10, <1>11, <2>1, <2>2, <2>3 DEF Inv, TypeOK, Stored
  <1>15. Queued'
    <2>1. OthersKept(id, inactive, inactive') /\ OthersKept(id, active, active')
      BY <1>8, <1>10, <1>11 DEF OthersKept
    <2>2. InQueues(id, r.proposal, inactive', active')
      BY <1>10, <1>11
    <2> QED
      BY <1>1, <1>10, <1>12, <2>1, <2>2, QueuedChange DEF Inv
  <1>16. DepositsAccountedFor'
    <2>1. deposits[id] = 0
      BY <1>1, <1>3 DEF Inv, DepositsAccountedFor, Open, Stored
    <2>2. deposits'[id] = amount /\ \A j \in Ids : j # id => deposits'[j] = deposits[j]
      BY <1>1, <1>2, <1>4, <2>1 DEF Inv, TypeOK
    <2> QED
      BY <1>11, <1>12, <1>13, <2>2 DEF Inv, DepositsAccountedFor, Open, Stored
  <1>17. NeverHalts' /\ TodoQueued'
    BY <1>1 DEF Inv, NeverHalts, TodoQueued
  <1>18. Fresh'
    BY <1>1, <1>3, <1>13, GovernanceAssumption DEF Inv, Fresh, id
  <1>19. Accepted'
    BY <1>2, <1>11, <1>13 DEF Inv, Accepted, Stored
  <1>20. OpensInTime(id)
    BY <1>11, <1>13 DEF OpensInTime, LastsTokenPairPeriod, Opens
  <1> QED
    BY <1>3, <1>13, <1>14, <1>15, <1>16, <1>17, <1>18, <1>19, <1>20 DEF Inv, id

\* MsgDeposit adds to an open proposal and changes no other.
LEMMA InvDeposit ==
    ASSUME Inv, NEW id \in Ids, NEW amount \in 0..MaxDeposit, Deposit(id, amount)
    PROVE  /\ Inv' /\ Open(id) /\ OpensInTime(id)
           /\ \A j \in Ids : j # id => proposals'[j] = proposals[j]
  <1> DEFINE p == proposals[id]
             r == AddDeposit(id, [proposal |-> p, active |-> active, inactive |-> inactive], amount)
  <1>1. /\ stage = "deliver" /\ p # Absent /\ p.status \in {"deposit", "voting"}
        /\ UNCHANGED <<now, stage, todo, nextID, votingPeriod, tokenPairVotingPeriod>>
        /\ deposits' = [deposits EXCEPT ![id] = @ + amount]
    BY DEF Deposit, periods
  <1>2. proposals' = [proposals EXCEPT ![id] = r.proposal] /\ inactive' = r.inactive /\ active' = r.active
    BY DEF Deposit, Store
  <1>3. amount \in Nat /\ ClockOK
    BY GovernanceAssumption DEF Inv, TypeOK, ClockOK
  <1>4. Depositable(id, p, inactive, active)
    BY <1>1 DEF Inv, TypeOK, Queued, Stored, Depositable
  <1>5. Deposited(r, id, p, inactive, active, amount)
    BY <1>3, <1>4, AddDepositFacts
  <1> HIDE DEF r
  <1>6. /\ r.proposal \in Proposal /\ r.proposal.content = p.content
        /\ r.proposal.totalDeposit = p.totalDeposit + amount
        /\ r.proposal.status \in {"deposit", "voting"}
        /\ r.proposal.status = "voting" => r.proposal.votingStart # 0
        /\ p.status = "deposit" /\ r.proposal.status = "voting" /\ p.content.kind \in RegisterKinds =>
              r.proposal.votingEnd = r.proposal.votingStart + tokenPairVotingPeriod
        /\ r.inactive \subseteq Entries /\ r.active \subseteq Entries
        /\ InQueues(id, r.proposal, inactive', active')
        /\ OthersKept(id, inactive, inactive') /\ OthersKept(id, active, active')
    BY <1>2, <1>5 DEF Deposited, Depositable
  <1>7. r.proposal # Absent
    BY <1>6, GovernanceAssumption
  <1>8. proposals'[id] = r.proposal /\ \A j \in Ids : j # id => proposals'[j] = proposals[j]
    BY <1>2 DEF Inv, TypeOK
  <1>9. TypeOK'
    <2>1. proposals' \in [Ids -> Proposal \cup {Absent}]
      BY <1>2, <1>6 DEF Inv, TypeOK
    <2>2. deposits' \in [Ids -> Nat]
      <3>1. deposits[id] + amount \in Nat
        BY <1>3 DEF Inv, TypeOK
      <3> QED
        BY <1>1, <3>1 DEF Inv, TypeOK
    <2>3. \A j \in Ids : Stored(j)' /\ proposals'[j].status # "deposit" => proposals'[j].votingStart # 0
      BY <1>6, <1>8 DEF Inv, TypeOK, Stored
    <2> QED
      BY <1>1, <1>2, <1>6, <2>1, <2>2, <2>3 DEF Inv, TypeOK, Stored
  <1>10. Queued'
    BY <1>2, <1>6, <1>7, QueuedChange DEF Inv
  <1>11. DepositsAccountedFor'
    <2>1. deposits[id] = p.totalDeposit /\ deposits[id] \in Nat
      BY <1>1 DEF Inv, TypeOK, DepositsAccountedFor, Open, Stored
    <2>2. deposits'[id] = r.proposal.totalDeposit /\ \A j \in Ids : j # id => deposits'[j] = deposits[j]
      BY <1>1, <1>6, <2>1 DEF Inv, TypeOK
    <2> QED
      BY <1>6, <1>7, <1>8, <2>2 DEF Inv, DepositsAccountedFor, Open, Stored
  <1>12. NeverHalts' /\ TodoQueued'
    BY <1>1 DEF Inv, NeverHalts, TodoQueued
  <1>13. Fresh'
    BY <1>1, <1>8 DEF Inv, Fresh
  <1>14. Accepted'
    BY <1>1, <1>6, <1>8 DEF Inv, Accepted, Stored
  <1>15. OpensInTime(id)
    BY <1>1, <1>6, <1>8 DEF OpensInTime, LastsTokenPairPeriod, Opens, Stored
  <1> QED
    BY <1>1, <1>8, <1>9, <1>10, <1>11, <1>12, <1>13, <1>14, <1>15 DEF Inv, Open, Stored

\* Dropping a proposal whose deposit period is over.
LEMMA InvDrop ==
    ASSUME Inv, DropInactive
    PROVE  Inv' /\ \E id \in Ids : Open(id) /\ \A j \in Ids : j # id => proposals'[j] = proposals[j]
  <1>1. stage = "inactive"
    BY DEF DropInactive
  <1>2. todo \subseteq inactive /\ todo \subseteq Entries
    BY <1>1 DEF Inv, TodoQueued, TypeOK
  <1>3. PICK e \in todo : IF proposals[e.id] = Absent THEN Halt
                          ELSE /\ todo' = todo \ {e}
                               /\ proposals' = [proposals EXCEPT ![e.id] = Absent]
                               /\ inactive' = inactive \ {Entry(e.id, proposals[e.id].depositEnd)}
                               /\ active' = active \ {Entry(e.id, proposals[e.id].votingEnd)}
                               /\ deposits' = [deposits EXCEPT ![e.id] = 0]
                               /\ UNCHANGED <<now, stage, nextID, periods>>
    BY DEF DropInactive
  <1> DEFINE id == e.id
             p == proposals[id]
  <1>4. /\ id \in Ids /\ e.time \in Nat /\ e = Entry(id, e.time) /\ Stored(id) /\ p \in Proposal
        /\ p.status = "deposit" /\ e.time = p.depositEnd
    BY <1>2, <1>3, EntryOfProposal DEF Inv
  <1>5. /\ todo' = todo \ {e} /\ proposals' = [proposals EXCEPT ![id] = Absent]
        /\ inactive' = inactive \ {e} /\ active' = active \ {Entry(id, p.votingEnd)}
        /\ deposits' = [deposits EXCEPT ![id] = 0]
        /\ UNCHANGED <<now, stage, nextID, votingPeriod, tokenPairVotingPeriod>>
    BY <1>3, <1>4 DEF Stored, periods
  <1>6. p.votingEnd \in Nat /\ Entry(id, p.votingEnd) \in Entries
    BY <1>4, EntryFacts DEF Proposal
  <1>7. proposals'[id] = Absent /\ \A j \in Ids : j # id => proposals'[j] = proposals[j]
    BY <1>4, <1>5 DEF Inv, TypeOK
  <1>8. deposits'[id] = 0 /\ \A j \in Ids : j # id => deposits'[j] = deposits[j]
    BY <1>4, <1>5 DEF Inv, TypeOK
  <1>9. NotQueued(id, inactive', active')
    BY <1>4, <1>5 DEF Inv, Queued, InQueues, NotQueued
  <1>10. OthersKept(id, inactive, inactive') /\ OthersKept(id, active, active')
    BY <1>4, <1>5, <1>6, EntryFacts DEF OthersKept
  <1>11. Open(id)
    BY <1>4 DEF Open
  <1> HIDE DEF id, p
  <1>12. TypeOK'
    BY <1>4, <1>5, <1>7 DEF Inv, TypeOK, Stored
  <1>13. Queued'
    <2>1. ASSUME NEW j \in Ids
          PROVE  IF Stored(j)' THEN InQueues(j, proposals'[j], inactive', active')
                 ELSE NotQueued(j, inactive', active')
      <3>1. CASE j = id
        BY <1>7, <1>9, <3>1 DEF Stored
      <3>2. CASE j # id
        <4>1. /\ \A q : InQueues(j, q, inactive, active) => InQueues(j, q, inactive', active')
              /\ NotQueued(j, inactive, active) => NotQueued(j, inactive', active')
          BY <1>4, <1>10, <3>2, OthersStay
        <4> QED
          BY <1>7, <3>2, <4>1 DEF Inv, Queued, Stored
      <3> QED
        BY <3>1, <3>2
    <2> QED
      BY <2>1 DEF Queued
  <1>14. DepositsAccountedFor'
    BY <1>7, <1>8 DEF Inv, DepositsAccountedFor, Open, Stored
  <1>15. NeverHalts' /\ TodoQueued'
    BY <1>1, <1>2, <1>5 DEF Inv, NeverHalts, TodoQueued
  <1>16. Fresh' /\ Accepted'
    BY <1>5, <1>7 DEF Inv, Fresh, Accepted, Stored
  <1> QED
    BY <1>4, <1>7, <1>11, <1>12, <1>13, <1>14, <1>15, <1>16 DEF Inv

\* Tallying a vote that is over.
LEMMA InvTally ==
    ASSUME Inv, NEW passes \in BOOLEAN, NEW result \in {"ok", "error"}, TallyActive(passes, result)
    PROVE  Inv' /\ \E id \in Ids : Open(id) /\ \A j \in Ids : j # id => proposals'[j] = proposals[j]
  <1> DEFINE Outcome(id) == Handler(proposals[id].content, result)
             Status(id) == IF ~passes THEN "rejected" ELSE IF Outcome(id) = "ok" THEN "passed" ELSE "failed"
  <1>1. stage = "active"
    BY DEF TallyActive
  <1>2. todo \subseteq active /\ todo \subseteq Entries
    BY <1>1 DEF Inv, TodoQueued, TypeOK
  <1>3. PICK e \in todo : IF proposals[e.id] = Absent \/ (passes /\ Outcome(e.id) = "panic") THEN Halt
                          ELSE /\ proposals' = [proposals EXCEPT ![e.id].status = Status(e.id)]
                               /\ IF Status(e.id) = "passed" THEN Executed(proposals[e.id].content)
                                                            ELSE UNCHANGED periods
                               /\ active' = active \ {Entry(e.id, proposals[e.id].votingEnd)}
                               /\ deposits' = [deposits EXCEPT ![e.id] = 0]
                               /\ todo' = todo \ {e}
                               /\ UNCHANGED <<now, stage, nextID, inactive>>
    BY DEF TallyActive
  <1> DEFINE id == e.id
             p == proposals[id]
             q == [p EXCEPT !.status = Status(id)]
  <1>4. /\ id \in Ids /\ e.time \in Nat /\ e = Entry(id, e.time) /\ Stored(id) /\ p \in Proposal
        /\ p.status = "voting" /\ e.time = p.votingEnd
    BY <1>2, <1>3, EntryOfProposal DEF Inv
  <1>5. Outcome(id) # "panic" /\ p # Absent
    <2>1. Safe(p.content)
      BY <1>4 DEF Inv, Accepted
    <2> QED
      BY <1>4, <2>1, HandlerFacts DEF Stored
  <1>6. /\ proposals' = [proposals EXCEPT ![id].status = Status(id)]
        /\ IF Status(id) = "passed" THEN Executed(p.content) ELSE UNCHANGED periods
        /\ active' = active \ {e} /\ deposits' = [deposits EXCEPT ![id] = 0] /\ todo' = todo \ {e}
        /\ UNCHANGED <<now, stage, nextID, inactive>>
    BY <1>3, <1>4, <1>5
  <1>7. Status(id) \in {"passed", "rejected", "failed"}
    OBVIOUS
  <1>8. votingPeriod' \in Periods /\ tokenPairVotingPeriod' \in Periods
    <2>1. p.content \in Contents
      BY <1>4 DEF Proposal
    <2>2. p.content.kind \in {"VotingPeriod", "TokenPairVotingPeriod"} => p.content.value \in Periods
      BY <2>1 DEF Contents, ParameterChanges, ModuleKinds, RegisterKinds
    <2>3. votingPeriod \in Periods /\ tokenPairVotingPeriod \in Periods
      BY DEF Inv, TypeOK
    <2>4. CASE Status(id) = "passed"
      BY <1>6, <2>2, <2>3, <2>4 DEF Executed
    <2>5. CASE Status(id) # "passed"
      BY <1>6, <2>3, <2>5 DEF periods
    <2> QED
      BY <2>4, <2>5
  <1> HIDE DEF Status
  <1>9. q \in Proposal /\ q.status = Status(id) /\ q.content = p.content /\ q.votingStart = p.votingStart
    BY <1>4, <1>7 DEF Proposal, Statuses
  <1>10. proposals' = [proposals EXCEPT ![id] = q]
    BY <1>4, <1>6 DEF Inv, TypeOK
  <1>11. Open(id) /\ p.votingStart # 0
    BY <1>4 DEF Inv, TypeOK, Open
  <1>12. InQueues(id, q, inactive', active')
    BY <1>4, <1>6, <1>7, <1>9 DEF Inv, Queued, InQueues
  <1>13. OthersKept(id, inactive, inactive') /\ OthersKept(id, active, active')
    BY <1>4, <1>6, EntryFacts DEF OthersKept
  <1> HIDE DEF id, p, q
  <1>14. q # Absent
    BY <1>9, GovernanceAssumption
  <1>15. proposals'[id] = q /\ \A j \in Ids : j # id => proposals'[j] = proposals[j]
    BY <1>4, <1>10 DEF Inv, TypeOK
  <1>16. deposits'[id] = 0 /\ \A j \in Ids : j # id => deposits'[j] = deposits[j]
    BY <1>4, <1>6 DEF Inv, TypeOK
  <1>17. TypeOK'
    <2>1. proposals' \in [Ids -> Proposal \cup {Absent}]
      BY <1>9, <1>10 DEF Inv, TypeOK
    <2>2. \A j \in Ids : Stored(j)' /\ proposals'[j].status # "deposit" => proposals'[j].votingStart # 0
      BY <1>9, <1>11, <1>15 DEF Inv, TypeOK, Stored
    <2>3. deposits' \in [Ids -> Nat]
      BY <1>6 DEF Inv, TypeOK
    <2> QED
      BY <1>6, <1>8, <2>1, <2>2, <2>3 DEF Inv, TypeOK, Stored
  <1>18. Queued'
    BY <1>4, <1>10, <1>12, <1>13, <1>14, QueuedChange DEF Inv
  <1>19. DepositsAccountedFor'
    BY <1>7, <1>9, <1>15, <1>16 DEF Inv, DepositsAccountedFor, Open, Stored
  <1>20. NeverHalts' /\ TodoQueued'
    BY <1>1, <1>2, <1>6 DEF Inv, NeverHalts, TodoQueued
  <1>21. Fresh'
    BY <1>4, <1>6, <1>15 DEF Inv, Fresh, Stored, id
  <1>22. Accepted'
    BY <1>4, <1>9, <1>15 DEF Inv, Accepted, Stored, p
  <1> QED
    BY <1>4, <1>11, <1>15, <1>17, <1>18, <1>19, <1>20, <1>21, <1>22 DEF Inv

\* The steps between the loops of the EndBlocker and between blocks.
LEMMA InvBlockSteps ==
    ASSUME Inv, EndBlockerStarts \/ InactiveLoopEnds \/ \E gap \in 1..MaxGap : NextBlock(gap)
    PROVE  Inv' /\ proposals' = proposals
  <1>1. /\ UNCHANGED <<nextID, proposals, inactive, active, deposits, votingPeriod, tokenPairVotingPeriod>>
        /\ stage' \in {"deliver", "inactive", "active"}
    BY DEF EndBlockerStarts, InactiveLoopEnds, NextBlock, queues, periods
  <1>2. now' \in Nat \ {0}
    <2>1. MaxTime \in Nat \ {0}
      BY GovernanceAssumption, RoomAssumption DEF Inv, TypeOK
    <2> QED
      BY <2>1, GovernanceAssumption DEF Inv, TypeOK, EndBlockerStarts, InactiveLoopEnds, NextBlock
  <1>3. TodoQueued' /\ todo' \subseteq Entries
    BY DEF Inv, TypeOK, TodoQueued, EndBlockerStarts, InactiveLoopEnds, NextBlock, queues, Due
  <1>4. TypeOK'
    BY <1>1, <1>2, <1>3 DEF Inv, TypeOK, Stored
  <1> QED
    BY <1>1, <1>3, <1>4 DEF Inv, Queued, InQueues, NotQueued, Stored, Open, DepositsAccountedFor,
                            NeverHalts, Fresh, Accepted

\* Dropping and tallying open no vote.
LEMMA EndBlockerOpensNone ==
    ASSUME Inv, DropInactive \/ \E passes \in BOOLEAN, result \in {"ok", "error"} : TallyActive(passes, result),
           NEW id \in Ids
    PROVE  OpensInTime(id)
  <1>1. CASE DropInactive
    <2>1. PICK e \in todo : \/ proposals' = proposals
                            \/ proposals' = [proposals EXCEPT ![e.id] = Absent]
      BY <1>1 DEF DropInactive, Halt
    <2> QED
      BY <2>1 DEF OpensInTime, Opens, Stored, Inv, TypeOK
  <1>2. CASE \E passes \in BOOLEAN, result \in {"ok", "error"} : TallyActive(passes, result)
    <2>1. PICK e \in todo, status \in {"rejected", "passed", "failed"} :
            \/ proposals' = proposals
            \/ proposals[e.id] # Absent /\ proposals' = [proposals EXCEPT ![e.id].status = status]
      BY <1>2 DEF TallyActive, Halt
    <2>2. e.id \in Ids
      BY DEF Inv, TypeOK, Entries
    <2>3. CASE proposals' = proposals
      BY <2>3 DEF OpensInTime, Opens, Stored
    <2>4. CASE proposals' = [proposals EXCEPT ![e.id].status = status] /\ proposals[e.id] # Absent
      <3>1. proposals[e.id] \in Proposal
        BY <2>2, <2>4 DEF Inv, TypeOK
      <3>2. id # e.id => proposals'[id] = proposals[id]
        BY <2>4 DEF Inv, TypeOK
      <3>3. id = e.id => proposals'[id].status = status
        BY <2>2, <2>4, <3>1 DEF Inv, TypeOK, Proposal
      <3> QED
        BY <3>2, <3>3 DEF OpensInTime, Opens, Stored
    <2> QED
      BY <2>1, <2>3, <2>4
  <1> QED
    BY <1>1, <1>2

\* A step changes at most one proposal, and one that is open or new.
ChangesOpenOnly ==
    \/ proposals' = proposals
    \/ \E id \in Ids : /\ ~Stored(id) \/ Open(id)
                       /\ \A j \in Ids : j # id => proposals'[j] = proposals[j]

\* Every step preserves the invariant and leaves decided proposals alone.
LEMMA InvNext == Inv /\ [Next]_vars => Inv' /\ ChangesOpenOnly
  <1> SUFFICES ASSUME Inv, [Next]_vars PROVE Inv' /\ ChangesOpenOnly
    OBVIOUS
  <1>1. CASE UNCHANGED vars
    <2>1. UNCHANGED <<now, stage, todo, nextID, proposals, inactive, active, deposits,
                      votingPeriod, tokenPairVotingPeriod>>
      BY <1>1 DEF vars, queues, periods
    <2> QED
      BY <2>1 DEF Inv, TypeOK, Queued, InQueues, NotQueued, Stored, Open, DepositsAccountedFor, NeverHalts,
                  TodoQueued, Fresh, Accepted, ChangesOpenOnly
  <1>2. ASSUME NEW content \in Contents, NEW amount \in 0..MaxDeposit, NEW result \in {"ok", "error"},
               SubmitProposal(content, amount, result)
        PROVE  Inv' /\ ChangesOpenOnly
    <2>1. nextID \in Ids
      BY <1>2 DEF SubmitProposal
    <2> QED
      BY <1>2, <2>1, InvSubmit DEF ChangesOpenOnly, Stored
  <1>3. ASSUME NEW id \in Ids, NEW amount \in 0..MaxDeposit, Deposit(id, amount)
        PROVE  Inv' /\ ChangesOpenOnly
    BY <1>3, InvDeposit DEF ChangesOpenOnly
  <1>4. CASE DropInactive
    BY <1>4, InvDrop DEF ChangesOpenOnly
  <1>5. ASSUME NEW passes \in BOOLEAN, NEW result \in {"ok", "error"}, TallyActive(passes, result)
        PROVE  Inv' /\ ChangesOpenOnly
    BY <1>5, InvTally DEF ChangesOpenOnly
  <1>6. CASE EndBlockerStarts \/ InactiveLoopEnds \/ \E gap \in 1..MaxGap : NextBlock(gap)
    BY <1>6, InvBlockSteps DEF ChangesOpenOnly
  <1> QED
    BY <1>1, <1>2, <1>3, <1>4, <1>5, <1>6 DEF Next, Block

\* The inductive invariant holds throughout.
LEMMA InvHolds == Spec => []Inv
  BY InvInit, InvNext, PTL DEF Spec
-----------------------------------------------------------------------------
(* The theorems.                                                           *)

\* Proposals, queues and parameters always have their types, and a proposal that
\* has left the deposit period has a voting start.
THEOREM TypeCorrect == Spec => []TypeOK
  <1>1. Inv => TypeOK
    BY DEF Inv
  <1> QED
    BY <1>1, InvHolds, PTL

\* Whatever deposits move the end of a vote and whatever parameter changes pass
\* in between, the two queues hold each open proposal once, at its own end time.
THEOREM QueuesAlwaysConsistent == Spec => []QueueConsistent
  <1>1. Inv => QueueConsistent
    BY QueuedIsConsistent DEF Inv
  <1> QED
    BY <1>1, InvHolds, PTL

\* The deposits kept for a proposal are its total until it is decided or dropped,
\* although AddDeposit and the hook each store a copy of the proposal.
THEOREM DepositsAlwaysAccountedFor == Spec => []DepositsAccountedFor
  <1>1. Inv => DepositsAccountedFor
    BY DEF Inv
  <1> QED
    BY <1>1, InvHolds, PTL

\* The EndBlocker finds every proposal it looks up and runs no handler that
\* panics: the trial run at submission keeps those out.
THEOREM EndBlockerNeverHalts == Spec => []NeverHalts
  <1>1. Inv => NeverHalts
    BY DEF Inv
  <1> QED
    BY <1>1, InvHolds, PTL

\* A proposal that passed, failed or was rejected is never changed again.
THEOREM DecisionsStand == Spec => DecidedOnce
  <1>1. Inv /\ [Next]_vars =>
           [\A id \in Ids : Stored(id) /\ ~Open(id) => proposals'[id] = proposals[id]]_vars
    BY InvNext DEF ChangesOpenOnly
  <1> QED
    BY <1>1, InvHolds, PTL DEF Spec, DecidedOnce

\* However a vote on a registration is opened, by the submission or by a later
\* deposit and whatever the two periods are then, it opens with the period of
\* the module: the hook sees the proposal that AddDeposit has just activated.
THEOREM RegistrationsGetTheirPeriod == Spec => RegistrationPeriod
  <1>1. Inv /\ [Next]_vars => \A id \in Ids : OpensInTime(id)
    <2> SUFFICES ASSUME Inv, [Next]_vars, NEW id \in Ids PROVE OpensInTime(id)
      OBVIOUS
    <2>1. CASE proposals'[id] = proposals[id]
      BY <2>1 DEF OpensInTime, Opens, Stored
    <2>2. ASSUME NEW content \in Contents, NEW amount \in 0..MaxDeposit, NEW result \in {"ok", "error"},
                 SubmitProposal(content, amount, result)
          PROVE  OpensInTime(id)
      BY <2>1, <2>2, InvSubmit
    <2>3. ASSUME NEW i \in Ids, NEW amount \in 0..MaxDeposit, Deposit(i, amount)
          PROVE  OpensInTime(id)
      BY <2>1, <2>3, InvDeposit
    <2>4. CASE DropInactive \/ \E passes \in BOOLEAN, result \in {"ok", "error"} : TallyActive(passes, result)
      BY <2>4, EndBlockerOpensNone
    <2> QED
      BY <2>1, <2>2, <2>3, <2>4 DEF Next, Block, EndBlockerStarts, InactiveLoopEnds, NextBlock, vars
  <1> QED
    BY <1>1, InvHolds, PTL DEF Spec, RegistrationPeriod, OpensInTime

\* What governance can be asked about, once the trial run at submission has let
\* it pass.
NoneFromModule == \A id \in Ids : Stored(id) => proposals[id].content.kind \notin ModuleKinds
NoERC20Registration == \A id \in Ids : Stored(id) => proposals[id].content.kind # "RegisterERC20"

\* With the keeper as app.go hands it over, before it is built, no proposal of
\* the module is ever stored: nothing can be registered, toggled or updated.
THEOREM NoModuleProposalUnwired ==
    ASSUME ~KeeperWired
    PROVE  Spec => []NoneFromModule
  <1>1. Inv => NoneFromModule
    BY DEF Inv, Accepted, Safe, NoneFromModule
  <1> QED
    BY <1>1, InvHolds, PTL

\* With any keeper no registration of an ERC20 contract is ever stored, since its
\* handler panics on the pair that RegisterERC20 does not return.
THEOREM NoERC20RegistrationStored == Spec => []NoERC20Registration
  <1>1. Inv => NoERC20Registration
    BY DEF Inv, Accepted, Safe, NoERC20Registration, ModuleKinds, RegisterKinds
  <1> QED
    BY <1>1, InvHolds, PTL
=============================================================================
