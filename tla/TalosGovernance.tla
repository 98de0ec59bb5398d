-------------------------- MODULE TalosGovernance --------------------------
(***************************************************************************)
(* The governance contract, contracts/talos_governance/src/lib.rs, with    *)
(* the pause domains of contracts/pause_control and, of the registry, the  *)
(* two calls an executed proposal makes.                                   *)
(*                                                                         *)
(* Every entry point is one atomic action; a panic rolls the call back, so *)
(* it is a guard.  `ledger' is the ledger sequence and also the timestamp  *)
(* of the pause expiries.  Titles and descriptions are left out.           *)
(***************************************************************************)
EXTENDS Integers, Sequences, FiniteSets, Sums

CONSTANTS
  Accounts,        \* token holders, proposers and admins
  NoAccount,       \* an absent address
  Taloses,         \* talos_id values known to the registry
  Balances,        \* new_balance arguments of update_voting_power
  Cached,          \* balance arguments of cache_token_balance
  CachedLedgers,   \* ledger arguments of cache_token_balance
  Delegators,      \* accounts that call delegate
  Governable,      \* Taloses whose creator makes this contract the controller
  InitConfigs,     \* configs initialize may store
  Configs,         \* config arguments of update_config
  Actions,         \* actions a proposal may carry
  Pausable,        \* domain_id arguments of pause_domain
  PauseDurations,  \* duration arguments of pause_domain (0: no expiry)
  DefaultOffset,   \* DEFAULT_SNAPSHOT_OFFSET_LEDGERS
  MaxOffset,       \* MAX_SNAPSHOT_OFFSET_LEDGERS
  MaxProposals,    \* bound: proposals created
  MaxLedger,       \* bound: the ledger sequence
  MaxTransfers     \* bound: admin proposals

NoOffset == -1                    \* snapshot_offset_ledgers: None
NoBps == -1                       \* quorum_bps: None
Config == [quorum : Int, consensus : Int, period : Nat,
           offset : Nat \cup {NoOffset}, bps : Nat \cup {NoBps}]
NoConfig == [quorum |-> 0, consensus |-> 0, period |-> 0, offset |-> NoOffset, bps |-> NoBps]
Action == [kind : {"none", "pause", "resume", "config"}, talos : Taloses,
           quorum : Int, consensus : Int, period : Nat]

ASSUME AccountAssumption ==
  NoAccount \notin Accounts /\ Delegators \subseteq Accounts /\ IsFiniteSet(Accounts)
\* create_proposal makes proposals that carry no action.
ASSUME ActionAssumption == \E x \in Actions : x.kind = "none"
ASSUME InputAssumption ==
  /\ Balances \subseteq Int /\ Cached \subseteq Nat /\ CachedLedgers \subseteq 0..MaxLedger
  /\ PauseDurations \subseteq Nat
  /\ Pausable \subseteq {"creation", "voting", "config"} /\ Governable \subseteq Taloses
  /\ InitConfigs \subseteq Config /\ Configs \subseteq Config /\ Actions \subseteq Action
ASSUME BoundAssumption ==
  /\ DefaultOffset \in Nat /\ MaxOffset \in Nat
  /\ MaxProposals \in Nat /\ MaxLedger \in Nat \ {0} /\ MaxTransfers \in Nat

VARIABLES
  admin, pendingAdmin, config,
  registrySet,     \* is RegistryContract configured?
  proposal,        \* proposal[i]: Proposal(i)
  vote,            \* vote[i][a]: Vote(i, a)
  checkpoint,      \* checkpoint[a]: the Checkpoint(a, _) entries, oldest first
  supply,          \* the TotalSupplyCheckpoint entries, oldest first
  cached,          \* cached[l][a]: TokenBalanceSnapshot(l, a)
  delegation,      \* delegation[a]: Delegation(a)
  quorumReached,   \* proposals with a QuorumReached sentinel
  pause,           \* pause[d]: PauseStatus(d)
  active,          \* external: active[t] in the registry
  controller,      \* external: is this contract the controller of t?
  ledger,
  dispatched,      \* history: dispatched[i], how often i's action was carried out
  transfers        \* counter for the bound

vars == <<admin, pendingAdmin, config, registrySet, proposal, vote, checkpoint, supply, cached,
          delegation, quorumReached, pause, active, controller, ledger, dispatched,
          transfers>>
adminVars == <<admin, pendingAdmin, transfers>>
powerVars == <<checkpoint, supply, cached, delegation>>
ballotVars == <<proposal, vote, quorumReached, dispatched>>
registryVars == <<registrySet, active, controller>>

ProposalIds == 1..MaxProposals
Ledgers == 0..MaxLedger
Domains == {"creation", "voting", "config"}
Statuses == {"absent", "Active", "Approved", "Rejected", "Executed", "Cancelled"}
VoteChoices == {"Approve", "Reject"}
Proposal == [status : Statuses, proposer : Accounts \cup {NoAccount}, snapshot : Nat, end : Nat,
             yes : Int, no : Int, voters : Nat, action : Actions]
NoProposal == [status |-> "absent", proposer |-> NoAccount, snapshot |-> 0, end |-> 0,
               yes |-> 0, no |-> 0, voters |-> 0, action |-> CHOOSE x \in Actions : x.kind = "none"]
Vote == [choice : VoteChoices \cup {"none"}, weight : Int]
NoVote == [choice |-> "none", weight |-> 0]
Checkpoint == [ledger : Nat, votes : Int]
NotPaused == [paused |-> FALSE, expires |-> 0]

Init ==
  /\ admin = NoAccount /\ pendingAdmin = NoAccount /\ config = NoConfig
  /\ registrySet = FALSE
  /\ proposal = [i \in ProposalIds |-> NoProposal]
  /\ vote = [i \in ProposalIds |-> [a \in Accounts |-> NoVote]]
  /\ checkpoint = [a \in Accounts |-> <<>>]
  /\ supply = <<>>
  /\ cached = [l \in Ledgers |-> [a \in Accounts |-> 0]]
  /\ delegation = [a \in Accounts |-> a]
  /\ quorumReached = {}
  /\ pause = [d \in Domains |-> NotPaused]
  /\ active = [t \in Taloses |-> TRUE]
  /\ controller = [t \in Taloses |-> FALSE]
  /\ ledger = 1
  /\ dispatched = [i \in ProposalIds |-> 0]
  /\ transfers = 0

-----------------------------------------------------------------------------
(* pause_control: a check lets an elapsed pause expire and stores that.    *)

Elapsed(d) == pause[d].paused /\ pause[d].expires # 0 /\ ledger >= pause[d].expires
CheckNotPaused(d) ==
  /\ pause[d].paused => Elapsed(d)
  /\ pause' = [pause EXCEPT ![d] = IF pause[d].paused THEN NotPaused ELSE pause[d]]

RequireAdmin(a) == admin # NoAccount /\ a = admin

PauseDomain(d, n) ==
  /\ admin # NoAccount
  /\ pause' = [pause EXCEPT ![d] = [paused |-> TRUE, expires |-> IF n = 0 THEN 0 ELSE ledger + n]]
  /\ UNCHANGED <<adminVars, config, powerVars, ballotVars, registryVars, ledger>>

UnpauseDomain(d) ==
  /\ admin # NoAccount
  /\ pause[d].paused
  /\ pause' = [pause EXCEPT ![d] = NotPaused]
  /\ UNCHANGED <<adminVars, config, powerVars, ballotVars, registryVars, ledger>>

-----------------------------------------------------------------------------
(* Voting power.                                                           *)

\* The binary search of get_past_votes and get_past_total_supply over the
\* checkpoints ck, called when ck[1].ledger <= l < ck[Len(ck)].ledger.  The
\* window w is <<low, high>>, one more than the code's indices.
BinarySearch(ck, l) ==
  LET search[w \in (1..Len(ck)) \X (1..Len(ck))] ==
        LET mid == w[2] - (w[2] - w[1]) \div 2
        IN IF w[1] >= w[2] THEN ck[w[1]].votes
           ELSE IF ck[mid].ledger = l THEN ck[mid].votes
           ELSE IF ck[mid].ledger < l THEN search[<<mid, w[2]>>]
           ELSE search[<<w[1], mid - 1>>]
  IN search[<<1, Len(ck)>>]

LookUpStrict(ck, l, other) ==
  IF ck = <<>> THEN other
  ELSE IF ck[Len(ck)].ledger <= l THEN ck[Len(ck)].votes
  ELSE IF ck[1].ledger >= l THEN other
  ELSE BinarySearch(ck, l)

\* Votes recorded at or before l, or `other' if there are none.
LookUp(ck, l, other) ==
  IF ck = <<>> THEN other
  ELSE IF ck[Len(ck)].ledger <= l THEN ck[Len(ck)].votes
  ELSE IF ck[1].ledger > l THEN other
  ELSE BinarySearch(ck, l)

GetPastVotes(a, l) == LookUp(checkpoint[a], l, cached[l][a])
GetPastTotalSupply(l) == LookUp(supply, l, 0)
GetVoteWeight(l, voter) == GetPastVotes(delegation[voter], l)

RecordInPlace(ck, votes) ==
  IF ck = <<>> THEN <<[ledger |-> ledger, votes |-> votes]>>
  ELSE [ck EXCEPT ![Len(ck)].votes = votes]
\* A second write in one ledger replaces the checkpoint of that ledger.
Record(ck, votes) ==
  IF ck # <<>> /\ ck[Len(ck)].ledger = ledger
  THEN [ck EXCEPT ![Len(ck)] = [ledger |-> ledger, votes |-> votes]]
  ELSE Append(ck, [ledger |-> ledger, votes |-> votes])
Latest(ck) == IF ck = <<>> THEN 0 ELSE ck[Len(ck)].votes

UpdateAddsBalance(caller, a, n) ==
  /\ RequireAdmin(caller) /\ CheckNotPaused("config")
  /\ checkpoint' = [checkpoint EXCEPT ![a] = Record(checkpoint[a], n)]
  /\ supply' = Record(supply, Latest(supply) + n)
  /\ UNCHANGED <<adminVars, config, cached, delegation, ballotVars, registryVars, ledger>>

UpdateVotingPower(caller, a, n) ==
  /\ RequireAdmin(caller) /\ CheckNotPaused("config")
  /\ checkpoint' = [checkpoint EXCEPT ![a] = Record(checkpoint[a], n)]
  /\ supply' = Record(supply, Latest(supply) + (n - Latest(checkpoint[a])))
  /\ UNCHANGED <<adminVars, config, cached, delegation, ballotVars, registryVars, ledger>>

CacheTokenBalance(caller, l, a, n) ==
  /\ RequireAdmin(caller) /\ CheckNotPaused("config")
  /\ n >= 0
  /\ cached' = [cached EXCEPT ![l][a] = n]
  /\ UNCHANGED <<adminVars, config, checkpoint, supply, delegation, ballotVars, registryVars, ledger>>

Delegate(a, to) ==
  /\ CheckNotPaused("config")
  /\ delegation' = [delegation EXCEPT ![a] = to]
  /\ UNCHANGED <<adminVars, config, checkpoint, supply, cached, ballotVars, registryVars, ledger>>

-----------------------------------------------------------------------------
(* Thresholds and the decision.                                            *)

ComputeQuorumThreshold(c, l) ==
  IF c.bps = NoBps THEN c.quorum
  ELSE IF GetPastTotalSupply(l) <= 0 THEN 0
  ELSE (GetPastTotalSupply(l) * c.bps + 9999) \div 10000

QuorumMet(p) == p.yes + p.no >= ComputeQuorumThreshold(config, p.snapshot)

\* finalize_status divides by the votes cast when the quorum is met.
DecisionDefined(p) == QuorumMet(p) => p.yes + p.no # 0
Decision(p) ==
  IF QuorumMet(p) /\ (p.yes * 10000) \div (p.yes + p.no) >= config.consensus
  THEN "Approved" ELSE "Rejected"

-----------------------------------------------------------------------------
(* Proposals.                                                              *)

\* Mutant: a threshold of nothing is accepted.
BasisPointsOrZero == 0..10000

\* The thresholds that a configuration may ask for.
BasisPoints == 1..10000

Initialize(a, c) ==
  /\ admin = NoAccount
  /\ c.quorum > 0 /\ c.consensus \in BasisPoints /\ c.period > 0
  /\ admin' = a
  /\ config' = [c EXCEPT !.offset = NoOffset, !.bps = NoBps]
  /\ UNCHANGED <<pendingAdmin, transfers, powerVars, ballotVars, registryVars, pause, ledger>>

Snapshot == LET o == IF config.offset = NoOffset THEN DefaultOffset ELSE config.offset
            IN IF ledger > o THEN ledger - o ELSE 0

NewProposal(a, act) ==
  [status |-> "Active", proposer |-> a, snapshot |-> Snapshot, end |-> ledger + config.period,
   yes |-> 0, no |-> 0, voters |-> 0, action |-> act]

\* create_proposal (action "none") and create_proposal_with_action.
CreateProposal(a, t, act) ==
  \E i \in ProposalIds :
    /\ CheckNotPaused("creation")
    /\ registrySet => active[t]
    /\ config # NoConfig
    /\ proposal[i].status = "absent" /\ \A k \in 1..(i - 1) : proposal[k].status # "absent"
    /\ proposal' = [proposal EXCEPT ![i] = NewProposal(a, act)]
    /\ UNCHANGED <<adminVars, config, powerVars, vote, quorumReached, dispatched,
                   registryVars, ledger>>

CancelProposal(a, i) ==
  /\ proposal[i].proposer = a /\ proposal[i].status = "Active" /\ proposal[i].voters = 0
  /\ proposal' = [proposal EXCEPT ![i].status = "Cancelled"]
  /\ UNCHANGED <<adminVars, config, powerVars, vote, quorumReached, dispatched,
                 registryVars, pause, ledger>>

Counted(p, choice, weight) ==
  IF choice = "Approve" THEN [p EXCEPT !.yes = p.yes + weight, !.voters = p.voters + 1]
  ELSE [p EXCEPT !.no = p.no + weight, !.voters = p.voters + 1]

HasVotedNever(i, a) == FALSE
HasVoted(i, a) == vote[i][a] # NoVote

StillOpenAfterDecision(i) ==
  proposal[i].status \in {"Active", "Approved", "Rejected"} /\ ledger <= proposal[i].end
StillOpen(i) == proposal[i].status = "Active" /\ ledger <= proposal[i].end

\* A vote that reaches the quorum decides the proposal at once.
CastVote(a, i, choice) ==
  LET weight == GetVoteWeight(proposal[i].snapshot, a)
      p == Counted(proposal[i], choice, weight)
  IN /\ CheckNotPaused("voting")
     /\ StillOpen(i)
     /\ ~HasVoted(i, a)
     /\ weight > 0
     /\ vote' = [vote EXCEPT ![i][a] = [choice |-> choice, weight |-> weight]]
     /\ IF QuorumMet(p)
        THEN /\ quorumReached' = quorumReached \cup {i}
             /\ proposal' = [proposal EXCEPT ![i] = [p EXCEPT !.status = Decision(p)]]
        ELSE /\ proposal' = [proposal EXCEPT ![i] = p]
             /\ UNCHANGED quorumReached
     /\ UNCHANGED <<adminVars, config, powerVars, dispatched, registryVars, ledger>>

FinalizableIfQuorum(i) ==
  proposal[i].status = "Active" /\ ledger > proposal[i].end /\ QuorumMet(proposal[i])
FinalizableAnyTime(i) == proposal[i].status = "Active"
Finalizable(i) == proposal[i].status = "Active" /\ ledger > proposal[i].end

FinalizeProposal(i) ==
  /\ Finalizable(i)
  /\ DecisionDefined(proposal[i])
  /\ proposal' = [proposal EXCEPT ![i].status = Decision(proposal[i])]
  /\ UNCHANGED <<adminVars, config, powerVars, vote, quorumReached, dispatched,
                 registryVars, pause, ledger>>

\* dispatch_action: a registry call by an account that is not the controller
\* traps and rolls the execution back.
Dispatch(act) ==
  \/ act.kind = "none" /\ UNCHANGED <<config, active>>
  \/ act.kind = "pause" /\ controller[act.talos]
     /\ active' = [active EXCEPT ![act.talos] = FALSE] /\ UNCHANGED config
  \/ act.kind = "resume" /\ controller[act.talos]
     /\ active' = [active EXCEPT ![act.talos] = TRUE] /\ UNCHANGED config
  \/ act.kind = "config"
     /\ act.quorum > 0 /\ act.consensus \in BasisPoints /\ act.period > 0
     /\ config # NoConfig
     /\ config' = [quorum |-> act.quorum, consensus |-> act.consensus, period |-> act.period,
                   offset |-> config.offset, bps |-> config.bps]
     /\ UNCHANGED active

ExecutableAgain(i) == proposal[i].status \in {"Approved", "Executed"}
Executable(i) == proposal[i].status = "Approved"

ExecuteProposal(i) ==
  /\ Executable(i)
  /\ Dispatch(proposal[i].action)
  /\ proposal' = [proposal EXCEPT ![i].status = "Executed"]
  /\ dispatched' = [dispatched EXCEPT ![i] = dispatched[i] + 1]
  /\ UNCHANGED <<adminVars, powerVars, vote, quorumReached, registrySet, controller,
                 pause, ledger>>

-----------------------------------------------------------------------------
(* Administration.                                                         *)

ValidConfig(c) ==
  /\ IF c.bps # NoBps THEN c.bps \in BasisPoints /\ c.quorum >= 0 ELSE c.quorum > 0
  /\ c.consensus \in BasisPoints /\ c.period > 0
  /\ c.offset <= MaxOffset

UpdateConfig(a, c) ==
  /\ RequireAdmin(a) /\ CheckNotPaused("config")
  /\ ValidConfig(c)
  /\ config' = c
  /\ UNCHANGED <<adminVars, powerVars, ballotVars, registryVars, ledger>>

SetRegistryContract(a) ==
  /\ RequireAdmin(a) /\ CheckNotPaused("config")
  /\ registrySet' = TRUE
  /\ UNCHANGED <<adminVars, config, powerVars, ballotVars, active, controller, ledger>>

ProposeAdmin(a) ==
  /\ admin # NoAccount /\ CheckNotPaused("config")
  /\ transfers < MaxTransfers                      \* the bound
  /\ pendingAdmin' = a /\ transfers' = transfers + 1
  /\ UNCHANGED <<admin, config, powerVars, ballotVars, registryVars, ledger>>

AcceptAdmin ==
  /\ pendingAdmin # NoAccount
  /\ admin' = pendingAdmin /\ pendingAdmin' = NoAccount
  /\ UNCHANGED <<transfers, config, powerVars, ballotVars, registryVars, pause, ledger>>

CancelAdminTransfer ==
  /\ admin # NoAccount /\ pendingAdmin # NoAccount
  /\ pendingAdmin' = NoAccount
  /\ UNCHANGED <<admin, transfers, config, powerVars, ballotVars, registryVars, pause, ledger>>

\* External: the creator of t makes this contract its controller.
SetController(t) ==
  /\ ~controller[t]
  /\ controller' = [controller EXCEPT ![t] = TRUE]
  /\ UNCHANGED <<adminVars, config, powerVars, ballotVars, registrySet, active, pause, ledger>>

CloseLedger ==
  /\ ledger < MaxLedger                            \* the bound
  /\ ledger' = ledger + 1
  /\ UNCHANGED <<adminVars, config, powerVars, ballotVars, registryVars, pause>>

-----------------------------------------------------------------------------
Next ==
  \/ \E a \in Accounts, c \in InitConfigs : Initialize(a, c)
  \/ \E a \in Accounts, t \in Taloses, act \in Actions : CreateProposal(a, t, act)
  \/ \E a \in Accounts, i \in ProposalIds : CancelProposal(a, i)
  \/ \E a \in Accounts, i \in ProposalIds, c \in VoteChoices : CastVote(a, i, c)
  \/ \E i \in ProposalIds : FinalizeProposal(i)
  \/ \E i \in ProposalIds : ExecuteProposal(i)
  \/ \E c, a \in Accounts, n \in Balances : UpdateVotingPower(c, a, n)
  \/ \E c, a \in Accounts, l \in CachedLedgers, n \in Cached : CacheTokenBalance(c, l, a, n)
  \/ \E a \in Delegators, to \in Accounts : Delegate(a, to)
  \/ \E a \in Accounts, c \in Configs : UpdateConfig(a, c)
  \/ \E a \in Accounts : SetRegistryContract(a)
  \/ \E a \in Accounts : ProposeAdmin(a)
  \/ AcceptAdmin
  \/ CancelAdminTransfer
  \/ \E d \in Pausable, n \in PauseDurations : PauseDomain(d, n)
  \/ \E d \in Domains : UnpauseDomain(d)
  \/ \E t \in Governable : SetController(t)
  \/ CloseLedger

Spec == Init /\ [][Next]_vars

\* The network keeps closing ledgers, and finalize_proposal is permissionless:
\* somebody calls it once the voting period is over.
FairSpec ==
  /\ Spec
  /\ WF_vars(CloseLedger)
  /\ \A i \in ProposalIds : WF_vars(FinalizeProposal(i))

-----------------------------------------------------------------------------
(* Properties.                                                             *)

\* Types of the contract's storage.
TypeOK ==
  /\ admin \in Accounts \cup {NoAccount} /\ pendingAdmin \in Accounts \cup {NoAccount}
  /\ config \in Config /\ registrySet \in BOOLEAN
  /\ proposal \in [ProposalIds -> Proposal]
  /\ vote \in [ProposalIds -> [Accounts -> Vote]]
  /\ checkpoint \in [Accounts -> Seq(Checkpoint)] /\ supply \in Seq(Checkpoint)
  /\ cached \in [Ledgers -> [Accounts -> Int]]
  /\ delegation \in [Accounts -> Accounts]
  /\ quorumReached \subseteq ProposalIds
  /\ pause \in [Domains -> [paused : BOOLEAN, expires : Nat]]
  /\ active \in [Taloses -> BOOLEAN] /\ controller \in [Taloses -> BOOLEAN]
  /\ ledger \in Nat /\ transfers \in Nat
  /\ dispatched \in [ProposalIds -> Nat]

\* What the lookups must compute: the votes of the last checkpoint at or
\* before l.
LastAtOrBefore(ck, l, other) ==
  LET S == {k \in DOMAIN ck : ck[k].ledger <= l}
  IN IF S = {} THEN other ELSE ck[CHOOSE k \in S : \A m \in S : m <= k].votes

\* The binary search finds the last checkpoint at or before every ledger, in
\* every history the contract can record.
SearchIsLookup ==
  \A l \in Ledgers :
    /\ GetPastTotalSupply(l) = LastAtOrBefore(supply, l, 0)
    /\ \A a \in Accounts : GetPastVotes(a, l) = LastAtOrBefore(checkpoint[a], l, cached[l][a])

\* The total supply at every ledger is the sum of the accounts' checkpointed
\* power at that ledger: the deltas of update_voting_power never drift, so a
\* quorum in basis points is a share of what can be voted.
SupplyIsSum ==
  \A l \in Ledgers :
    GetPastTotalSupply(l) =
      SumOver([a \in Accounts |-> LastAtOrBefore(checkpoint[a], l, 0)], Accounts)

\* Checkpointed power at a ledger that has closed never changes: a vote and
\* the quorum it is counted against read the same past.
PastIsImmutable ==
  [][\A l \in 0..(ledger - 1) :
       /\ GetPastTotalSupply(l)' = GetPastTotalSupply(l)
       /\ \A a \in Accounts :
            LastAtOrBefore(checkpoint[a], l, 0)' = LastAtOrBefore(checkpoint[a], l, 0)]_vars

Voters(i, c) == {a \in Accounts : vote[i][a].choice = c}
WeightSum(i, c) == SumOver([a \in Accounts |-> vote[i][a].weight], Voters(i, c))

\* The tallies of a proposal are the sums of the recorded votes.
TallyMatchesVotes ==
  \A i \in ProposalIds :
    /\ proposal[i].yes = WeightSum(i, "Approve") /\ proposal[i].no = WeightSum(i, "Reject")
    /\ proposal[i].voters = Cardinality({a \in Accounts : HasVoted(i, a)})

\* The action of a proposal is carried out at most once, and only if the
\* proposal is Executed; a trapped dispatch leaves it Approved.
DispatchedOnce ==
  \A i \in ProposalIds : dispatched[i] = IF proposal[i].status = "Executed" THEN 1 ELSE 0

\* Proposals move only along Active -> Approved, Rejected or Cancelled and
\* Approved -> Executed, and once a proposal is decided its tally, its votes
\* and its voting window are frozen.
DecisionIsFinal ==
  [][\A i \in ProposalIds :
       LET p == proposal[i]  q == proposal[i]'
       IN p.status \notin {"absent", "Active"} =>
            /\ q.status = p.status \/ (p.status = "Approved" /\ q.status = "Executed")
            /\ [q EXCEPT !.status = p.status] = p
            /\ vote[i]' = vote[i]]_vars

\* A proposal that is decided before its voting period ended was decided by a
\* vote that met the quorum, not by finalize_proposal.
EarlyDecisionHadQuorum ==
  [][\A i \in ProposalIds :
       (/\ proposal[i].status = "Active" /\ proposal[i]'.status \in {"Approved", "Rejected"}
        /\ ledger <= proposal[i].end)
         => /\ i \in quorumReached'
            /\ proposal[i]'.voters = proposal[i].voters + 1]_vars

\* The contract keeps what Ballot promises of every proposal: one ballot each,
\* nothing approved that nobody approved, nothing withdrawn that somebody voted
\* on, nothing carried out twice (vote, finalize_status, cancel_proposal,
\* execute_proposal), whatever the configuration was in the meantime.
Poll == INSTANCE Ballot WITH
  Proposals <- ProposalIds, Agenda <- Actions, NoBallot <- NoVote,
  status <- [i \in ProposalIds |-> proposal[i].status],
  agenda <- [i \in ProposalIds |-> proposal[i].action],
  ballot <- vote, carried <- dispatched
ImplementsBallot == Poll!Spec

\* Every proposal that somebody has voted on is decided once its period is over,
\* whatever quorum is configured by then, met or not (finalize_proposal).  One
\* that nobody votes on may stay Active for ever: see ExpiredCanBeFinalized.
EveryProposalSettles ==
  \A i \in ProposalIds :
    (proposal[i].status = "Active" /\ proposal[i].voters > 0 /\ proposal[i].end < MaxLedger)
      ~> (proposal[i].status \notin {"absent", "Active"})

\* contracts/README.md line 66: "`finalize_proposal` transitions expired
\* proposals to `Approved` or `Rejected`", so it can decide every proposal
\* whose voting period has ended.
ExpiredCanBeFinalized ==
  \A i \in ProposalIds : Finalizable(i) => DecisionDefined(proposal[i])
=============================================================================
