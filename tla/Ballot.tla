------------------------------- MODULE Ballot -------------------------------
(***************************************************************************)
(* What the governance contract promises about a proposal, without power,  *)
(* thresholds, ledgers or configuration (contracts/README.md, Governance): *)
(* every account has one ballot, nobody votes on what is decided, nothing  *)
(* is approved unless somebody approved it, only what nobody has voted on  *)
(* can be withdrawn, and what is approved is carried out at most once, as  *)
(* it was proposed.                                                        *)
(***************************************************************************)
EXTENDS Naturals

CONSTANTS Proposals, Accounts, Agenda, NoBallot

VARIABLES status,   \* status of each proposal
          agenda,   \* what it proposes
          ballot,   \* the ballots cast on it
          carried   \* how often it was carried out

ballotVars == <<status, agenda, ballot, carried>>

Init ==
  /\ status = [i \in Proposals |-> "absent"]
  /\ agenda \in [Proposals -> Agenda]
  /\ ballot = [i \in Proposals |-> [a \in Accounts |-> NoBallot]]
  /\ carried = [i \in Proposals |-> 0]

Untouched(i) == \A a \in Accounts : ballot[i][a] = NoBallot
Supported(i) == \E a \in Accounts : ballot[i][a].choice = "Approve"

Move(i, s, t) == status[i] = s /\ status'[i] = t
SameAgenda(i) == agenda'[i] = agenda[i]
SameBallots(i) == ballot'[i] = ballot[i]
NotCarried(i) == carried'[i] = carried[i]

Proposed(i) ==
  /\ Move(i, "absent", "Active") /\ agenda'[i] \in Agenda
  /\ Untouched(i) /\ SameBallots(i) /\ NotCarried(i)

\* A ballot may decide the proposal.
Voted(i) ==
  /\ \/ Move(i, "Active", "Active") \/ Move(i, "Active", "Rejected")
     \/ Move(i, "Active", "Approved") /\ Supported(i)'
  /\ \E a \in Accounts :
       /\ ballot[i][a] = NoBallot /\ ballot'[i][a].weight > 0
       /\ ballot'[i] = [ballot[i] EXCEPT ![a] = ballot'[i][a]]
  /\ SameAgenda(i) /\ NotCarried(i)

Finalized(i) ==
  /\ Move(i, "Active", "Rejected") \/ (Move(i, "Active", "Approved") /\ Supported(i))
  /\ SameAgenda(i) /\ SameBallots(i) /\ NotCarried(i)

Withdrawn(i) ==
  /\ Move(i, "Active", "Cancelled") /\ Untouched(i)
  /\ SameAgenda(i) /\ SameBallots(i) /\ NotCarried(i)

CarriedOut(i) ==
  /\ Move(i, "Approved", "Executed")
  /\ carried[i] = 0 /\ carried'[i] = 1
  /\ SameAgenda(i) /\ SameBallots(i)

ProposalStep(i) ==
  Proposed(i) \/ Voted(i) \/ Finalized(i) \/ Withdrawn(i) \/ CarriedOut(i)
Idle(i) ==
  status'[i] = status[i] /\ SameAgenda(i) /\ SameBallots(i) /\ NotCarried(i)

Next == \A i \in Proposals : Idle(i) \/ ProposalStep(i)

Spec == Init /\ [][Next]_ballotVars
=============================================================================
