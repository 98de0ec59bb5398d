------------------------------ MODULE OnceEffect ------------------------------
(***************************************************************************)
(* What docs/prime-agent-durable-job-effects.md promises of one job result, *)
(* as far as the code keeps it: the agent fixes the result before it talks  *)
(* to the network, the web API accepts a result for a job that has none and *)
(* pays for it once, and the agent calls the effect succeeded only if the   *)
(* job has held its own result, in conflict only if the job has held one    *)
(* that reads differently.  Giving up claims neither; an operator may       *)
(* reopen it.  A result is read back as JSON: Stored[r] need not be r, so a *)
(* conflict may be with the agent's own result.  Only a delivery of the     *)
(* cross-chain webhook that found the job without a result may replace one, *)
(* or erase it, later.                                                      *)
(***************************************************************************)
EXTENDS Naturals

CONSTANTS Results, NoResult, Stored

VARIABLES
  intent,      \* the result the agent recorded
  delivered,   \* the result of the job
  accepted,    \* every result the job has had
  paid,        \* revenue rows of the job
  late,        \* what deliveries of the webhook will do: "completed" or "pending"
  verdict      \* what the agent holds to be true: open, confirmed, refused, given_up

job == <<delivered, accepted, paid>>
vars == <<intent, job, late, verdict>>

Init ==
  /\ intent = NoResult /\ delivered = NoResult /\ accepted = {} /\ paid = 0
  /\ late = {} /\ verdict = "open"

Intend(r) == intent = NoResult /\ intent' = r /\ UNCHANGED <<job, late, verdict>>

Have(d) == delivered' = d /\ accepted' = accepted \cup {d} /\ paid' = paid + 1
Deliver(r) ==
  delivered = NoResult /\ Have(Stored[r]) /\ UNCHANGED <<intent, late, verdict>>

Arrive(s) ==
  delivered = NoResult /\ late' = late \cup {s} /\ UNCHANGED <<intent, job, verdict>>
\* A delivery may be saved twice: its commit is rerun, or another came with it.
Saves(s) == s \in late /\ late' \in {late, late \ {s}} /\ UNCHANGED <<intent, verdict>>
Replace(r) == Saves("completed") /\ Have(Stored[r])
Erase == Saves("pending") /\ delivered' = NoResult /\ UNCHANGED <<accepted, paid>>

Conclude(v) == intent # NoResult /\ verdict = "open" /\ verdict' = v /\ UNCHANGED <<intent, job, late>>
Confirm == Conclude("confirmed") /\ accepted \cap {intent, Stored[intent]} # {}
Refuse  == Conclude("refused") /\ accepted \ {intent} # {}
GiveUp  == Conclude("given_up")
Reopen  == verdict = "given_up" /\ verdict' = "open" /\ UNCHANGED <<intent, job, late>>

Next ==
  \/ \E r \in Results : Intend(r) \/ Deliver(r) \/ Replace(r)
  \/ \E s \in {"completed", "pending"} : Arrive(s)
  \/ Erase \/ Confirm \/ Refuse \/ GiveUp \/ Reopen
Spec == Init /\ [][Next]_vars
=============================================================================
