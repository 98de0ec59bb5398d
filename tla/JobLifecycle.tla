---------------------------- MODULE JobLifecycle ----------------------------
(***************************************************************************)
(* What the job queue promises about one job, without leases, workers or   *)
(* statements: the status lifecycle drawn in web/JOBS.md, with the retry   *)
(* budget.  Several jobs may move in one step, since leaseBatch() and      *)
(* reapExpiredLeases() update many rows.                                   *)
(***************************************************************************)
EXTENDS Naturals

CONSTANTS Jobs, MaxAttempts, Fatal

VARIABLES status,    \* status of each job
          failures,  \* attempts that failed or lapsed since the job was queued
          handbacks  \* attempts given back by a worker shutting down

lifecycleVars == <<status, failures, handbacks>>

Init ==
  /\ status = [j \in Jobs |-> "absent"]
  /\ failures = [j \in Jobs |-> 0]
  /\ handbacks = [j \in Jobs |-> 0]

Move(j, s, t) == status[j] = s /\ status'[j] = t
Keep(j) == failures'[j] = failures[j] /\ handbacks'[j] = handbacks[j]

\* The attempt failed, or its lease lapsed.
AttemptFails(j) ==
  failures'[j] = failures[j] + 1 /\ handbacks'[j] = handbacks[j]

Enqueued(j)  == Move(j, "absent", "pending") /\ Keep(j)
Leased(j)    == Move(j, "pending", "leased") /\ Keep(j)
Completed(j) == Move(j, "leased", "completed") /\ Keep(j)
\* JOBS.md draws the second one; no statement of store.ts makes that move.
Cancelled(j) ==
  (Move(j, "pending", "cancelled") \/ Move(j, "leased", "cancelled")) /\ Keep(j)

\* A failed attempt leaves the job pending only while the budget lasts.
Retried(j) ==
  /\ Move(j, "leased", "pending")
  /\ AttemptFails(j)
  /\ failures[j] + 1 < MaxAttempts

\* It is given up only when the failures have used up the budget, or its class is
\* fatal.  Of a job that was handed back nothing is promised here: the comment
\* of release() and what the code does disagree about its budget.
DeadLettered(j) ==
  /\ Move(j, "leased", "dead_letter")
  /\ AttemptFails(j)
  /\ j \in Fatal \/ handbacks[j] > 0 \/ failures[j] + 1 >= MaxAttempts

HandedBack(j) ==
  /\ Move(j, "leased", "pending")
  /\ handbacks'[j] = handbacks[j] + 1 /\ failures'[j] = failures[j]

Requeued(j) ==
  /\ Move(j, "dead_letter", "pending") \/ Move(j, "cancelled", "pending")
  /\ failures'[j] = 0 /\ handbacks'[j] = 0

JobStep(j) ==
  \/ Enqueued(j) \/ Leased(j) \/ Completed(j) \/ Cancelled(j) \/ Retried(j)
  \/ DeadLettered(j) \/ HandedBack(j) \/ Requeued(j)

Next == \A j \in Jobs : JobStep(j) \/ (status'[j] = status[j] /\ Keep(j))

Spec == Init /\ [][Next]_lifecycleVars
=============================================================================
