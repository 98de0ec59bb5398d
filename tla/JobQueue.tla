------------------------------ MODULE JobQueue ------------------------------
(***************************************************************************)
(* The durable job queue of the web application: the lease operations of   *)
(* web/src/lib/jobs/store.ts, the batch runner of runner.ts, the retry     *)
(* policy of retry.ts, the admin routes that cancel and retry a job, and   *)
(* the long-lived worker of web/scripts/jobs-worker.ts with its graceful   *)
(* shutdown.                                                               *)
(*                                                                         *)
(* Every SQL statement is one atomic step; everything a worker does        *)
(* between two statements can be interleaved with the statements of other  *)
(* workers and of the admin.  Time is abstracted to the two comparisons    *)
(* the code makes with it: whether a lease's leaseExpiresAt has passed     *)
(* ("lapsed") and whether a row's runAt has been reached ("due").  Lease   *)
(* ids are random uuids; a new lease takes any id nobody still remembers.  *)
(***************************************************************************)
EXTENDS Naturals, FiniteSets

CONSTANTS
  Jobs,          \* ids of the rows of tls_jobs, all of queues with a handler
  Workers,       \* processes that call runOnce()
  LeaseIds,      \* lease tokens
  NoLease,       \* SQL NULL in leaseId
  MaxAttempts,   \* maxAttempts of every row
  RetryClass,    \* retryClass of each row
  Priority,      \* priority of each row
  BatchSize,     \* jobsConfig.batchSize
  MaxStops,      \* bound: SIGTERMs in a behaviour
  MaxCrashes,    \* bound: crashes and rejected reap or lease statements
  MaxRequeues    \* bound: admin retries in a behaviour

ASSUME NoLeaseAssumption == NoLease \notin LeaseIds
ASSUME MaxAttemptsAssumption == MaxAttempts \in Nat \ {0}
ASSUME RetryClassAssumption ==
  RetryClass \in [Jobs -> {"transient", "rate_limited", "fatal"}]
ASSUME PriorityAssumption == Priority \in [Jobs -> Nat]
ASSUME BoundsAssumption ==
  /\ BatchSize \in Nat \ {0}
  /\ MaxStops \in Nat /\ MaxCrashes \in Nat /\ MaxRequeues \in Nat

VARIABLES
  row,       \* the table tls_jobs
  exec,      \* exec[w][j]: worker w's processJob() call for job j
  worker,    \* worker[w]: the loop and the shutdown state of process w
  cancelling,\* jobs whose requestCancel() is between its two statements
  spent,     \* history: attempts of j that failed or lapsed since it was queued
  released,  \* history: leases of j given back by release() since it was queued
  stops, crashes, requeues   \* counters for the bounds

vars == <<row, exec, worker, cancelling, spent, released, stops, crashes, requeues>>
history == <<spent, released>>
counters == <<stops, crashes, requeues>>

Statuses == {"absent", "pending", "leased", "completed", "dead_letter", "cancelled"}
Active == {"run", "complete", "fail", "failwrite"}
Ended == {"none", "done", "rejected"}

Row == [status : Statuses, lease : LeaseIds \cup {NoLease}, lapsed : BOOLEAN,
        due : BOOLEAN, attempts : Nat, cancel : BOOLEAN]
Exec == [pc : Active \cup Ended, lease : LeaseIds \cup {NoLease},
         lost : BOOLEAN, cancelled : BOOLEAN,
         verdict : {"none", "retry", "dead_letter"}, stray : BOOLEAN]
Worker == [phase : {"down", "idle", "reap", "lease", "run"},
           stop : {"no", "grace", "release"}, left : SUBSET Jobs]

AbsentRow == [status |-> "absent", lease |-> NoLease, lapsed |-> FALSE,
              due |-> FALSE, attempts |-> 0, cancel |-> FALSE]
NoExec == [pc |-> "none", lease |-> NoLease, lost |-> FALSE,
           cancelled |-> FALSE, verdict |-> "none", stray |-> FALSE]
Down == [phase |-> "down", stop |-> "no", left |-> {}]

Init ==
  /\ row = [j \in Jobs |-> AbsentRow]
  /\ exec = [w \in Workers |-> [j \in Jobs |-> NoExec]]
  /\ worker = [w \in Workers |-> Down]
  /\ cancelling = {}
  /\ spent = [j \in Jobs |-> 0]
  /\ released = [j \in Jobs |-> 0]
  /\ stops = 0 /\ crashes = 0 /\ requeues = 0

-----------------------------------------------------------------------------
(* What the statements have in common.                                     *)

\* Mutant: the WHERE clause without the lease token.
HoldsByStatus(w, j) == row[j].status = "leased" /\ exec[w][j].pc # "none"

\* WHERE id = jobId AND leaseId = leaseId AND status = 'leased', for the
\* (id, leaseId) pair that worker w's processJob() was called with.
Holds(w, j) ==
  /\ row[j].status = "leased"
  /\ exec[w][j].pc # "none"
  /\ row[j].lease = exec[w][j].lease

\* SET status = s, leaseId = NULL, leaseOwner = NULL, leaseExpiresAt = NULL
Unlease(r, s) == [r EXCEPT !.status = s, !.lease = NoLease, !.lapsed = FALSE]

\* Mutants: the attempt ceiling off by one, either way.
DecideRetryLate(j, attempts) ==
  IF RetryClass[j] = "fatal" \/ attempts > MaxAttempts THEN "dead_letter" ELSE "retry"
DecideRetryEarly(j, attempts) ==
  IF RetryClass[j] = "fatal" \/ attempts + 1 >= MaxAttempts THEN "dead_letter" ELSE "retry"

DecideRetry(j, attempts) ==
  IF RetryClass[j] = "fatal" \/ attempts >= MaxAttempts THEN "dead_letter" ELSE "retry"

\* UPDATE tls_jobs SET ... WHERE id = j
SetRow(j, r) == row' = [row EXCEPT ![j] = r]

\* Local state of processJob() and of the process that runs it.
SetExec(w, j, e) == exec' = [exec EXCEPT ![w] = [exec[w] EXCEPT ![j] = e]]
Goto(w, j, pc) == SetExec(w, j, [exec[w][j] EXCEPT !.pc = pc])
Forget(w) == exec' = [exec EXCEPT ![w] = [j \in Jobs |-> NoExec]]
SetWorker(w, p) == worker' = [worker EXCEPT ![w] = p]

\* Mutant: a lease token derived from the job, not a new one per lease.
SameIdAgain(j) == {CHOOSE l \in LeaseIds : TRUE}

\* gen_random_uuid(): an id no row and no process remembers for this job.
FreshIds(j) ==
  LeaseIds \ ({row[j].lease} \cup {exec[w][j].lease : w \in Workers})

-----------------------------------------------------------------------------
(* Producers, the admin routes and the passage of time.                    *)

Enqueue(j) ==
  /\ row[j].status = "absent"
  /\ \E due \in BOOLEAN : SetRow(j, [AbsentRow EXCEPT !.status = "pending", !.due = due])
  /\ UNCHANGED <<exec, worker, cancelling, history, counters>>

\* Mutant: the cancellation without its WHERE status = 'pending'.
CancelAnyStatus(j) ==
  /\ row[j].status # "absent" /\ j \notin cancelling
  /\ SetRow(j, [row[j] EXCEPT !.status = "cancelled", !.cancel = TRUE])
  /\ UNCHANGED <<exec, worker, cancelling, history, counters>>

\* First statement of requestCancel(): cancels a pending job; for any other
\* status the second statement follows.
RequestCancel(j) ==
  /\ row[j].status # "absent"
  /\ j \notin cancelling
  /\ IF row[j].status = "pending"
       THEN /\ SetRow(j, [row[j] EXCEPT !.status = "cancelled", !.cancel = TRUE])
            /\ UNCHANGED cancelling
       ELSE /\ cancelling' = cancelling \cup {j}
            /\ UNCHANGED row
  /\ UNCHANGED <<exec, worker, history, counters>>

\* Second statement of requestCancel(): flags a leased job.
FlagCancel(j) ==
  /\ j \in cancelling
  /\ cancelling' = cancelling \ {j}
  /\ IF row[j].status = "leased" THEN SetRow(j, [row[j] EXCEPT !.cancel = TRUE])
                                 ELSE UNCHANGED row
  /\ UNCHANGED <<exec, worker, history, counters>>

\* Mutant: a retry that also accepts a completed job.
RequeueCompleted(j) ==
  /\ row[j].status \in {"dead_letter", "cancelled", "completed"}
  /\ requeues < MaxRequeues
  /\ requeues' = requeues + 1
  /\ SetRow(j, [row[j] EXCEPT !.status = "pending", !.attempts = 0])
  /\ UNCHANGED <<exec, worker, cancelling, history, stops, crashes>>

Requeue(j) ==
  /\ row[j].status \in {"dead_letter", "cancelled"}
  /\ requeues < MaxRequeues
  /\ requeues' = requeues + 1
  /\ SetRow(j, [row[j] EXCEPT !.status = "pending", !.attempts = 0,
                              !.cancel = FALSE, !.due = TRUE])
  /\ spent' = [spent EXCEPT ![j] = 0]
  /\ released' = [released EXCEPT ![j] = 0]
  /\ UNCHANGED <<exec, worker, cancelling, stops, crashes>>

\* now() reaches runAt.
BecomesDue(j) ==
  /\ row[j].status = "pending" /\ ~row[j].due
  /\ SetRow(j, [row[j] EXCEPT !.due = TRUE])
  /\ UNCHANGED <<exec, worker, cancelling, history, counters>>

\* now() passes leaseExpiresAt.
LeaseLapses(j) ==
  /\ row[j].status = "leased" /\ ~row[j].lapsed
  /\ SetRow(j, [row[j] EXCEPT !.lapsed = TRUE])
  /\ UNCHANGED <<exec, worker, cancelling, history, counters>>

-----------------------------------------------------------------------------
(* runOnce(): reap in two statements, lease a batch, process it.           *)

\* Mutant: every leased row is reaped, expired or not.
ReapableAny == {j \in Jobs : row[j].status = "leased"}

Reapable == {j \in Jobs : row[j].status = "leased" /\ row[j].lapsed}

Reap(js, s) ==
  /\ row' = [j \in Jobs |-> IF j \in js THEN Unlease(row[j], s) ELSE row[j]]
  /\ spent' = [j \in Jobs |-> IF j \in js THEN spent[j] + 1 ELSE spent[j]]

ReapRequeue(w) ==
  /\ worker[w].phase = "idle" /\ worker[w].stop = "no"
  /\ Reap({j \in Reapable : row[j].attempts < MaxAttempts}, "pending")
  /\ SetWorker(w, [worker[w] EXCEPT !.phase = "reap"])
  /\ UNCHANGED <<exec, cancelling, released, counters>>

\* Mutant: the second reap statement compares with > instead of >=.
ReapDeadLetterPast(w) ==
  /\ worker[w].phase = "reap"
  /\ Reap({j \in Reapable : row[j].attempts > MaxAttempts}, "dead_letter")
  /\ SetWorker(w, [worker[w] EXCEPT !.phase = "lease"])
  /\ UNCHANGED <<exec, cancelling, released, counters>>

ReapDeadLetter(w) ==
  /\ worker[w].phase = "reap"
  /\ Reap({j \in Reapable : row[j].attempts >= MaxAttempts}, "dead_letter")
  /\ SetWorker(w, [worker[w] EXCEPT !.phase = "lease"])
  /\ UNCHANGED <<exec, cancelling, released, counters>>

Leasable == {j \in Jobs : row[j].status = "pending" /\ row[j].due}

\* ORDER BY priority DESC, "runAt" ASC LIMIT batchSize (ties of runAt open).
Batches ==
  {b \in SUBSET Leasable :
     /\ Cardinality(b) <= BatchSize
     /\ b # Leasable => Cardinality(b) = BatchSize
     /\ \A i \in b, k \in Leasable \ b : Priority[i] >= Priority[k]}

NewLease(j) == CHOOSE l \in FreshIds(j) : TRUE

LeaseRows(batch) ==
  row' = [j \in Jobs |->
            IF j \in batch
              THEN [row[j] EXCEPT !.status = "leased", !.lease = NewLease(j),
                                  !.lapsed = FALSE, !.attempts = @ + 1]
              ELSE row[j]]

\* A call that outlived its runOnce() goes on.
Stray(w, j) == exec[w][j].pc \in Active /\ exec[w][j].stray

LeaseJobs(w, batch) ==
  /\ LeaseRows(batch)
  /\ exec' = [exec EXCEPT ![w] =
               [j \in Jobs |->
                  IF j \in batch THEN [NoExec EXCEPT !.pc = "run", !.lease = NewLease(j)]
                  ELSE IF Stray(w, j) THEN exec[w][j] ELSE NoExec]]

\* Bound: one process has one processJob() call per job; a job comes back only
\* after its stray call has ended.
Grantable(w, batch) == \A j \in batch : FreshIds(j) # {} /\ ~Stray(w, j)

LeaseBatch(w) ==
  /\ worker[w].phase = "lease"
  /\ \E batch \in Batches :
       /\ Grantable(w, batch)
       /\ LeaseJobs(w, batch)
       /\ SetWorker(w, [worker[w] EXCEPT !.phase = IF batch = {} THEN "idle" ELSE "run"])
  /\ UNCHANGED <<cancelling, history, counters>>

\* A reap or lease statement rejects, and runOnce() with it.  The lease UPDATE
\* may have been applied: its jobs are then leased by a worker that does not know.
RunRejects(w) ==
  /\ worker[w].phase \in {"reap", "lease"}
  /\ crashes < MaxCrashes
  /\ crashes' = crashes + 1
  /\ \/ UNCHANGED row
     \/ /\ worker[w].phase = "lease"
        /\ \E batch \in Batches : Grantable(w, batch) /\ LeaseRows(batch)
  /\ SetWorker(w, [worker[w] EXCEPT !.phase = "idle"])
  /\ UNCHANGED <<exec, cancelling, history, stops, requeues>>

\* Promise.all settles: every call of the batch has ended, or one has rejected.
BatchSettled(w) ==
  \/ \A j \in Jobs : exec[w][j].pc \in Active => exec[w][j].stray
  \/ \E j \in Jobs : exec[w][j].pc = "rejected" /\ ~exec[w][j].stray

\* runOnce() returns or rejects, and the worker forgets the batch.  The calls
\* beside a rejected one go on as strays.
RunEnds(w) ==
  /\ worker[w].phase = "run" /\ worker[w].stop = "no"
  /\ BatchSettled(w)
  /\ exec' = [exec EXCEPT ![w] =
               [j \in Jobs |-> IF exec[w][j].pc \in Active
                                 THEN [exec[w][j] EXCEPT !.stray = TRUE] ELSE NoExec]]
  /\ SetWorker(w, [worker[w] EXCEPT !.phase = "idle"])
  /\ UNCHANGED <<row, cancelling, history, counters>>

-----------------------------------------------------------------------------
(* processJob(): the handler, its heartbeats, and what it reports.         *)

\* The timer or the handler calls runHeartbeat(); the timer runs until the
\* finally block, that is also while complete() or fail() is awaited.
Heartbeat(w, j) ==
  /\ exec[w][j].pc \in Active
  /\ IF Holds(w, j)
       THEN /\ SetRow(j, [row[j] EXCEPT !.lapsed = FALSE])
            /\ IF row[j].cancel THEN SetExec(w, j, [exec[w][j] EXCEPT !.cancelled = TRUE])
                               ELSE UNCHANGED exec
       ELSE /\ SetExec(w, j, [exec[w][j] EXCEPT !.lost = TRUE])
            /\ UNCHANGED row
  /\ UNCHANGED <<worker, cancelling, history, counters>>

Abandoned(w, j) == exec[w][j].lost \/ exec[w][j].cancelled

HandlerReturns(w, j) ==
  /\ exec[w][j].pc = "run"
  /\ Goto(w, j, IF Abandoned(w, j) THEN "done" ELSE "complete")
  /\ UNCHANGED <<row, worker, cancelling, history, counters>>

HandlerThrows(w, j) ==
  /\ exec[w][j].pc = "run"
  /\ Goto(w, j, IF Abandoned(w, j) THEN "done" ELSE "fail")
  /\ UNCHANGED <<row, worker, cancelling, history, counters>>

\* The UPDATE of store.complete().
CompleteRow(w, j) ==
  IF Holds(w, j) THEN SetRow(j, Unlease(row[j], "completed")) ELSE UNCHANGED row

Complete(w, j) ==
  /\ exec[w][j].pc = "complete"
  /\ CompleteRow(w, j)
  /\ Goto(w, j, "done")
  /\ UNCHANGED <<worker, cancelling, history, counters>>

\* store.complete() rejects, with or without its UPDATE applied: the catch
\* block treats that like a handler error.
CompleteRejects(w, j) ==
  /\ exec[w][j].pc = "complete"
  /\ CompleteRow(w, j) \/ UNCHANGED row
  /\ Goto(w, j, IF Abandoned(w, j) THEN "done" ELSE "fail")
  /\ UNCHANGED <<worker, cancelling, history, counters>>

\* store.fail() reads the row and decides.
FailSelect(w, j) ==
  /\ exec[w][j].pc = "fail"
  /\ IF Holds(w, j)
       THEN SetExec(w, j, [exec[w][j] EXCEPT !.pc = "failwrite",
                             !.verdict = DecideRetry(j, row[j].attempts)])
       ELSE Goto(w, j, "done")
  /\ UNCHANGED <<row, worker, cancelling, history, counters>>

\* The guarded UPDATE of store.fail().
FailRow(w, j) ==
  IF Holds(w, j)
    THEN /\ IF exec[w][j].verdict = "dead_letter"
              THEN SetRow(j, Unlease(row[j], "dead_letter"))
              ELSE SetRow(j, [Unlease(row[j], "pending") EXCEPT !.due = FALSE])
         /\ spent' = [spent EXCEPT ![j] = @ + 1]
    ELSE UNCHANGED <<row, spent>>

\* store.fail() writes the decision, if the lease is still this one.
FailUpdate(w, j) ==
  /\ exec[w][j].pc = "failwrite"
  /\ FailRow(w, j)
  /\ Goto(w, j, "done")
  /\ UNCHANGED <<worker, cancelling, released, counters>>

\* store.fail() rejects at either statement, the UPDATE applied or not: the call
\* rejects, and with it the Promise.all of its batch.
FailRejects(w, j) ==
  /\ exec[w][j].pc \in {"fail", "failwrite"}
  /\ \/ exec[w][j].pc = "failwrite" /\ FailRow(w, j)
     \/ UNCHANGED <<row, spent>>
  /\ Goto(w, j, "rejected")
  /\ UNCHANGED <<worker, cancelling, released, counters>>

-----------------------------------------------------------------------------
(* The worker process: start, SIGTERM, grace period, exit, crash.          *)

Boot(w) ==
  /\ worker[w].phase = "down"
  /\ SetWorker(w, [worker[w] EXCEPT !.phase = "idle"])
  /\ UNCHANGED <<row, exec, cancelling, history, counters>>

Shutdown(w) ==
  /\ worker[w].phase # "down" /\ worker[w].stop = "no"
  /\ stops < MaxStops
  /\ stops' = stops + 1
  /\ SetWorker(w, [worker[w] EXCEPT !.stop = "grace"])
  /\ UNCHANGED <<row, exec, cancelling, history, crashes, requeues>>

\* The batch onLeased() has reported; a stray is no longer in it.
InFlight(w, j) == exec[w][j].pc # "none" /\ ~exec[w][j].stray

\* The grace timer fires: every lease of the batch in flight is to be released.
GraceExceeded(w) ==
  /\ worker[w].stop = "grace"
  /\ SetWorker(w, [worker[w] EXCEPT !.stop = "release",
                                    !.left = {j \in Jobs : InFlight(w, j)}])
  /\ UNCHANGED <<row, exec, cancelling, history, counters>>

Release(w, j) ==
  /\ worker[w].stop = "release" /\ j \in worker[w].left
  /\ IF Holds(w, j)
       THEN /\ SetRow(j, Unlease(row[j], "pending"))
            /\ released' = [released EXCEPT ![j] = @ + 1]
       ELSE UNCHANGED <<row, released>>
  /\ SetWorker(w, [worker[w] EXCEPT !.left = @ \ {j}])
  /\ UNCHANGED <<exec, cancelling, spent, counters>>

\* process.exit(0): the run in progress has ended, or every release is done.
Exit(w) ==
  /\ worker[w].phase # "down" /\ worker[w].stop # "no"
  /\ \/ worker[w].phase = "idle"
     \/ worker[w].phase = "run" /\ BatchSettled(w)
     \/ worker[w].stop = "release" /\ worker[w].left = {}
  /\ Forget(w)
  /\ SetWorker(w, Down)
  /\ UNCHANGED <<row, cancelling, history, counters>>

Crash(w) ==
  /\ worker[w].phase # "down"
  /\ crashes < MaxCrashes
  /\ crashes' = crashes + 1
  /\ Forget(w)
  /\ SetWorker(w, Down)
  /\ UNCHANGED <<row, cancelling, history, stops, requeues>>

-----------------------------------------------------------------------------
ProcessJob(w, j) ==
  \/ Heartbeat(w, j) \/ HandlerReturns(w, j) \/ HandlerThrows(w, j)
  \/ Complete(w, j) \/ CompleteRejects(w, j)
  \/ FailSelect(w, j) \/ FailUpdate(w, j) \/ FailRejects(w, j)

RunOnce(w) == ReapRequeue(w) \/ ReapDeadLetter(w) \/ LeaseBatch(w) \/ RunEnds(w)

Process(w) == Boot(w) \/ Shutdown(w) \/ GraceExceeded(w) \/ Exit(w) \/ Crash(w)
                \/ RunRejects(w)

Environment(j) ==
  Enqueue(j) \/ RequestCancel(j) \/ FlagCancel(j) \/ Requeue(j)
    \/ BecomesDue(j) \/ LeaseLapses(j)

Next ==
  \/ \E j \in Jobs : Environment(j)
  \/ \E w \in Workers : RunOnce(w) \/ Process(w)
  \/ \E w \in Workers, j \in Jobs : ProcessJob(w, j) \/ Release(w, j)

\* Processes are restarted and poll, handlers end, awaited statements return
\* and time passes.  Heartbeats, signals, crashes and the admin owe nothing.
Fairness ==
  /\ \A w \in Workers : WF_vars(RunOnce(w)) /\ WF_vars(Boot(w)) /\ WF_vars(Exit(w))
  /\ \A w \in Workers, j \in Jobs :
       /\ WF_vars(HandlerReturns(w, j) \/ HandlerThrows(w, j))
       /\ WF_vars(Complete(w, j) \/ CompleteRejects(w, j))
       /\ WF_vars(FailSelect(w, j) \/ FailUpdate(w, j) \/ FailRejects(w, j))
       /\ WF_vars(Release(w, j))
  /\ \A j \in Jobs : WF_vars(BecomesDue(j)) /\ WF_vars(LeaseLapses(j))

Spec == Init /\ [][Next]_vars
FairSpec == Spec /\ Fairness

-----------------------------------------------------------------------------
(* Properties.                                                             *)

\* The table, the processJob() calls and the worker loops have their types.
TypeOK ==
  /\ row \in [Jobs -> Row]
  /\ exec \in [Workers -> [Jobs -> Exec]]
  /\ worker \in [Workers -> Worker]
  /\ cancelling \subseteq Jobs
  /\ spent \in [Jobs -> Nat] /\ released \in [Jobs -> Nat]
  /\ stops \in Nat /\ crashes \in Nat /\ requeues \in Nat

\* However late a worker's statement arrives, the WHERE clause of at most one
\* processJob() call in the fleet matches a leased row: a worker whose lease
\* was reaped and re-leased can no longer write (store.ts, schema leaseId).
LeaseExclusive ==
  \A j \in Jobs, w, v \in Workers : Holds(w, j) /\ Holds(v, j) => w = v

\* The retry decision that fail() took from its SELECT is still the right one
\* for the row when its guarded UPDATE applies.
DecisionCurrent ==
  \A w \in Workers, j \in Jobs :
    exec[w][j].pc = "failwrite" /\ Holds(w, j)
      => exec[w][j].verdict = DecideRetry(j, row[j].attempts)

\* The attempts column equals the attempts that failed or lapsed, plus the
\* leases handed back at shutdown, plus the one in progress or completed.
AttemptsAccounted ==
  \A j \in Jobs :
    row[j].attempts = spent[j] + released[j]
                        + IF row[j].status \in {"leased", "completed"} THEN 1 ELSE 0

\* No interleaving of failures, crashes, reaps and shutdowns lets a job fail
\* more than maxAttempts times, and a job that can still run has a failure left.
FailureBudget ==
  \A j \in Jobs :
    /\ spent[j] <= MaxAttempts
    /\ row[j].status \in {"pending", "leased", "completed"} => spent[j] < MaxAttempts

\* What the code dead-letters on: failures and hand-backs together have used up
\* maxAttempts, or the job is fatal.  The comment of release() (store.ts) promises
\* more, that a hand-back costs no attempt.
DeadLetterAccounted ==
  \A j \in Jobs :
    row[j].status = "dead_letter" /\ RetryClass[j] # "fatal"
      => spent[j] + released[j] >= MaxAttempts

\* A job that is not fatal is dead-lettered only after maxAttempts real failures;
\* so it is as long as no shutdown hands a lease back.
DeadLetterEarned ==
  \A j \in Jobs :
    row[j].status = "dead_letter" /\ RetryClass[j] # "fatal" => spent[j] >= MaxAttempts

\* A lease that has not expired ends only by a step of the worker holding it:
\* no reaper, admin request, stale worker or other batch takes it away.
LiveLeaseRespected ==
  [][\A j \in Jobs :
       row[j].status = "leased" /\ ~row[j].lapsed /\ row'[j].lease # row[j].lease
         => \E w \in Workers :
              Holds(w, j) /\ (exec'[w] # exec[w] \/ worker'[w] # worker[w])]_vars

\* Once completed, a row never changes again, whatever rejected complete(),
\* late fail(), release(), reap, cancel or admin retry still arrives.
CompletedIsFinal ==
  [][\A j \in Jobs : row[j].status = "completed" => row'[j] = row[j]]_vars

\* Every job that is queued is in the end completed, dead-lettered or
\* cancelled, whatever crashes and shutdowns happen on the way.
EveryJobSettles ==
  \A j \in Jobs :
    row[j].status = "pending"
      ~> row[j].status \in {"completed", "dead_letter", "cancelled"}

Lifecycle == INSTANCE JobLifecycle WITH
  Fatal <- {j \in Jobs : RetryClass[j] = "fatal"},
  status <- [j \in Jobs |-> row[j].status],
  failures <- spent, handbacks <- released

\* The queue implements the lifecycle of JobLifecycle.
ImplementsLifecycle == Lifecycle!Spec
=============================================================================
