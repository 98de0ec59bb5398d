--------------------------- MODULE JobQueueProofs ---------------------------
(***************************************************************************)
(* Proofs about the job queue for any set of jobs, any number of workers   *)
(* and any bounds.                                                         *)
(***************************************************************************)
EXTENDS JobQueue, TLAPS

USE DEF history, counters

-----------------------------------------------------------------------------
(* What the update operators do.                                           *)

\* UPDATE ... WHERE id = j replaces that row and no other.
LEMMA SetRowStep ==
  ASSUME row \in [Jobs -> Row], NEW j \in Jobs, NEW r \in Row, SetRow(j, r)
  PROVE  /\ row' \in [Jobs -> Row]
         /\ row'[j] = r
         /\ \A k \in Jobs \ {j} : row'[k] = row[k]
BY DEF SetRow

\* A step of one processJob() call leaves every other call alone.
LEMMA SetExecStep ==
  ASSUME exec \in [Workers -> [Jobs -> Exec]], NEW w \in Workers, NEW j \in Jobs,
         NEW e \in Exec, SetExec(w, j, e)
  PROVE  /\ exec' \in [Workers -> [Jobs -> Exec]]
         /\ exec'[w][j] = e
         /\ \A v \in Workers, k \in Jobs : v # w \/ k # j => exec'[v][k] = exec[v][k]
<1>1. [exec[w] EXCEPT ![j] = e] \in [Jobs -> Exec] OBVIOUS
<1>2. exec' \in [Workers -> [Jobs -> Exec]] BY <1>1 DEF SetExec
<1>3. exec'[w] = [exec[w] EXCEPT ![j] = e] BY DEF SetExec
<1>4. \A v \in Workers \ {w} : exec'[v] = exec[v] BY DEF SetExec
<1> QED BY <1>2, <1>3, <1>4

\* Moving on in processJob() changes the program counter only.
LEMMA GotoStep ==
  ASSUME exec \in [Workers -> [Jobs -> Exec]], NEW w \in Workers, NEW j \in Jobs,
         NEW pc \in Active \cup Ended, Goto(w, j, pc)
  PROVE  /\ exec' \in [Workers -> [Jobs -> Exec]]
         /\ exec'[w][j].pc = pc
         /\ exec'[w][j].lease = exec[w][j].lease
         /\ \A v \in Workers, k \in Jobs : v # w \/ k # j => exec'[v][k] = exec[v][k]
<1>1. exec[w][j] \in Exec OBVIOUS
<1>2. [exec[w][j] EXCEPT !.pc = pc] \in Exec BY <1>1 DEF Exec
<1> QED BY <1>1, <1>2, SetExecStep DEF Goto, Exec

\* Ending a process forgets its processJob() calls and no other process's.
LEMMA ForgetStep ==
  ASSUME exec \in [Workers -> [Jobs -> Exec]], NEW w \in Workers, Forget(w)
  PROVE  /\ exec' \in [Workers -> [Jobs -> Exec]]
         /\ \A j \in Jobs : exec'[w][j] = NoExec
         /\ \A v \in Workers, k \in Jobs : v # w => exec'[v][k] = exec[v][k]
<1>1. NoExec \in Exec BY DEF NoExec, Exec, Active, Ended
<1>2. [j \in Jobs |-> NoExec] \in [Jobs -> Exec] BY <1>1
<1> QED BY <1>2 DEF Forget

\* Ending a lease keeps the attempts and the other columns.
LEMMA UnleaseStep ==
  ASSUME NEW r \in Row, NEW s \in Statuses
  PROVE  /\ Unlease(r, s) \in Row
         /\ Unlease(r, s).status = s
         /\ Unlease(r, s).attempts = r.attempts
BY DEF Unlease, Row

\* A granted lease id is a lease id no process still remembers for the job.
LEMMA NewLeaseStep ==
  ASSUME NEW j \in Jobs, FreshIds(j) # {}
  PROVE  /\ NewLease(j) \in LeaseIds
         /\ \A w \in Workers : NewLease(j) # exec[w][j].lease
<1>1. NewLease(j) \in FreshIds(j) BY DEF NewLease
<1> QED BY <1>1 DEF FreshIds

\* A batch whose runOnce() ended keeps the calls that are still running.
LEMMA RunEndsStep ==
  ASSUME exec \in [Workers -> [Jobs -> Exec]], NEW w \in Workers, RunEnds(w)
  PROVE  /\ exec' \in [Workers -> [Jobs -> Exec]]
         /\ \A j \in Jobs : \/ exec'[w][j] = NoExec
                            \/ /\ exec'[w][j].pc = exec[w][j].pc
                               /\ exec'[w][j].lease = exec[w][j].lease
                               /\ exec'[w][j].verdict = exec[w][j].verdict
         /\ \A v \in Workers, j \in Jobs : v # w => exec'[v][j] = exec[v][j]
<1> DEFINE e == [j \in Jobs |-> IF exec[w][j].pc \in Active
                                 THEN [exec[w][j] EXCEPT !.stray = TRUE] ELSE NoExec]
<1>1. \A j \in Jobs : /\ [exec[w][j] EXCEPT !.stray = TRUE] \in Exec
                      /\ [exec[w][j] EXCEPT !.stray = TRUE].pc = exec[w][j].pc
                      /\ [exec[w][j] EXCEPT !.stray = TRUE].lease = exec[w][j].lease
                      /\ [exec[w][j] EXCEPT !.stray = TRUE].verdict = exec[w][j].verdict
  <2> SUFFICES ASSUME NEW j \in Jobs
               PROVE  /\ [exec[w][j] EXCEPT !.stray = TRUE] \in Exec
                      /\ [exec[w][j] EXCEPT !.stray = TRUE].pc = exec[w][j].pc
                      /\ [exec[w][j] EXCEPT !.stray = TRUE].lease = exec[w][j].lease
                      /\ [exec[w][j] EXCEPT !.stray = TRUE].verdict = exec[w][j].verdict
    OBVIOUS
  <2>1. exec[w][j] \in Exec OBVIOUS
  <2> QED BY <2>1 DEF Exec
<1>2. NoExec \in Exec BY DEF NoExec, Exec, Active, Ended
<1>3. e \in [Jobs -> Exec] BY <1>1, <1>2
<1>4. \A j \in Jobs : \/ e[j] = NoExec
                      \/ /\ e[j].pc = exec[w][j].pc
                         /\ e[j].lease = exec[w][j].lease
                         /\ e[j].verdict = exec[w][j].verdict
  BY <1>1
<1>5. exec' = [exec EXCEPT ![w] = e] BY DEF RunEnds
<1> HIDE DEF e
<1> QED BY <1>3, <1>4, <1>5

\* The lease UPDATE on the rows.
LEMMA LeaseRowsStep ==
  ASSUME TypeOK, NEW w \in Workers, NEW batch \in SUBSET Jobs,
         Grantable(w, batch), LeaseRows(batch)
  PROVE  /\ row' \in [Jobs -> Row]
         /\ \A j \in batch : /\ row'[j].status = "leased"
                             /\ row'[j].lease = NewLease(j)
                             /\ row'[j].attempts = row[j].attempts + 1
         /\ \A j \in Jobs \ batch : row'[j] = row[j]
<1>1. \A j \in batch : NewLease(j) \in LeaseIds BY NewLeaseStep DEF Grantable
<1>2. ASSUME NEW j \in batch
      PROVE  [row[j] EXCEPT !.status = "leased", !.lease = NewLease(j),
                            !.lapsed = FALSE, !.attempts = @ + 1] \in Row
  <2>1. row[j] \in Row BY DEF TypeOK
  <2>2. "leased" \in Statuses BY DEF Statuses
  <2>3. NewLease(j) \in LeaseIds \cup {NoLease} BY <1>1
  <2>4. row[j].attempts + 1 \in Nat BY <2>1 DEF Row
  <2>5. [row[j] EXCEPT !.status = "leased", !.lease = NewLease(j)] \in Row
    BY <2>1, <2>2, <2>3 DEF Row
  <2>6. [[row[j] EXCEPT !.status = "leased", !.lease = NewLease(j)]
            EXCEPT !.lapsed = FALSE, !.attempts = row[j].attempts + 1] \in Row
    BY <2>4, <2>5 DEF Row
  <2> QED BY <2>6
<1>3. row' \in [Jobs -> Row]
  BY <1>2 DEF LeaseRows, TypeOK
<1>4. ASSUME NEW j \in batch
      PROVE  /\ row'[j].status = "leased"
             /\ row'[j].lease = NewLease(j)
             /\ row'[j].attempts = row[j].attempts + 1
  <2>1. row[j] \in Row BY DEF TypeOK
  <2>2. row'[j] = [row[j] EXCEPT !.status = "leased", !.lease = NewLease(j),
                                 !.lapsed = FALSE, !.attempts = @ + 1]
    BY DEF LeaseRows
  <2> QED BY <2>1, <2>2 DEF Row
<1>5. \A j \in Jobs \ batch : row'[j] = row[j] BY DEF LeaseRows
<1> QED BY <1>3, <1>4, <1>5

\* leaseBatch() on the worker that called it: a call per job of the batch, beside
\* the strays of an earlier one.
LEMMA LeaseExecStep ==
  ASSUME TypeOK, NEW w \in Workers, NEW batch \in SUBSET Jobs,
         Grantable(w, batch), LeaseJobs(w, batch)
  PROVE  /\ exec' \in [Workers -> [Jobs -> Exec]]
         /\ \A j \in batch : exec'[w][j].pc = "run" /\ exec'[w][j].lease = NewLease(j)
         /\ \A j \in Jobs \ batch : exec'[w][j] \in {exec[w][j], NoExec}
         /\ \A v \in Workers, j \in Jobs : v # w => exec'[v][j] = exec[v][j]
<1>1. \A j \in batch : NewLease(j) \in LeaseIds BY NewLeaseStep DEF Grantable
<1> DEFINE new(j) == [NoExec EXCEPT !.pc = "run", !.lease = NewLease(j)]
           old(j) == IF Stray(w, j) THEN exec[w][j] ELSE NoExec
           e == [j \in Jobs |-> IF j \in batch THEN new(j) ELSE old(j)]
<1>2. exec \in [Workers -> [Jobs -> Exec]] BY DEF TypeOK
<1>3. \A j \in batch : new(j) \in Exec /\ new(j).pc = "run" /\ new(j).lease = NewLease(j)
  BY <1>1 DEF NoExec, Exec, Active, Ended
<1>4. \A j \in Jobs : old(j) \in Exec /\ old(j) \in {exec[w][j], NoExec}
  <2>1. NoExec \in Exec BY DEF NoExec, Exec, Active, Ended
  <2> QED BY <1>2, <2>1
<1>5. exec' = [exec EXCEPT ![w] = e] BY DEF LeaseJobs
<1> HIDE DEF new, old
<1>6. e \in [Jobs -> Exec] BY <1>3, <1>4
<1>7. exec'[w] = e BY <1>2, <1>5
<1>8. \A j \in batch : exec'[w][j].pc = "run" /\ exec'[w][j].lease = NewLease(j)
  BY <1>3, <1>7
<1>9. \A j \in Jobs \ batch : exec'[w][j] \in {exec[w][j], NoExec}
  BY <1>4, <1>7
<1>10. exec' \in [Workers -> [Jobs -> Exec]]
       /\ \A v \in Workers, j \in Jobs : v # w => exec'[v][j] = exec[v][j]
  <2> HIDE DEF e
  <2> QED BY <1>2, <1>5, <1>6
<1> QED BY <1>8, <1>9, <1>10

-----------------------------------------------------------------------------
(* Type correctness.                                                       *)

\* An empty table and stopped workers are well typed.
LEMMA TypeInit == Init => TypeOK
<1> SUFFICES ASSUME Init PROVE TypeOK OBVIOUS
<1>1. AbsentRow \in Row BY DEF AbsentRow, Row, Statuses
<1>2. NoExec \in Exec BY DEF NoExec, Exec, Active, Ended
<1>3. Down \in Worker BY DEF Down, Worker
<1> QED BY <1>1, <1>2, <1>3 DEF Init, TypeOK

\* Every step keeps the types, one case per statement or worker step.
LEMMA TypeStep == TypeOK /\ [Next]_vars => TypeOK'
<1> SUFFICES ASSUME TypeOK, [Next]_vars PROVE TypeOK' OBVIOUS
<1> USE DEF TypeOK
<1>s. {"pending", "leased", "completed", "dead_letter", "cancelled"} \subseteq Statuses
  BY DEF Statuses
<1>1. ASSUME NEW j \in Jobs, Environment(j) PROVE TypeOK'
  <2>r. row[j] \in Row OBVIOUS
  <2>1. CASE Enqueue(j)
    <3>1. \A due \in BOOLEAN : [AbsentRow EXCEPT !.status = "pending", !.due = due] \in Row
      BY <1>s DEF AbsentRow, Row
    <3> QED BY <2>1, <3>1, SetRowStep DEF Enqueue
  <2>2. CASE RequestCancel(j)
    <3>1. [row[j] EXCEPT !.status = "cancelled", !.cancel = TRUE] \in Row BY <1>s, <2>r DEF Row
    <3> QED BY <2>2, <3>1, SetRowStep DEF RequestCancel
  <2>3. CASE FlagCancel(j)
    <3>1. [row[j] EXCEPT !.cancel = TRUE] \in Row BY <2>r DEF Row
    <3> QED BY <2>3, <3>1, SetRowStep DEF FlagCancel
  <2>4. CASE Requeue(j)
    <3>1. [row[j] EXCEPT !.status = "pending", !.attempts = 0,
                         !.cancel = FALSE, !.due = TRUE] \in Row
      <4>1. [row[j] EXCEPT !.status = "pending", !.attempts = 0] \in Row BY <1>s, <2>r DEF Row
      <4>2. [[row[j] EXCEPT !.status = "pending", !.attempts = 0]
               EXCEPT !.cancel = FALSE, !.due = TRUE] \in Row
        BY <4>1 DEF Row
      <4> QED BY <4>2
    <3>2. row' \in [Jobs -> Row] BY <2>4, <3>1, SetRowStep DEF Requeue
    <3>3. spent' \in [Jobs -> Nat] /\ released' \in [Jobs -> Nat] /\ requeues' \in Nat
      BY <2>4 DEF Requeue
    <3> QED BY <2>4, <3>2, <3>3 DEF Requeue
  <2>5. CASE BecomesDue(j)
    <3>1. [row[j] EXCEPT !.due = TRUE] \in Row BY <2>r DEF Row
    <3> QED BY <2>5, <3>1, SetRowStep DEF BecomesDue
  <2>6. CASE LeaseLapses(j)
    <3>1. [row[j] EXCEPT !.lapsed = TRUE] \in Row BY <2>r DEF Row
    <3> QED BY <2>6, <3>1, SetRowStep DEF LeaseLapses
  <2> QED BY <1>1, <2>1, <2>2, <2>3, <2>4, <2>5, <2>6 DEF Environment
<1>2. ASSUME NEW w \in Workers, NEW p \in Worker, SetWorker(w, p)
      PROVE  worker' \in [Workers -> Worker]
  BY <1>2 DEF SetWorker
<1>3. ASSUME NEW w \in Workers, NEW ph \in {"idle", "reap", "lease", "run"}
      PROVE  [worker[w] EXCEPT !.phase = ph] \in Worker
  <2>1. worker[w] \in Worker OBVIOUS
  <2> QED BY <2>1 DEF Worker
<1>4. ASSUME NEW js \in SUBSET Jobs, NEW s \in Statuses, Reap(js, s)
      PROVE  row' \in [Jobs -> Row] /\ spent' \in [Jobs -> Nat]
  <2>1. \A j \in Jobs : Unlease(row[j], s) \in Row BY UnleaseStep
  <2>2. row' \in [Jobs -> Row] BY <1>4, <2>1 DEF Reap
  <2>3. spent' \in [Jobs -> Nat] BY <1>4 DEF Reap
  <2> QED BY <2>2, <2>3
<1>5. ASSUME NEW w \in Workers, RunOnce(w) PROVE TypeOK'
  <2>1. CASE ReapRequeue(w)
    <3>1. {j \in Reapable : row[j].attempts < MaxAttempts} \in SUBSET Jobs BY DEF Reapable
    <3> QED BY <2>1, <3>1, <1>s, <1>2, <1>3, <1>4 DEF ReapRequeue
  <2>2. CASE ReapDeadLetter(w)
    <3>1. {j \in Reapable : row[j].attempts >= MaxAttempts} \in SUBSET Jobs BY DEF Reapable
    <3> QED BY <2>2, <3>1, <1>s, <1>2, <1>3, <1>4 DEF ReapDeadLetter
  <2>3. CASE LeaseBatch(w)
    <3>1. PICK batch \in Batches :
            /\ Grantable(w, batch)
            /\ LeaseJobs(w, batch)
            /\ SetWorker(w, [worker[w] EXCEPT !.phase = IF batch = {} THEN "idle" ELSE "run"])
      BY <2>3 DEF LeaseBatch
    <3>2. batch \in SUBSET Jobs BY DEF Batches, Leasable
    <3>3. row' \in [Jobs -> Row] /\ exec' \in [Workers -> [Jobs -> Exec]]
      BY <3>1, <3>2, LeaseRowsStep, LeaseExecStep DEF LeaseJobs
    <3>4. worker' \in [Workers -> Worker] BY <3>1, <1>2, <1>3
    <3> QED BY <2>3, <3>3, <3>4 DEF LeaseBatch
  <2>4. CASE RunEnds(w)
    <3>1. exec' \in [Workers -> [Jobs -> Exec]] BY <2>4, RunEndsStep
    <3>2. worker' \in [Workers -> Worker] BY <2>4, <1>2, <1>3 DEF RunEnds
    <3> QED BY <2>4, <3>1, <3>2 DEF RunEnds
  <2> QED BY <1>5, <2>1, <2>2, <2>3, <2>4 DEF RunOnce
<1>6. ASSUME NEW w \in Workers, Process(w) PROVE TypeOK'
  <2>p. worker[w] \in Worker OBVIOUS
  <2>d. Down \in Worker BY DEF Down, Worker
  <2>1. CASE Boot(w) BY <2>1, <1>2, <1>3 DEF Boot
  <2>2. CASE Shutdown(w)
    <3>1. [worker[w] EXCEPT !.stop = "grace"] \in Worker BY <2>p DEF Worker
    <3> QED BY <2>2, <3>1, <1>2 DEF Shutdown
  <2>3. CASE GraceExceeded(w)
    <3>1. [worker[w] EXCEPT !.stop = "release",
                            !.left = {j \in Jobs : InFlight(w, j)}] \in Worker
      BY <2>p DEF Worker
    <3> QED BY <2>3, <3>1, <1>2 DEF GraceExceeded
  <2>4. CASE Exit(w) BY <2>4, <2>d, <1>2, ForgetStep DEF Exit
  <2>5. CASE Crash(w) BY <2>5, <2>d, <1>2, ForgetStep DEF Crash
  <2>6. CASE RunRejects(w)
    <3>1. worker' \in [Workers -> Worker] BY <2>6, <1>2, <1>3 DEF RunRejects
    <3>2. crashes' \in Nat BY <2>6 DEF RunRejects
    <3>3. row' \in [Jobs -> Row]
      <4>1. ASSUME NEW batch \in Batches, Grantable(w, batch), LeaseRows(batch)
            PROVE  row' \in [Jobs -> Row]
        <5>1. batch \in SUBSET Jobs BY DEF Batches, Leasable
        <5> QED BY <4>1, <5>1, LeaseRowsStep
      <4> QED BY <2>6, <4>1 DEF RunRejects
    <3> QED BY <2>6, <3>1, <3>2, <3>3 DEF RunRejects
  <2> QED BY <1>6, <2>1, <2>2, <2>3, <2>4, <2>5, <2>6 DEF Process
<1>7. ASSUME NEW w \in Workers, NEW j \in Jobs, ProcessJob(w, j) PROVE TypeOK'
  <2>r. row[j] \in Row /\ exec[w][j] \in Exec OBVIOUS
  <2>a. {"complete", "fail", "done", "rejected"} \subseteq Active \cup Ended
    BY DEF Active, Ended
  <2>c. CompleteRow(w, j) => row' \in [Jobs -> Row]
    BY <1>s, <2>r, UnleaseStep, SetRowStep DEF CompleteRow
  <2>1. CASE Heartbeat(w, j)
    <3>1. [row[j] EXCEPT !.lapsed = FALSE] \in Row BY <2>r DEF Row
    <3>2. [exec[w][j] EXCEPT !.cancelled = TRUE] \in Exec BY <2>r DEF Exec
    <3>3. [exec[w][j] EXCEPT !.lost = TRUE] \in Exec BY <2>r DEF Exec
    <3>4. row' \in [Jobs -> Row] BY <2>1, <3>1, SetRowStep DEF Heartbeat
    <3>5. exec' \in [Workers -> [Jobs -> Exec]]
      BY <2>1, <3>2, <3>3, SetExecStep DEF Heartbeat
    <3> QED BY <2>1, <3>4, <3>5 DEF Heartbeat
  <2>2. CASE HandlerReturns(w, j) BY <2>2, <2>a, GotoStep DEF HandlerReturns
  <2>3. CASE HandlerThrows(w, j) BY <2>3, <2>a, GotoStep DEF HandlerThrows
  <2>4. CASE Complete(w, j) BY <2>4, <2>a, <2>c, GotoStep DEF Complete
  <2>5. CASE CompleteRejects(w, j) BY <2>5, <2>a, <2>c, GotoStep DEF CompleteRejects
  <2>6. CASE FailSelect(w, j)
    <3>1. [exec[w][j] EXCEPT !.pc = "failwrite",
                             !.verdict = DecideRetry(j, row[j].attempts)] \in Exec
      BY <2>r DEF Exec, Active, DecideRetry
    <3> QED BY <2>6, <2>a, <3>1, SetExecStep, GotoStep DEF FailSelect
  <2>f. FailRow(w, j) => row' \in [Jobs -> Row] /\ spent' \in [Jobs -> Nat]
    <3>1. Unlease(row[j], "dead_letter") \in Row BY <1>s, <2>r, UnleaseStep
    <3>2. Unlease(row[j], "pending") \in Row BY <1>s, <2>r, UnleaseStep
    <3>3. [Unlease(row[j], "pending") EXCEPT !.due = FALSE] \in Row BY <3>2 DEF Row
    <3>4. FailRow(w, j) => row' \in [Jobs -> Row] BY <3>1, <3>3, SetRowStep DEF FailRow
    <3>5. FailRow(w, j) => spent' \in [Jobs -> Nat] BY DEF FailRow
    <3> QED BY <3>4, <3>5
  <2>7. CASE FailUpdate(w, j)
    <3>1. exec' \in [Workers -> [Jobs -> Exec]] BY <2>7, <2>a, GotoStep DEF FailUpdate
    <3> QED BY <2>7, <2>f, <3>1 DEF FailUpdate
  <2>8. CASE FailRejects(w, j)
    <3>1. exec' \in [Workers -> [Jobs -> Exec]] BY <2>8, <2>a, GotoStep DEF FailRejects
    <3> QED BY <2>8, <2>f, <3>1 DEF FailRejects
  <2> QED BY <1>7, <2>1, <2>2, <2>3, <2>4, <2>5, <2>6, <2>7, <2>8 DEF ProcessJob
<1>8. ASSUME NEW w \in Workers, NEW j \in Jobs, Release(w, j) PROVE TypeOK'
  <2>1. Unlease(row[j], "pending") \in Row BY <1>s, UnleaseStep
  <2>2. row' \in [Jobs -> Row] BY <1>8, <2>1, SetRowStep DEF Release
  <2>3. [worker[w] EXCEPT !.left = @ \ {j}] \in Worker
    <3>1. worker[w] \in Worker OBVIOUS
    <3> QED BY <3>1 DEF Worker
  <2>4. released' \in [Jobs -> Nat] BY <1>8 DEF Release
  <2> QED BY <1>8, <1>2, <2>2, <2>3, <2>4 DEF Release
<1>9. CASE UNCHANGED vars BY <1>9 DEF vars
<1> QED BY <1>1, <1>5, <1>6, <1>7, <1>8, <1>9 DEF Next

\* The table, the processJob() calls and the worker loops keep their types
\* under every statement of store.ts and every step of a worker.
THEOREM TypeCorrect == Spec => []TypeOK
BY TypeInit, TypeStep, PTL DEF Spec

-----------------------------------------------------------------------------
(* What one step may do to one row and to one processJob() call.  Every    *)
(* invariant below, and the refinement, is proved from these two facts.    *)

\* At most one processJob() call remembers a lease id of a job.
LeaseIdsDistinct ==
  \A j \in Jobs, w, v \in Workers :
    exec[w][j].pc # "none" /\ exec[v][j].pc # "none" /\ w # v
      => exec[w][j].lease # exec[v][j].lease

SameRow(j) ==
  /\ row'[j].status = row[j].status
  /\ row'[j].lease = row[j].lease
  /\ row'[j].attempts = row[j].attempts
SameHistory(j) == spent'[j] = spent[j] /\ released'[j] = released[j]

\* The row keeps its attempts and moves from status s to status t.
RowMoves(j, s, t) ==
  row[j].status = s /\ row'[j].status = t /\ row'[j].attempts = row[j].attempts

RowEnqueued(j) ==
  /\ row[j].status = "absent" /\ row'[j].status = "pending" /\ row'[j].attempts = 0
  /\ SameHistory(j)
RowRequeued(j) ==
  /\ row[j].status \in {"dead_letter", "cancelled"}
  /\ row'[j].status = "pending" /\ row'[j].attempts = 0
  /\ spent'[j] = 0 /\ released'[j] = 0
RowLeased(j) ==
  /\ row[j].status = "pending" /\ row'[j].status = "leased"
  /\ row'[j].attempts = row[j].attempts + 1
  /\ FreshIds(j) # {} /\ row'[j].lease = NewLease(j)
  /\ SameHistory(j)
RowRetried(j) ==
  /\ RowMoves(j, "leased", "pending") /\ row[j].attempts < MaxAttempts
  /\ spent'[j] = spent[j] + 1 /\ released'[j] = released[j]
RowDead(j) ==
  /\ RowMoves(j, "leased", "dead_letter")
  /\ RetryClass[j] = "fatal" \/ row[j].attempts >= MaxAttempts
  /\ spent'[j] = spent[j] + 1 /\ released'[j] = released[j]
RowReleased(j) ==
  /\ RowMoves(j, "leased", "pending")
  /\ spent'[j] = spent[j] /\ released'[j] = released[j] + 1

RowStep(j) ==
  \/ SameRow(j) /\ SameHistory(j)
  \/ RowMoves(j, "pending", "cancelled") /\ SameHistory(j)
  \/ RowMoves(j, "leased", "completed") /\ SameHistory(j)
  \/ RowEnqueued(j) \/ RowRequeued(j) \/ RowLeased(j)
  \/ RowRetried(j) \/ RowDead(j) \/ RowReleased(j)

SameExec(w, j) ==
  /\ exec'[w][j].pc = exec[w][j].pc
  /\ exec'[w][j].lease = exec[w][j].lease
  /\ exec'[w][j].verdict = exec[w][j].verdict
ExecMoved(w, j) ==
  /\ exec[w][j].pc # "none" /\ exec'[w][j].pc # "failwrite"
  /\ exec'[w][j].lease = exec[w][j].lease
ExecDecided(w, j) ==
  /\ exec[w][j].pc # "none" /\ exec'[w][j].pc = "failwrite"
  /\ exec'[w][j].lease = exec[w][j].lease
  /\ exec'[w][j].verdict = DecideRetry(j, row[j].attempts)
  /\ row' = row
ExecLeased(w, j) ==
  /\ exec'[w][j].pc = "run"
  /\ FreshIds(j) # {} /\ exec'[w][j].lease = NewLease(j)
  /\ \A v \in Workers : v # w => exec'[v][j] = exec[v][j]

ExecStep(w, j) ==
  \/ SameExec(w, j) \/ ExecMoved(w, j) \/ ExecDecided(w, j)
  \/ exec'[w][j] = NoExec \/ ExecLeased(w, j)

\* Every step does one of these things to a row.
LEMMA RowSteps ==
  ASSUME TypeOK, DecisionCurrent, [Next]_vars, NEW j \in Jobs
  PROVE  RowStep(j)
<1> USE MaxAttemptsAssumption
<1>t. row \in [Jobs -> Row] /\ spent \in [Jobs -> Nat] /\ released \in [Jobs -> Nat]
  BY DEF TypeOK
<1>r. \A k \in Jobs : row[k] \in Row BY <1>t
<1>s. {"pending", "leased", "completed", "dead_letter", "cancelled"} \subseteq Statuses
  BY DEF Statuses
<1>u. ASSUME NEW k \in Jobs, NEW r \in Row, SetRow(k, r), j # k PROVE row'[j] = row[j]
  BY <1>u, <1>t, SetRowStep
<1>x. \A k \in Jobs, s \in Statuses :
        /\ Unlease(row[k], s) \in Row
        /\ Unlease(row[k], s).status = s
        /\ Unlease(row[k], s).attempts = row[k].attempts
  BY <1>r, UnleaseStep
<1>0. CASE row' = row /\ spent' = spent /\ released' = released
  BY <1>0 DEF RowStep, SameRow, SameHistory
<1>1. ASSUME NEW k \in Jobs, Environment(k) PROVE RowStep(j)
  <2>1. CASE Enqueue(k)
    <3>1. PICK due \in BOOLEAN : SetRow(k, [AbsentRow EXCEPT !.status = "pending", !.due = due])
      BY <2>1 DEF Enqueue
    <3> DEFINE r == [AbsentRow EXCEPT !.status = "pending", !.due = due]
    <3>2. r \in Row /\ r.status = "pending" /\ r.attempts = 0 BY <1>s DEF AbsentRow, Row
    <3> HIDE DEF r
    <3>3. row'[k] = r /\ (j # k => row'[j] = row[j]) BY <3>1, <3>2, <1>t, SetRowStep DEF r
    <3> QED BY <2>1, <3>2, <3>3 DEF Enqueue, RowStep, RowEnqueued, SameRow, SameHistory
  <2>2. CASE RequestCancel(k)
    <3> DEFINE r == [row[k] EXCEPT !.status = "cancelled", !.cancel = TRUE]
    <3>1. r \in Row /\ r.status = "cancelled" /\ r.attempts = row[k].attempts
      BY <1>s, <1>r DEF Row
    <3> HIDE DEF r
    <3>2. CASE SetRow(k, r) /\ row[k].status = "pending"
      <4>1. row'[k] = r /\ (j # k => row'[j] = row[j]) BY <3>1, <3>2, <1>t, SetRowStep
      <4> QED BY <2>2, <3>1, <3>2, <4>1 DEF RequestCancel, RowStep, RowMoves, SameRow, SameHistory
    <3> QED BY <1>0, <2>2, <3>2 DEF RequestCancel, r
  <2>3. CASE FlagCancel(k)
    <3> DEFINE r == [row[k] EXCEPT !.cancel = TRUE]
    <3>1. /\ r \in Row /\ r.status = row[k].status
          /\ r.attempts = row[k].attempts /\ r.lease = row[k].lease
      BY <1>r DEF Row
    <3> HIDE DEF r
    <3>2. CASE SetRow(k, r)
      <4>1. row'[k] = r /\ (j # k => row'[j] = row[j]) BY <3>1, <3>2, <1>t, SetRowStep
      <4> QED BY <2>3, <3>1, <4>1 DEF FlagCancel, RowStep, SameRow, SameHistory
    <3> QED BY <1>0, <2>3, <3>2 DEF FlagCancel, r
  <2>4. CASE Requeue(k)
    <3> DEFINE r == [row[k] EXCEPT !.status = "pending", !.attempts = 0,
                                   !.cancel = FALSE, !.due = TRUE]
    <3>1. r.status = "pending" /\ r.attempts = 0 BY <1>r DEF Row
    <3>2. SetRow(k, r) BY <2>4 DEF Requeue
    <3> HIDE DEF r
    <3>3. row'[k] = r /\ (j # k => row'[j] = row[j]) BY <3>2, <1>t DEF SetRow
    <3>4. /\ spent'[k] = 0 /\ released'[k] = 0
          /\ j # k => spent'[j] = spent[j] /\ released'[j] = released[j]
      BY <2>4, <1>t DEF Requeue
    <3> QED BY <2>4, <3>1, <3>3, <3>4 DEF Requeue, RowStep, RowRequeued, SameRow, SameHistory
  <2>5. CASE BecomesDue(k)
    <3> DEFINE r == [row[k] EXCEPT !.due = TRUE]
    <3>1. /\ r \in Row /\ r.status = row[k].status
          /\ r.attempts = row[k].attempts /\ r.lease = row[k].lease
      BY <1>r DEF Row
    <3>2. SetRow(k, r) BY <2>5 DEF BecomesDue
    <3> HIDE DEF r
    <3>3. row'[k] = r /\ (j # k => row'[j] = row[j]) BY <3>1, <3>2, <1>t, SetRowStep
    <3> QED BY <2>5, <3>1, <3>3 DEF BecomesDue, RowStep, SameRow, SameHistory
  <2>6. CASE LeaseLapses(k)
    <3> DEFINE r == [row[k] EXCEPT !.lapsed = TRUE]
    <3>1. /\ r \in Row /\ r.status = row[k].status
          /\ r.attempts = row[k].attempts /\ r.lease = row[k].lease
      BY <1>r DEF Row
    <3>2. SetRow(k, r) BY <2>6 DEF LeaseLapses
    <3> HIDE DEF r
    <3>3. row'[k] = r /\ (j # k => row'[j] = row[j]) BY <3>1, <3>2, <1>t, SetRowStep
    <3> QED BY <2>6, <3>1, <3>3 DEF LeaseLapses, RowStep, SameRow, SameHistory
  <2> QED BY <1>1, <2>1, <2>2, <2>3, <2>4, <2>5, <2>6 DEF Environment
<1>l. ASSUME NEW w \in Workers, NEW batch \in Batches, Grantable(w, batch), LeaseRows(batch),
             SameHistory(j)
      PROVE  RowStep(j)
  <2>1. batch \in SUBSET Jobs /\ \A i \in batch : row[i].status = "pending"
    BY DEF Batches, Leasable
  <2>2. CASE j \in batch
    BY <1>l, <2>1, <2>2, LeaseRowsStep DEF Grantable, RowStep, RowLeased
  <2>3. CASE j \notin batch
    BY <1>l, <2>1, <2>3, LeaseRowsStep DEF RowStep, SameRow
  <2> QED BY <2>2, <2>3
<1>2. ASSUME NEW w \in Workers, RunOnce(w) PROVE RowStep(j)
  <2>1. CASE ReapRequeue(w)
    <3>1. CASE j \in Reapable /\ row[j].attempts < MaxAttempts
      <4>1. row'[j] = Unlease(row[j], "pending") /\ spent'[j] = spent[j] + 1
        BY <2>1, <3>1 DEF ReapRequeue, Reap
      <4> QED BY <2>1, <3>1, <4>1, <1>s, <1>x
              DEF ReapRequeue, Reapable, RowStep, RowRetried, RowMoves
    <3>2. CASE ~(j \in Reapable /\ row[j].attempts < MaxAttempts)
      <4>1. row'[j] = row[j] /\ spent'[j] = spent[j] BY <2>1, <3>2 DEF ReapRequeue, Reap
      <4> QED BY <2>1, <4>1 DEF ReapRequeue, RowStep, SameRow, SameHistory
    <3> QED BY <3>1, <3>2
  <2>2. CASE ReapDeadLetter(w)
    <3>1. CASE j \in Reapable /\ row[j].attempts >= MaxAttempts
      <4>1. row'[j] = Unlease(row[j], "dead_letter") /\ spent'[j] = spent[j] + 1
        BY <2>2, <3>1 DEF ReapDeadLetter, Reap
      <4> QED BY <2>2, <3>1, <4>1, <1>s, <1>x
              DEF ReapDeadLetter, Reapable, RowStep, RowDead, RowMoves
    <3>2. CASE ~(j \in Reapable /\ row[j].attempts >= MaxAttempts)
      <4>1. row'[j] = row[j] /\ spent'[j] = spent[j] BY <2>2, <3>2 DEF ReapDeadLetter, Reap
      <4> QED BY <2>2, <4>1 DEF ReapDeadLetter, RowStep, SameRow, SameHistory
    <3> QED BY <3>1, <3>2
  <2>3. CASE LeaseBatch(w)
    <3>1. \E batch \in Batches : Grantable(w, batch) /\ LeaseRows(batch)
      BY <2>3 DEF LeaseBatch, LeaseJobs
    <3> QED BY <2>3, <3>1, <1>l DEF LeaseBatch, SameHistory
  <2>4. CASE RunEnds(w) BY <2>4, <1>0 DEF RunEnds
  <2> QED BY <1>2, <2>1, <2>2, <2>3, <2>4 DEF RunOnce
<1>3. ASSUME NEW w \in Workers, Process(w) PROVE RowStep(j)
  <2>1. CASE RunRejects(w)
    <3>1. SameHistory(j) BY <2>1 DEF RunRejects, SameHistory
    <3> QED BY <2>1, <3>1, <1>0, <1>l DEF RunRejects
  <2>2. CASE ~RunRejects(w)
    BY <1>3, <2>2, <1>0 DEF Process, Boot, Shutdown, GraceExceeded, Exit, Crash
  <2> QED BY <2>1, <2>2
<1>4. ASSUME NEW w \in Workers, NEW k \in Jobs, ProcessJob(w, k) PROVE RowStep(j)
  <2>c. ASSUME CompleteRow(w, k), spent' = spent, released' = released PROVE RowStep(j)
    <3>1. CASE Holds(w, k)
      <4>1. SetRow(k, Unlease(row[k], "completed")) BY <2>c, <3>1 DEF CompleteRow
      <4>2. row'[k] = Unlease(row[k], "completed") /\ (j # k => row'[j] = row[j])
        BY <4>1, <1>t, <1>s, <1>x, SetRowStep
      <4> QED BY <2>c, <3>1, <4>2, <1>s, <1>x
              DEF Holds, RowStep, RowMoves, SameRow, SameHistory
    <3>2. CASE ~Holds(w, k) BY <2>c, <3>2, <1>0 DEF CompleteRow
    <3> QED BY <3>1, <3>2
  <2>1. CASE Heartbeat(w, k)
    <3>1. CASE Holds(w, k)
      <4> DEFINE r == [row[k] EXCEPT !.lapsed = FALSE]
      <4>1. /\ r \in Row /\ r.status = row[k].status
            /\ r.attempts = row[k].attempts /\ r.lease = row[k].lease
        BY <1>r DEF Row
      <4>2. SetRow(k, r) BY <2>1, <3>1 DEF Heartbeat
      <4> HIDE DEF r
      <4>3. row'[k] = r /\ (j # k => row'[j] = row[j]) BY <4>1, <4>2, <1>t, SetRowStep
      <4> QED BY <2>1, <4>1, <4>3 DEF Heartbeat, RowStep, SameRow, SameHistory
    <3>2. CASE ~Holds(w, k) BY <2>1, <3>2, <1>0 DEF Heartbeat
    <3> QED BY <3>1, <3>2
  <2>2. CASE HandlerReturns(w, k) BY <2>2, <1>0 DEF HandlerReturns
  <2>3. CASE HandlerThrows(w, k) BY <2>3, <1>0 DEF HandlerThrows
  <2>4. CASE Complete(w, k) BY <2>4, <2>c DEF Complete
  <2>5. CASE CompleteRejects(w, k) BY <2>5, <2>c, <1>0 DEF CompleteRejects
  <2>6. CASE FailSelect(w, k) BY <2>6, <1>0 DEF FailSelect
  <2>f. ASSUME exec[w][k].pc = "failwrite", FailRow(w, k), released' = released PROVE RowStep(j)
    <3>1. CASE Holds(w, k)
      <4>1. exec[w][k].verdict = DecideRetry(k, row[k].attempts)
        BY <2>f, <3>1 DEF DecisionCurrent
      <4>2. /\ spent'[k] = spent[k] + 1 /\ (j # k => spent'[j] = spent[j])
            /\ released' = released
        BY <2>f, <3>1, <1>t DEF FailRow
      <4>3. row[k].status = "leased" BY <3>1 DEF Holds
      <4>4. CASE exec[w][k].verdict = "dead_letter"
        <5>1. row'[k] = Unlease(row[k], "dead_letter") /\ (j # k => row'[j] = row[j])
          BY <2>f, <3>1, <4>4, <1>t, <1>s, <1>x, SetRowStep DEF FailRow
        <5>2. RetryClass[k] = "fatal" \/ row[k].attempts >= MaxAttempts
          BY <4>1, <4>4 DEF DecideRetry
        <5> QED BY <4>2, <4>3, <5>1, <5>2, <1>s, <1>x
                DEF RowStep, RowDead, RowMoves, SameRow, SameHistory
      <4>5. CASE exec[w][k].verdict # "dead_letter"
        <5> DEFINE u == Unlease(row[k], "pending")
        <5> DEFINE r == [u EXCEPT !.due = FALSE]
        <5>0. u \in Row /\ u.status = "pending" /\ u.attempts = row[k].attempts
          BY <1>s, <1>x
        <5>1. r \in Row /\ r.status = "pending" /\ r.attempts = row[k].attempts
          <6> HIDE DEF u
          <6> QED BY <5>0 DEF Row
        <5>2. SetRow(k, r) BY <2>f, <3>1, <4>5 DEF FailRow
        <5> HIDE DEF r
        <5>3. row'[k] = r /\ (j # k => row'[j] = row[j]) BY <5>1, <5>2, <1>t, SetRowStep
        <5>4. row[k].attempts < MaxAttempts
          BY <4>1, <4>5, <1>r DEF DecideRetry, Row
        <5> QED BY <4>2, <4>3, <5>1, <5>3, <5>4
                DEF RowStep, RowRetried, RowMoves, SameRow, SameHistory
      <4> QED BY <4>4, <4>5
    <3>2. CASE ~Holds(w, k) BY <2>f, <3>2, <1>0 DEF FailRow
    <3> QED BY <3>1, <3>2
  <2>7. CASE FailUpdate(w, k) BY <2>7, <2>f DEF FailUpdate
  <2>8. CASE FailRejects(w, k) BY <2>8, <2>f, <1>0 DEF FailRejects
  <2> QED BY <1>4, <2>1, <2>2, <2>3, <2>4, <2>5, <2>6, <2>7, <2>8 DEF ProcessJob
<1>5. ASSUME NEW w \in Workers, NEW k \in Jobs, Release(w, k) PROVE RowStep(j)
  <2>1. CASE Holds(w, k)
    <3>1. row'[k] = Unlease(row[k], "pending") /\ (j # k => row'[j] = row[j])
      BY <1>5, <2>1, <1>t, <1>s, <1>x, SetRowStep DEF Release
    <3>2. /\ released'[k] = released[k] + 1 /\ (j # k => released'[j] = released[j])
          /\ spent' = spent
      BY <1>5, <2>1, <1>t DEF Release
    <3> QED BY <2>1, <3>1, <3>2, <1>s, <1>x
            DEF Holds, RowStep, RowReleased, RowMoves, SameRow, SameHistory
  <2>2. CASE ~Holds(w, k) BY <1>5, <2>2, <1>0 DEF Release
  <2> QED BY <2>1, <2>2
<1>6. CASE UNCHANGED vars BY <1>6, <1>0 DEF vars
<1> QED BY <1>1, <1>2, <1>3, <1>4, <1>5, <1>6 DEF Next

\* The two flags a heartbeat sets leave the rest of a call's state.
LEMMA ExecFlags ==
  ASSUME NEW e \in Exec
  PROVE  \A f \in {[e EXCEPT !.cancelled = TRUE], [e EXCEPT !.lost = TRUE]} :
           f \in Exec /\ f.pc = e.pc /\ f.lease = e.lease /\ f.verdict = e.verdict
BY DEF Exec

\* So does the decision of fail(), but for the verdict and the program counter.
LEMMA ExecVerdict ==
  ASSUME NEW e \in Exec, NEW d \in {"retry", "dead_letter"}
  PROVE  LET f == [e EXCEPT !.pc = "failwrite", !.verdict = d] IN
         f \in Exec /\ f.pc = "failwrite" /\ f.lease = e.lease /\ f.verdict = d
<1>1. "failwrite" \in Active \cup Ended BY DEF Active
<1>2. d \in {"none", "retry", "dead_letter"} OBVIOUS
<1> QED BY <1>1, <1>2 DEF Exec

\* Every step does one of these things to a processJob() call.
LEMMA ExecSteps ==
  ASSUME TypeOK, [Next]_vars, NEW w \in Workers, NEW j \in Jobs
  PROVE  ExecStep(w, j)
<1>t. row \in [Jobs -> Row] /\ exec \in [Workers -> [Jobs -> Exec]] BY DEF TypeOK
<1>e. \A v \in Workers, k \in Jobs : exec[v][k] \in Exec BY <1>t
<1>0. CASE exec' = exec BY <1>0 DEF ExecStep, SameExec
<1>f. ASSUME NEW v \in Workers, Forget(v) PROVE ExecStep(w, j)
  <2>1. CASE v = w BY <1>f, <2>1, <1>t, ForgetStep DEF ExecStep
  <2>2. CASE v # w BY <1>f, <2>2, <1>t, ForgetStep DEF ExecStep, SameExec
  <2> QED BY <2>1, <2>2
<1>g. ASSUME NEW v \in Workers, NEW k \in Jobs, NEW pc \in (Active \cup Ended) \ {"failwrite"},
             exec[v][k].pc # "none", Goto(v, k, pc)
      PROVE  ExecStep(w, j)
  BY <1>g, <1>t, GotoStep DEF ExecStep, ExecMoved, SameExec
<1>1. ASSUME NEW k \in Jobs, Environment(k) PROVE ExecStep(w, j)
  BY <1>1, <1>0 DEF Environment, Enqueue, RequestCancel, FlagCancel, Requeue, BecomesDue, LeaseLapses
<1>2. ASSUME NEW v \in Workers, RunOnce(v) PROVE ExecStep(w, j)
  <2>1. CASE LeaseBatch(v)
    <3>1. PICK batch \in Batches : Grantable(v, batch) /\ LeaseJobs(v, batch)
      BY <2>1 DEF LeaseBatch
    <3>2. batch \in SUBSET Jobs BY DEF Batches, Leasable
    <3>3. CASE v # w BY <3>1, <3>2, <3>3, LeaseExecStep DEF ExecStep, SameExec
    <3>4. CASE v = w /\ j \in batch
      BY <3>1, <3>2, <3>4, LeaseExecStep DEF Grantable, ExecStep, ExecLeased
    <3>5. CASE v = w /\ j \notin batch
      BY <3>1, <3>2, <3>5, LeaseExecStep DEF ExecStep, SameExec
    <3> QED BY <3>3, <3>4, <3>5
  <2>2. CASE RunEnds(v) BY <2>2, <1>t, RunEndsStep DEF ExecStep, SameExec
  <2> QED BY <1>2, <1>0, <2>1, <2>2 DEF RunOnce, ReapRequeue, ReapDeadLetter
<1>3. ASSUME NEW v \in Workers, Process(v) PROVE ExecStep(w, j)
  BY <1>3, <1>0, <1>f DEF Process, Boot, Shutdown, GraceExceeded, Exit, Crash, RunRejects
<1>4. ASSUME NEW v \in Workers, NEW k \in Jobs, ProcessJob(v, k) PROVE ExecStep(w, j)
  <2>a. {"complete", "fail", "done", "rejected"} \subseteq (Active \cup Ended) \ {"failwrite"}
    BY DEF Active, Ended
  <2>1. CASE Heartbeat(v, k)
    <3>1. ASSUME NEW e \in Exec, SetExec(v, k, e), e.pc = exec[v][k].pc,
                 e.lease = exec[v][k].lease, e.verdict = exec[v][k].verdict
          PROVE  ExecStep(w, j)
      <4>1. /\ exec'[v][k] = e
            /\ v # w \/ k # j => exec'[w][j] = exec[w][j]
        BY <3>1, <1>t, SetExecStep
      <4>2. SameExec(w, j)
        BY <3>1, <4>1 DEF SameExec
      <4> QED BY <4>2 DEF ExecStep
    <3> DEFINE c == [exec[v][k] EXCEPT !.cancelled = TRUE]
               l == [exec[v][k] EXCEPT !.lost = TRUE]
    <3>e. exec[v][k] \in Exec
      BY <1>e
    <3>2. /\ c \in Exec /\ c.pc = exec[v][k].pc
          /\ c.lease = exec[v][k].lease /\ c.verdict = exec[v][k].verdict
      BY <3>e, ExecFlags
    <3>3. /\ l \in Exec /\ l.pc = exec[v][k].pc
          /\ l.lease = exec[v][k].lease /\ l.verdict = exec[v][k].verdict
      BY <3>e, ExecFlags
    <3>4. exec' = exec \/ SetExec(v, k, c) \/ SetExec(v, k, l) BY <2>1 DEF Heartbeat
    <3> HIDE DEF c, l
    <3> QED BY <1>0, <3>1, <3>2, <3>3, <3>4
  <2>2. CASE HandlerReturns(v, k) BY <2>2, <2>a, <1>g DEF HandlerReturns
  <2>3. CASE HandlerThrows(v, k) BY <2>3, <2>a, <1>g DEF HandlerThrows
  <2>4. CASE Complete(v, k) BY <2>4, <2>a, <1>g DEF Complete
  <2>5. CASE CompleteRejects(v, k) BY <2>5, <2>a, <1>g DEF CompleteRejects
  <2>6. CASE FailSelect(v, k)
    <3> DEFINE e == [exec[v][k] EXCEPT !.pc = "failwrite",
                                       !.verdict = DecideRetry(k, row[k].attempts)]
    <3>1. CASE Holds(v, k)
      <4>1. DecideRetry(k, row[k].attempts) \in {"retry", "dead_letter"} BY DEF DecideRetry
      <4>2. /\ e \in Exec /\ e.pc = "failwrite" /\ e.lease = exec[v][k].lease
            /\ e.verdict = DecideRetry(k, row[k].attempts)
        <5> DEFINE d == DecideRetry(k, row[k].attempts)
        <5>1. exec[v][k] \in Exec BY <1>e
        <5>2. d \in {"retry", "dead_letter"} BY <4>1
        <5> HIDE DEF d
        <5> QED BY <5>1, <5>2, ExecVerdict DEF d
      <4>3. SetExec(v, k, e) BY <2>6, <3>1 DEF FailSelect
      <4> HIDE DEF e
      <4>4. exec'[v][k] = e /\ (v # w \/ k # j => exec'[w][j] = exec[w][j])
        BY <4>2, <4>3, <1>t, SetExecStep
      <4> QED BY <2>6, <4>2, <4>4 DEF FailSelect, ExecStep, ExecDecided, SameExec
    <3>2. CASE ~Holds(v, k) BY <2>6, <3>2, <2>a, <1>g DEF FailSelect
    <3> QED BY <3>1, <3>2
  <2>7. CASE FailUpdate(v, k) BY <2>7, <2>a, <1>g DEF FailUpdate
  <2>8. CASE FailRejects(v, k) BY <2>8, <2>a, <1>g DEF FailRejects
  <2> QED BY <1>4, <2>1, <2>2, <2>3, <2>4, <2>5, <2>6, <2>7, <2>8 DEF ProcessJob
<1>5. ASSUME NEW v \in Workers, NEW k \in Jobs, Release(v, k) PROVE ExecStep(w, j)
  BY <1>5, <1>0 DEF Release
<1>6. CASE UNCHANGED vars BY <1>6, <1>0 DEF vars
<1> QED BY <1>1, <1>2, <1>3, <1>4, <1>5, <1>6 DEF Next

-----------------------------------------------------------------------------
(* Leases.                                                                 *)

LeaseInv == TypeOK /\ LeaseIdsDistinct /\ DecisionCurrent

\* No lease is remembered at first.
LEMMA LeaseInvInit == Init => LeaseInv
<1> SUFFICES ASSUME Init PROVE LeaseInv OBVIOUS
<1>1. \A w \in Workers, j \in Jobs : exec[w][j].pc = "none" BY DEF Init, NoExec
<1> QED BY <1>1, TypeInit DEF LeaseInv, LeaseIdsDistinct, DecisionCurrent

\* A new lease id is fresh, and a row cannot change under a lease that is kept.
LEMMA LeaseInvStep == LeaseInv /\ [Next]_vars => LeaseInv'
<1> SUFFICES ASSUME LeaseInv, [Next]_vars PROVE LeaseInv' OBVIOUS
<1>t. TypeOK /\ TypeOK' BY TypeStep DEF LeaseInv
<1>e. \A w \in Workers, j \in Jobs : ExecStep(w, j) BY <1>t, ExecSteps
<1>n. NoExec.pc = "none" BY DEF NoExec
<1>f. \A j \in Jobs : FreshIds(j) # {} => \A w \in Workers : NewLease(j) # exec[w][j].lease
  BY NewLeaseStep
<1>1. LeaseIdsDistinct'
  <2> SUFFICES ASSUME NEW j \in Jobs, NEW w \in Workers, NEW v \in Workers, w # v,
                      exec'[w][j].pc # "none", exec'[v][j].pc # "none"
               PROVE  exec'[w][j].lease # exec'[v][j].lease
    BY DEF LeaseIdsDistinct
  <2>1. ASSUME NEW a \in Workers, NEW b \in Workers, a # b, ExecLeased(a, j),
               exec'[b][j].pc # "none"
        PROVE  exec'[a][j].lease # exec'[b][j].lease
    BY <2>1, <1>f DEF ExecLeased
  <2>2. CASE ~ExecLeased(w, j) /\ ~ExecLeased(v, j)
    <3>1. ASSUME NEW a \in {w, v}
          PROVE  exec'[a][j].lease = exec[a][j].lease /\ exec[a][j].pc # "none"
      BY <2>2, <1>e, <1>n DEF ExecStep, SameExec, ExecMoved, ExecDecided
    <3> QED BY <3>1 DEF LeaseInv, LeaseIdsDistinct
  <2> QED BY <2>1, <2>2
<1>2. DecisionCurrent'
  <2> SUFFICES ASSUME NEW w \in Workers, NEW j \in Jobs,
                      exec'[w][j].pc = "failwrite", Holds(w, j)'
               PROVE  exec'[w][j].verdict = DecideRetry(j, row'[j].attempts)
    BY DEF DecisionCurrent, DecideRetry
  <2>h. row'[j].status = "leased" /\ row'[j].lease = exec'[w][j].lease BY DEF Holds
  <2>1. CASE ExecDecided(w, j) BY <2>1 DEF ExecDecided
  <2>2. CASE SameExec(w, j)
    <3>1. RowStep(j) BY <1>t, RowSteps DEF LeaseInv
    <3>2. CASE SameRow(j)
      BY <2>2, <2>h, <3>2 DEF SameRow, SameExec, LeaseInv, DecisionCurrent, Holds
    <3>3. CASE RowLeased(j) BY <2>2, <2>h, <3>3, <1>f DEF RowLeased, SameExec
    <3> QED BY <2>h, <3>1, <3>2, <3>3
            DEF RowStep, RowMoves, RowEnqueued, RowRequeued, RowRetried, RowDead, RowReleased
  <2> QED BY <1>e, <1>n, <2>1, <2>2 DEF ExecStep, ExecMoved, ExecLeased
<1> QED BY <1>t, <1>1, <1>2 DEF LeaseInv

\* Lease ids are never shared between processJob() calls of one job, and the
\* decisions in flight stay right: the inductive invariant about leases.
THEOREM LeaseInvariant == Spec => []LeaseInv
BY LeaseInvInit, LeaseInvStep, PTL DEF Spec

\* Of all processJob() calls in all workers at most one can still write a
\* leased row: the lease token fences off every worker whose lease was reaped.
THEOREM LeaseIsExclusive == Spec => []LeaseExclusive
<1>1. LeaseInv => LeaseExclusive BY DEF LeaseInv, LeaseIdsDistinct, LeaseExclusive, Holds
<1> QED BY <1>1, LeaseInvariant, PTL

\* The decision fail() takes from its SELECT is still right at its UPDATE.
THEOREM DecisionIsCurrent == Spec => []DecisionCurrent
<1>1. LeaseInv => DecisionCurrent BY DEF LeaseInv
<1> QED BY <1>1, LeaseInvariant, PTL

-----------------------------------------------------------------------------
(* The retry budget.                                                       *)

\* A row that is not yet inserted has no history.
AbsentIsNew ==
  \A j \in Jobs : row[j].status = "absent" => spent[j] = 0 /\ released[j] = 0

BudgetInv ==
  LeaseInv /\ AbsentIsNew /\ AttemptsAccounted /\ FailureBudget /\ DeadLetterAccounted

\* Nothing is spent at first.
LEMMA BudgetInvInit == Init => BudgetInv
<1> SUFFICES ASSUME Init PROVE BudgetInv OBVIOUS
<1>1. \A j \in Jobs : /\ row[j].status = "absent" /\ row[j].attempts = 0
                      /\ spent[j] = 0 /\ released[j] = 0
  BY DEF Init, AbsentRow
<1> QED BY <1>1, LeaseInvInit, MaxAttemptsAssumption
        DEF BudgetInv, AbsentIsNew, AttemptsAccounted, FailureBudget, DeadLetterAccounted

\* Each kind of row step keeps the accounts of that job.
LEMMA BudgetInvStep == BudgetInv /\ [Next]_vars => BudgetInv'
<1> SUFFICES ASSUME BudgetInv, [Next]_vars PROVE BudgetInv' OBVIOUS
<1>1. LeaseInv' BY LeaseInvStep DEF BudgetInv
<1>2. ASSUME NEW j \in Jobs
      PROVE  /\ row'[j].status = "absent" => spent'[j] = 0 /\ released'[j] = 0
             /\ row'[j].attempts = spent'[j] + released'[j]
                  + IF row'[j].status \in {"leased", "completed"} THEN 1 ELSE 0
             /\ spent'[j] <= MaxAttempts
             /\ row'[j].status \in {"pending", "leased", "completed"} => spent'[j] < MaxAttempts
             /\ row'[j].status = "dead_letter" /\ RetryClass[j] # "fatal"
                  => spent'[j] + released'[j] >= MaxAttempts
  <2> USE MaxAttemptsAssumption
  <2>t. /\ row[j].attempts \in Nat /\ spent[j] \in Nat /\ released[j] \in Nat
        /\ row[j].status \in Statuses
    <3>1. TypeOK BY DEF BudgetInv, LeaseInv
    <3>2. row[j] \in Row /\ spent[j] \in Nat /\ released[j] \in Nat BY <3>1 DEF TypeOK
    <3> QED BY <3>2 DEF Row
  <2>b. /\ row[j].status = "absent" => spent[j] = 0 /\ released[j] = 0
        /\ row[j].attempts = spent[j] + released[j]
             + IF row[j].status \in {"leased", "completed"} THEN 1 ELSE 0
        /\ spent[j] <= MaxAttempts
        /\ row[j].status \in {"pending", "leased", "completed"} => spent[j] < MaxAttempts
        /\ row[j].status = "dead_letter" /\ RetryClass[j] # "fatal"
             => spent[j] + released[j] >= MaxAttempts
    BY DEF BudgetInv, AbsentIsNew, AttemptsAccounted, FailureBudget, DeadLetterAccounted
  <2>s. RowStep(j) BY RowSteps DEF BudgetInv, LeaseInv
  <2>1. CASE SameRow(j) /\ SameHistory(j) BY <2>1, <2>t, <2>b DEF SameRow, SameHistory
  <2>2. CASE RowMoves(j, "pending", "cancelled") /\ SameHistory(j)
    BY <2>2, <2>t, <2>b DEF RowMoves, SameHistory
  <2>3. CASE RowMoves(j, "leased", "completed") /\ SameHistory(j)
    BY <2>3, <2>t, <2>b DEF RowMoves, SameHistory
  <2>4. CASE RowEnqueued(j) BY <2>4, <2>t, <2>b DEF RowEnqueued, SameHistory
  <2>5. CASE RowRequeued(j) BY <2>5, <2>t, <2>b DEF RowRequeued
  <2>6. CASE RowLeased(j) BY <2>6, <2>t, <2>b DEF RowLeased, SameHistory
  <2>7. CASE RowRetried(j) BY <2>7, <2>t, <2>b DEF RowRetried, RowMoves
  <2>8. CASE RowDead(j) BY <2>8, <2>t, <2>b DEF RowDead, RowMoves
  <2>9. CASE RowReleased(j) BY <2>9, <2>t, <2>b DEF RowReleased, RowMoves
  <2> QED BY <2>s, <2>1, <2>2, <2>3, <2>4, <2>5, <2>6, <2>7, <2>8, <2>9 DEF RowStep
<1>3. AbsentIsNew' BY <1>2 DEF AbsentIsNew
<1>4. AttemptsAccounted' BY <1>2 DEF AttemptsAccounted
<1>5. FailureBudget' BY <1>2 DEF FailureBudget
<1>6. DeadLetterAccounted' BY <1>2 DEF DeadLetterAccounted
<1> QED BY <1>1, <1>3, <1>4, <1>5, <1>6 DEF BudgetInv

\* The inductive invariant about the retry budget.
THEOREM BudgetInvariant == Spec => []BudgetInv
BY BudgetInvInit, BudgetInvStep, PTL DEF Spec

\* The attempts column is exactly failures plus hand-backs plus the attempt
\* in progress or completed, for any number of workers, crashes and shutdowns.
THEOREM AttemptsAreAccounted == Spec => []AttemptsAccounted
<1>1. BudgetInv => AttemptsAccounted BY DEF BudgetInv
<1> QED BY <1>1, BudgetInvariant, PTL

\* No job ever fails more than maxAttempts times, and one that can still run
\* has a failure left.
THEOREM FailuresStayInBudget == Spec => []FailureBudget
<1>1. BudgetInv => FailureBudget BY DEF BudgetInv
<1> QED BY <1>1, BudgetInvariant, PTL

\* A job that is not fatal is dead-lettered only when failures and hand-backs
\* have used up its attempts.
THEOREM DeadLettersAreAccounted == Spec => []DeadLetterAccounted
<1>1. BudgetInv => DeadLetterAccounted BY DEF BudgetInv
<1> QED BY <1>1, BudgetInvariant, PTL

-----------------------------------------------------------------------------
(* Refinement.                                                             *)

\* Every step of the queue is, job by job, a lifecycle step or none.
LEMMA LifecycleStep == BudgetInv /\ [Next]_vars => [Lifecycle!Next]_(Lifecycle!lifecycleVars)
<1> SUFFICES ASSUME BudgetInv, [Next]_vars PROVE Lifecycle!Next OBVIOUS
<1> DEFINE st == [j \in Jobs |-> row[j].status]
<1>1. ASSUME NEW j \in Jobs
      PROVE  \/ Lifecycle!JobStep(j)
             \/ st'[j] = st[j] /\ Lifecycle!Keep(j)
  <2> USE MaxAttemptsAssumption
  <2>t. row[j].attempts \in Nat /\ spent[j] \in Nat /\ released[j] \in Nat
    <3>1. TypeOK BY DEF BudgetInv, LeaseInv
    <3>2. row[j] \in Row /\ spent[j] \in Nat /\ released[j] \in Nat BY <3>1 DEF TypeOK
    <3> QED BY <3>2 DEF Row
  <2>b. row[j].status = "leased" => row[j].attempts = spent[j] + released[j] + 1
    BY <2>t DEF BudgetInv, AttemptsAccounted
  <2>m. st[j] = row[j].status /\ st'[j] = row'[j].status OBVIOUS
  <2> USE DEF Lifecycle!JobStep, Lifecycle!Move, Lifecycle!Keep
  <2> HIDE DEF st
  <2>s. RowStep(j) BY RowSteps DEF BudgetInv, LeaseInv
  <2>1. CASE SameRow(j) /\ SameHistory(j) BY <2>1, <2>m DEF SameRow, SameHistory
  <2>2. CASE RowMoves(j, "pending", "cancelled") /\ SameHistory(j)
    BY <2>2, <2>m DEF RowMoves, SameHistory, Lifecycle!Cancelled, st
  <2>3. CASE RowMoves(j, "leased", "completed") /\ SameHistory(j)
    BY <2>3, <2>m DEF RowMoves, SameHistory, Lifecycle!Completed, st
  <2>4. CASE RowEnqueued(j) BY <2>4, <2>m DEF RowEnqueued, SameHistory, Lifecycle!Enqueued, st
  <2>5. CASE RowRequeued(j) BY <2>5, <2>m DEF RowRequeued, Lifecycle!Requeued, st
  <2>6. CASE RowLeased(j) BY <2>6, <2>m DEF RowLeased, SameHistory, Lifecycle!Leased, st
  <2>7. CASE RowRetried(j)
    BY <2>7, <2>m, <2>t, <2>b
       DEF RowRetried, RowMoves, Lifecycle!Retried, Lifecycle!AttemptFails, st
  <2>8. CASE RowDead(j)
    BY <2>8, <2>m, <2>t, <2>b
       DEF RowDead, RowMoves, Lifecycle!DeadLettered, Lifecycle!AttemptFails, st
  <2>9. CASE RowReleased(j)
    BY <2>9, <2>m DEF RowReleased, RowMoves, Lifecycle!HandedBack, st
  <2> QED BY <2>s, <2>1, <2>2, <2>3, <2>4, <2>5, <2>6, <2>7, <2>8, <2>9 DEF RowStep
<1> QED BY <1>1 DEF Lifecycle!Next

\* The queue with its workers, leases, crashes and shutdowns implements the
\* job lifecycle of JobLifecycle.
THEOREM QueueImplementsLifecycle == Spec => ImplementsLifecycle
<1>1. Init => Lifecycle!Init BY DEF Init, AbsentRow, Lifecycle!Init
<1> QED BY <1>1, LifecycleStep, BudgetInvariant, PTL
        DEF Spec, ImplementsLifecycle, Lifecycle!Spec

-----------------------------------------------------------------------------
(* Who may write a row.                                                    *)

\* A row changes under its holder, or because it is not leased or its lease
\* has expired; a completed row does not change at all.
GuardedWrite(j) ==
  /\ row[j].status = "completed" => row'[j] = row[j]
  /\ row[j].status = "leased" /\ ~row[j].lapsed /\ row'[j].lease # row[j].lease
       => \E w \in Workers :
            Holds(w, j) /\ (exec'[w] # exec[w] \/ worker'[w] # worker[w])

\* The WHERE clause of every statement of store.ts guards its write.
LEMMA WritesAreGuarded ==
  ASSUME TypeOK, [Next]_vars, NEW j \in Jobs
  PROVE  GuardedWrite(j)
<1>t. row \in [Jobs -> Row] /\ exec \in [Workers -> [Jobs -> Exec]] /\ worker \in [Workers -> Worker]
  BY DEF TypeOK
<1>0. CASE row'[j] = row[j]
  BY <1>0 DEF GuardedWrite
<1>u. ASSUME NEW k \in Jobs, NEW r, SetRow(k, r) PROVE row'[j] = IF j = k THEN r ELSE row[j]
  BY <1>u, <1>t DEF SetRow
<1>1. ASSUME NEW k \in Jobs, Environment(k) PROVE GuardedWrite(j)
  <2>1. CASE Enqueue(k)
    BY <2>1, <1>u DEF Enqueue, GuardedWrite
  <2>2. CASE RequestCancel(k)
    BY <2>2, <1>0, <1>u DEF RequestCancel, GuardedWrite
  <2>3. CASE FlagCancel(k)
    <3> DEFINE r == [row[k] EXCEPT !.cancel = TRUE]
    <3>1. r.lease = row[k].lease BY <1>t DEF Row
    <3> HIDE DEF r
    <3>2. CASE row[k].status = "leased" /\ SetRow(k, r)
      BY <3>1, <3>2, <1>u DEF GuardedWrite
    <3> QED BY <2>3, <3>2, <1>0 DEF FlagCancel, r
  <2>4. CASE Requeue(k)
    BY <2>4, <1>u DEF Requeue, GuardedWrite
  <2>5. CASE BecomesDue(k)
    BY <2>5, <1>u DEF BecomesDue, GuardedWrite
  <2>6. CASE LeaseLapses(k)
    <3> DEFINE r == [row[k] EXCEPT !.lapsed = TRUE]
    <3>1. r.lease = row[k].lease BY <1>t DEF Row
    <3>2. row[k].status = "leased" /\ SetRow(k, r) BY <2>6 DEF LeaseLapses
    <3> HIDE DEF r
    <3> QED BY <3>1, <3>2, <1>u DEF GuardedWrite
  <2> QED BY <1>1, <2>1, <2>2, <2>3, <2>4, <2>5, <2>6 DEF Environment
<1>l. ASSUME NEW w \in Workers, NEW batch \in Batches, Grantable(w, batch), LeaseRows(batch)
      PROVE  GuardedWrite(j)
  <2>1. batch \in SUBSET Jobs /\ \A i \in batch : row[i].status = "pending"
    BY DEF Batches, Leasable
  <2>2. j \notin batch => row'[j] = row[j]
    BY <1>l, <2>1, LeaseRowsStep
  <2> QED BY <2>1, <2>2 DEF GuardedWrite
<1>2. ASSUME NEW w \in Workers, RunOnce(w) PROVE GuardedWrite(j)
  <2>1. ASSUME NEW js, NEW s, js \subseteq Reapable, Reap(js, s) PROVE GuardedWrite(j)
    <3>1. row'[j] = IF j \in js THEN Unlease(row[j], s) ELSE row[j]
      BY <2>1 DEF Reap
    <3>2. j \in js => row[j].status = "leased" /\ row[j].lapsed
      BY <2>1 DEF Reapable
    <3> QED BY <3>1, <3>2 DEF GuardedWrite
  <2>2. ReapRequeue(w) => GuardedWrite(j)
    <3>1. {i \in Reapable : row[i].attempts < MaxAttempts} \subseteq Reapable
      OBVIOUS
    <3> QED BY <2>1, <3>1 DEF ReapRequeue
  <2>3. ReapDeadLetter(w) => GuardedWrite(j)
    <3>1. {i \in Reapable : row[i].attempts >= MaxAttempts} \subseteq Reapable
      OBVIOUS
    <3> QED BY <2>1, <3>1 DEF ReapDeadLetter
  <2>4. ASSUME LeaseBatch(w) PROVE GuardedWrite(j)
    BY <2>4, <1>l DEF LeaseBatch, LeaseJobs
  <2>5. RunEnds(w) => GuardedWrite(j) BY <1>0 DEF RunEnds
  <2> QED BY <1>2, <2>2, <2>3, <2>4, <2>5 DEF RunOnce
<1>3. ASSUME NEW w \in Workers, Process(w) PROVE GuardedWrite(j)
  <2>1. CASE RunRejects(w) BY <2>1, <1>0, <1>l DEF RunRejects
  <2>2. CASE ~RunRejects(w)
    BY <1>3, <2>2, <1>0 DEF Process, Boot, Shutdown, GraceExceeded, Exit, Crash
  <2> QED BY <2>1, <2>2
<1>h. ASSUME NEW w \in Workers, NEW k \in Jobs, Holds(w, k), NEW r, SetRow(k, r),
             exec'[w] # exec[w] \/ worker'[w] # worker[w]
      PROVE  GuardedWrite(j)
  <2>1. row[k].status = "leased" BY <1>h DEF Holds
  <2> QED BY <1>h, <1>u, <2>1 DEF GuardedWrite
<1>4. ASSUME NEW w \in Workers, NEW k \in Jobs, ProcessJob(w, k) PROVE GuardedWrite(j)
  <2>m. ASSUME NEW pc \in Active \cup Ended, exec[w][k].pc # pc, Goto(w, k, pc)
        PROVE  exec'[w] # exec[w]
    <3>1. exec'[w][k].pc = pc BY <2>m, <1>t, GotoStep
    <3> QED BY <2>m, <3>1
  <2>c. ASSUME CompleteRow(w, k), exec'[w] # exec[w] PROVE GuardedWrite(j)
    BY <2>c, <1>0, <1>h DEF CompleteRow
  <2>1. CASE Heartbeat(w, k)
    <3>1. CASE Holds(w, k)
      <4> DEFINE r == [row[k] EXCEPT !.lapsed = FALSE]
      <4>1. r.lease = row[k].lease BY <1>t DEF Row
      <4>2. SetRow(k, r) /\ row[k].status = "leased" BY <2>1, <3>1 DEF Heartbeat, Holds
      <4> HIDE DEF r
      <4> QED BY <4>1, <4>2, <1>u DEF GuardedWrite
    <3>2. CASE ~Holds(w, k) BY <2>1, <3>2, <1>0 DEF Heartbeat
    <3> QED BY <3>1, <3>2
  <2>2. CASE HandlerReturns(w, k) BY <2>2, <1>0 DEF HandlerReturns
  <2>3. CASE HandlerThrows(w, k) BY <2>3, <1>0 DEF HandlerThrows
  <2>4. CASE Complete(w, k)
    <3>1. exec'[w] # exec[w] BY <2>4, <2>m DEF Complete, Ended
    <3> QED BY <2>4, <2>c, <3>1 DEF Complete
  <2>5. CASE CompleteRejects(w, k)
    <3>1. exec'[w] # exec[w]
      <4>1. exec[w][k].pc = "complete" /\ (Goto(w, k, "done") \/ Goto(w, k, "fail"))
        BY <2>5 DEF CompleteRejects
      <4> QED BY <4>1, <2>m DEF Active, Ended
    <3> QED BY <2>5, <2>c, <3>1, <1>0 DEF CompleteRejects
  <2>6. CASE FailSelect(w, k) BY <2>6, <1>0 DEF FailSelect
  <2>f. ASSUME FailRow(w, k), exec'[w] # exec[w] PROVE GuardedWrite(j)
    <3>1. CASE Holds(w, k)
      <4>1. \E r : SetRow(k, r) BY <2>f, <3>1 DEF FailRow
      <4> QED BY <2>f, <3>1, <4>1, <1>h
    <3>2. CASE ~Holds(w, k) BY <2>f, <3>2, <1>0 DEF FailRow
    <3> QED BY <3>1, <3>2
  <2>7. CASE FailUpdate(w, k)
    <3>1. exec'[w] # exec[w] BY <2>7, <2>m DEF FailUpdate, Ended
    <3> QED BY <2>7, <2>f, <3>1 DEF FailUpdate
  <2>8. CASE FailRejects(w, k)
    <3>1. exec'[w] # exec[w] BY <2>8, <2>m DEF FailRejects, Ended
    <3> QED BY <2>8, <2>f, <3>1, <1>0 DEF FailRejects
  <2> QED BY <1>4, <2>1, <2>2, <2>3, <2>4, <2>5, <2>6, <2>7, <2>8 DEF ProcessJob
<1>5. ASSUME NEW w \in Workers, NEW k \in Jobs, Release(w, k) PROVE GuardedWrite(j)
  <2>1. worker'[w] # worker[w]
    <3>1. worker'[w] = [worker[w] EXCEPT !.left = @ \ {k}] /\ k \in worker[w].left
      BY <1>5, <1>t DEF Release, SetWorker
    <3>2. worker[w] \in Worker BY <1>t
    <3>3. worker'[w].left = worker[w].left \ {k} BY <3>1, <3>2 DEF Worker
    <3> QED BY <3>1, <3>3
  <2>2. CASE Holds(w, k)
    <3>1. \E r : SetRow(k, r) BY <1>5, <2>2 DEF Release
    <3> QED BY <2>1, <2>2, <3>1, <1>h
  <2>3. CASE ~Holds(w, k) BY <1>5, <2>3, <1>0 DEF Release
  <2> QED BY <2>2, <2>3
<1>6. CASE UNCHANGED vars BY <1>6, <1>0 DEF vars
<1> QED BY <1>1, <1>2, <1>3, <1>4, <1>5, <1>6 DEF Next

\* A lease that has not expired is taken away by nobody but its holder, for
\* any number of workers, reapers and admins (store.ts).
THEOREM LiveLeasesAreRespected == Spec => LiveLeaseRespected
<1>1. TypeOK /\ [Next]_vars =>
        [\A j \in Jobs :
           row[j].status = "leased" /\ ~row[j].lapsed /\ row'[j].lease # row[j].lease
             => \E w \in Workers :
                  Holds(w, j) /\ (exec'[w] # exec[w] \/ worker'[w] # worker[w])]_vars
  BY WritesAreGuarded DEF GuardedWrite
<1> QED BY <1>1, TypeCorrect, PTL DEF Spec, LiveLeaseRespected

\* No late complete(), fail(), release(), reap, cancel or admin retry changes
\* a completed row (store.ts).
THEOREM CompletedStaysFinal == Spec => CompletedIsFinal
<1>1. TypeOK /\ [Next]_vars =>
        [\A j \in Jobs : row[j].status = "completed" => row'[j] = row[j]]_vars
  BY WritesAreGuarded DEF GuardedWrite
<1> QED BY <1>1, TypeCorrect, PTL DEF Spec, CompletedIsFinal

-----------------------------------------------------------------------------
(* Dead letters while no worker is stopped.                                *)

\* Until the first SIGTERM no worker is stopping and no lease was handed back.
NoHandBacks ==
  stops = 0 => /\ \A w \in Workers : worker[w].stop = "no"
               /\ \A j \in Jobs : released[j] = 0

\* Only release() hands a lease back, only a stopping worker calls it, and only
\* a signal makes a worker stop.
LEMMA NoHandBacksStep == TypeOK /\ NoHandBacks /\ [Next]_vars => NoHandBacks'
<1> SUFFICES ASSUME TypeOK, NoHandBacks, [Next]_vars PROVE NoHandBacks' OBVIOUS
<1>t. /\ worker \in [Workers -> Worker] /\ released \in [Jobs -> Nat] /\ stops \in Nat
  BY DEF TypeOK
<1>0. CASE UNCHANGED <<worker, released, stops>> BY <1>0 DEF NoHandBacks
<1>u. ASSUME NEW w \in Workers, NEW p, SetWorker(w, p), p.stop = worker[w].stop \/ p.stop = "no",
             UNCHANGED <<released, stops>>
      PROVE  NoHandBacks'
  <2>1. \A v \in Workers : worker'[v] = IF v = w THEN p ELSE worker[v]
    BY <1>u, <1>t DEF SetWorker
  <2> QED BY <1>u, <2>1 DEF NoHandBacks
<1>p. \A w \in Workers : \A ph : [worker[w] EXCEPT !.phase = ph].stop = worker[w].stop
  BY <1>t DEF Worker
<1>1. ASSUME NEW k \in Jobs, Environment(k) PROVE NoHandBacks'
  <2>1. CASE Requeue(k)
    BY <2>1, <1>t DEF Requeue, NoHandBacks
  <2>2. CASE ~Requeue(k)
    BY <1>1, <2>2, <1>0 DEF Environment, Enqueue, RequestCancel, FlagCancel, BecomesDue, LeaseLapses
  <2> QED BY <2>1, <2>2
<1>2. ASSUME NEW w \in Workers, RunOnce(w) PROVE NoHandBacks'
  <2>1. \E ph : SetWorker(w, [worker[w] EXCEPT !.phase = ph])
    BY <1>2 DEF RunOnce, ReapRequeue, ReapDeadLetter, LeaseBatch, RunEnds
  <2>2. UNCHANGED <<released, stops>>
    BY <1>2 DEF RunOnce, ReapRequeue, ReapDeadLetter, LeaseBatch, RunEnds
  <2> QED BY <1>u, <1>p, <2>1, <2>2
<1>3. ASSUME NEW w \in Workers, Process(w) PROVE NoHandBacks'
  <2>1. CASE Boot(w) BY <2>1, <1>u, <1>p DEF Boot
  <2>2. CASE Shutdown(w)
    <3>1. stops' = stops + 1 BY <2>2 DEF Shutdown
    <3>2. stops' # 0 BY <3>1, <1>t
    <3> QED BY <3>2 DEF NoHandBacks
  <2>3. CASE GraceExceeded(w)
    BY <2>3 DEF GraceExceeded, NoHandBacks
  <2>4. CASE Exit(w)
    <3>1. Down.stop = "no" BY DEF Down
    <3> QED BY <2>4, <3>1, <1>u DEF Exit
  <2>5. CASE Crash(w)
    <3>1. Down.stop = "no" BY DEF Down
    <3> QED BY <2>5, <3>1, <1>u DEF Crash
  <2>6. CASE RunRejects(w) BY <2>6, <1>u, <1>p DEF RunRejects
  <2> QED BY <1>3, <2>1, <2>2, <2>3, <2>4, <2>5, <2>6 DEF Process
<1>4. ASSUME NEW w \in Workers, NEW k \in Jobs, ProcessJob(w, k) PROVE NoHandBacks'
  BY <1>4, <1>0 DEF ProcessJob, Heartbeat, HandlerReturns, HandlerThrows, Complete,
                    CompleteRejects, FailSelect, FailUpdate, FailRejects
<1>5. ASSUME NEW w \in Workers, NEW k \in Jobs, Release(w, k) PROVE NoHandBacks'
  BY <1>5 DEF Release, NoHandBacks
<1>6. CASE UNCHANGED vars BY <1>6, <1>0 DEF vars
<1> QED BY <1>1, <1>2, <1>3, <1>4, <1>5, <1>6 DEF Next

\* Until a worker is told to stop, every dead letter that is not fatal has
\* failed maxAttempts times (fail() and reapExpiredLeases() of store.ts); it is
\* the lease release() hands back that spends an attempt without a failure.
THEOREM DeadLettersAreEarned == Spec => [](stops = 0 => DeadLetterEarned)
<1>1. Init => NoHandBacks BY DEF Init, Down, NoHandBacks
<1>2. BudgetInv /\ NoHandBacks => (stops = 0 => DeadLetterEarned)
  <2> SUFFICES ASSUME BudgetInv, NoHandBacks, stops = 0, NEW j \in Jobs,
                      row[j].status = "dead_letter", RetryClass[j] # "fatal"
               PROVE  spent[j] >= MaxAttempts
    BY DEF DeadLetterEarned
  <2>1. spent[j] \in Nat /\ released[j] = 0 /\ spent[j] + released[j] >= MaxAttempts
    BY DEF BudgetInv, LeaseInv, TypeOK, NoHandBacks, DeadLetterAccounted
  <2> QED BY <2>1
<1> QED BY <1>1, <1>2, NoHandBacksStep, TypeCorrect, BudgetInvariant, PTL DEF Spec
=============================================================================
