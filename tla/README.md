# Talos protocol: TLA+ models, model checking and proofs

Talos runs autonomous agent corporations on Stellar. The repository holds Soroban contracts (`contracts/`), a
Next.js API on Postgres (`web/`), a Python agent runtime (`packages/prime-agent`), SDKs and scripts. This directory
models the parts whose correctness depends on interleavings, crashes, retries and deadlines, checks the models with
TLC, and proves the results that matter most with TLAPS. Paths below are relative to the repository.

Contents: [inventory](#1-inventory), [modules and how they correspond to the code](#2-modules),
[runs, bounds and fairness](#3-runs), [what is proved](#4-proofs), [where the code and its documents
disagree](#5-where-the-code-and-its-documents-disagree), [what is left out](#6-what-is-left-out),
[plan](#7-plan).

## 1. Inventory

### How the parts interact

```
 agents (prime-agent) --HTTP--> web routes --SQL--> Postgres tables <--SQL-- job worker, outbox worker,
      |  ^                         |                                         reconciler ticks, webhook workers
      |  +-- poll jobs, results ---+--> Horizon / Soroban RPC (payments, contract calls)
      v                                          |
 SQLite (job effects, telegram queue)            v
                                 contracts: registry <-- governance, dividends; name service
```

Nothing in the web application shares memory across processes: processes meet only in Postgres rows, and a row is
changed by single SQL statements or short transactions. So the hazards are those of statements that interleave, of
values read in one statement and used in a later one, and of processes that die between two. A contract call is
atomic and calls are totally ordered by the ledger: there the hazards are long sequences of legal calls, arithmetic,
and values from different moments. The agent is one asyncio loop over SQLite and HTTP calls whose answers may be lost.

### Components of the web application

| Component | State | Operations and interactions | Hard behaviour | Correct when |
|---|---|---|---|---|
| **Durable job queue** `lib/jobs`, `scripts/jobs-worker.ts` | rows of `tls_jobs`: status, lease id and expiry, attempts, runAt, cancel flag | enqueue, leaseBatch, heartbeat, complete, fail, release, requestCancel, requeue, reapExpiredLeases; handlers run concurrently in a batch; admin routes cancel and retry | stale workers, crash mid-lease, select-then-update in `fail()`, SIGTERM with a grace period | one effective lease holder; attempts add up; nothing completed changes; every job settles |
| **Payment reconciler** `lib/reconciler` | `tls_stellar_tx_records`; queue and activeIds in memory | registerTx from the commerce and purchase routes, tick, drainQueue, processRecord, applyRepair; polls Horizon | overlapping ticks, stale copies, crash between status and repair, Horizon errors | a verdict is one the ledger supports; a job is settled once; repairs happen |
| **Commerce job row** `app/api/jobs`, `app/api/talos/[id]/jobs` | `tls_commerce_jobs`: status, lease, payment columns | purchase (settle, then insert), claim, heartbeat, extend, release, result, status change, cross-chain webhook | payment before insert, commits whose answer is lost, leases, webhook that read the job before an await | one key, one job; one result; what is completed is booked |
| **Transactional outbox** `lib/outbox` | `tls_outbox_events`, delivery ledger | write (which nothing calls), lease, dispatch to consumers, ack, fail, requeue, reap, prune | consumers between lease and ack; one failing consumer repeats all | no event lost; dedupe; poison events end in dead letter |
| **Idempotency** `lib/idempotency` | key and response columns of the purchases; reservations (which nothing uses) | look up, store with the insert, clean up expired keys | requests with one key pass the lookup together; a key that was cleaned up | one effect per key; a late retry takes no money |
| **Webhook deliveries** `lib/webhooks` | deliveries with lease, attempts and backoff; rotating secrets | enqueue, claim, deliver, result, retry, dead letter, rotate | duplicates, late results, claims on a NULL lease column | each delivery settles; receivers can verify during rotation |
| **Provisioning and governance lifecycle** `lib/governance` | lifecycle state, workflow steps, effects | step, compensate, stop, resume; cancels pending jobs | failure between steps, compensation | a failed provisioning leaves nothing half done |
| **Contract event indexer** `lib/contract-events` | cursor, events | fetch, insert, advance | crash between insert and cursor | no event skipped, none counted twice |
| **Quotas, rate limits, stream slots** | counters | increment, check, release | the limit itself | never above the limit |
| **Reputation** `lib/reputation*.ts` | append-only ledger | insert, score | duplicates of one event | one entry per event |
| **Audit log and chain** `lib/audit-*` | hash-chained rows | append, verify | concurrent appends | the chain verifies |
| **Backup** `lib/backup-*.ts` | - | dump, encrypt, restore | restore in one transaction | all or nothing |
| **x402 and Stellar helpers**, **fulfilment handlers** | - | settle, verify, submit; call providers | ambiguous answers | reported as they are |
| **Auth, validation, tracing, drift** | - | guards in front of every route | - | - |
| **Database access** `db/` | - | retry of transient errors | a commit whose answer was lost is retried | statements that tolerate a retry |
| **Pages and dashboards** | - | presentation | - | - |

### Contracts

| Component | State | Operations and interactions | Hard behaviour | Correct when |
|---|---|---|---|---|
| **Dividends** `talos_dividends` | epochs, claim marks, rounding dust, admin, registry, last-touched ledgers | initialize, commit_epoch, claim_dividend, recover_expired, touch and sweep, admin transfer | rounding, deadline, caller-supplied split, marks shared across epochs and Taloses | money is conserved; claims and recovery never overlap; nobody is paid twice |
| **Governance** `talos_governance` | proposals, votes, checkpoints of power, delegation, config, pause domains | create, vote, finalize, execute, cancel, update power, delegate, pause, configure; calls the registry | power from the past, thresholds from the present; binary search; trapped dispatch | tallies are votes; decisions final; actions once |
| **Pause domains** `pause_control` | paused, expiry | pause, unpause, lazy expiry | expiry boundary | a paused domain refuses |
| **Registry** `talos_registry`, **admin helpers** `admin_controls` | Talos entries, creators, controllers, allowlist, timelocked proposals, guardians | create, transfer, pause, resume, schedule, execute, cancel | delay and grace changed while a proposal waits | nothing runs before its delay or after its grace |
| **Name service** `talos_name_service` | name to owner and back | register, transfer, release, under timelock | two maps kept in step | the maps are inverse |
| **Storage migration**, **TTL helpers** | version, lock, history; entry ages | begin, step, finish; extend | interrupted migration | versions only advance |
| **Fixtures and integration tests** | - | test data | - | - |

### Agent runtime, SDK, tools

| Component | State | Operations and interactions | Hard behaviour | Correct when |
|---|---|---|---|---|
| **Job effects** `job_effects.py`, `db.py` | SQLite inbox and outbox of effects, fencing tokens | ingest, claim, prepare, dispatch, reconcile, refresh, requeue | crash around the HTTP call; lost and late answers; two dispatches at once | the agent's verdict on its result is right, and is reached |
| **Scheduler, tasks, backoff** | periodic tasks in one loop | tick, back off | overlap with a slow run | one run of a task at a time |
| **Circuit breakers, provider fallback** | closed, open, half-open; failure counts | call, record, probe | answers that arrive after the state changed | a probe decides; the breaker reopens |
| **Telegram queue** and adapters | claimed sends with leases | enqueue, claim, send, settle | unknown outcomes | no message lost; duplicates only after unknown outcomes |
| **Policy, replay, checkpoints** | - | pure evaluation, sealed envelopes | - | - |
| **Payments and quotes** | - | classify errors, compare times | - | an ambiguous submit is not repeated blindly |
| **TypeScript SDK**, **OpenClaw**, **scripts** | - | clients and tooling | - | - |

`PROJECT.json` lists every component with its sources and status, and every hazard at the line where it bites.

## 2. Modules

| Module | Role |
|---|---|
| `JobQueue` | the job queue, its runner and its worker process |
| `JobLifecycle` | abstract: what the queue promises about one job |
| `JobQueueProofs` | theorems about `JobQueue`, refinement of `JobLifecycle` included |
| `CommerceRow` | the lease and result routes of one commerce job, as operators on its row |
| `JobEffects` | the agent's durable result path against those routes, over a faulty network |
| `OnceEffect` | abstract: one result per job, paid once, and a verdict that is never wrong |
| `JobEffectsProofs` | theorems about `JobEffects`, refinement of `OnceEffect` included |
| `CommercePurchase` | the four handlers that insert commerce jobs, and what becomes of the rows |
| `CommercePurchaseProofs` | theorems about it |
| `Reconciler` | the payment reconciler with the commerce job rows and purchases it repairs |
| `ReconcilerProofs` | theorems about it |
| `TalosDividends`, `TalosDividendsProofs` | the dividend contract and theorems about it |
| `TalosGovernance` | the governance contract with its pause domains and the two registry calls it makes |
| `Ballot` | abstract: what governance promises about a proposal, without power, thresholds, ledgers or configuration |
| `TalosGovernanceProofs` | theorems about `TalosGovernance`, refinement of `Ballot` included |
| `Sums`, `SumLemmas` | the sum of a function over a set, and what the proofs about votes, supply and payouts need of it |
| `Timelock` | the timelock that the registry and the name service both keep, as operators on a record |
| `TalosRegistry` | the registry: ids and creators, fee, administrator, timelock |
| `TalosNameService` | the name service, composed with the registry it asks |
| `TalosRegistryProofs` | theorems about both |
| `MC*`, `*.cfg` | instances for TLC |

Some modules define beside an operator a variant that no specification uses (`ReapableAny` beside `Reapable`): a plausible
mistake, such as a dropped guard or an off-by-one. `PROJECT.json` pairs each with the property that it would break.

The commerce job row is seen by three modules, each with the part of it that its questions need: `CommercePurchase` how
it comes to be, `CommerceRow` with `JobEffects` how it is leased and answered, `Reconciler` how the payment behind it is
followed up.

### JobQueue

The steps are SQL statements and the points in between. `row[j]` is a row of `tls_jobs`; `exec[w][j]` is worker w's
`processJob()` call with the lease id it was given, whether a heartbeat told it that the lease is lost or a cancel was
requested, and its decision between the two statements of `fail()`; `worker[w]` is the loop of `jobs-worker.ts` and its
shutdown.

| Code | Actions |
|---|---|
| `store.ts` enqueue, requestCancel (two statements), requeue | `Enqueue`, `RequestCancel` and `FlagCancel`, `Requeue` |
| leaseBatch (by priority and runAt, SKIP LOCKED), heartbeat | `LeaseBatch`, `Heartbeat` |
| complete, fail (SELECT, UPDATE), release | `Complete`, `CompleteRejects`, `FailSelect`, `FailUpdate`, `Release` |
| reapExpiredLeases (two UPDATEs) | `ReapRequeue`, `ReapDeadLetter` |
| `runner.ts` processJob, runOnce | `HandlerReturns`, `HandlerThrows`, `RunEnds` and the order of the phases |
| `retry.ts` | `DecideRetry` |
| `jobs-worker.ts` | `Boot`, `Shutdown`, `GraceExceeded`, `Exit`, `Crash` |

Time is the two comparisons the code makes: a lease that has expired (`lapsed`), a row that is due (`due`). Lease ids
are uuids: a new lease takes one that nobody remembers for the job. `CompleteRejects` is a `complete()` that the
client sees fail: its UPDATE may or may not have been applied. A statement that rejects ends its own call and, through
`Promise.all`, the batch: `RunEnds` leaves the sibling calls behind as strays that go on beside the next batch. `JobLifecycle`
knows no leases or workers; it promises that a job moves along the state diagram of `JOBS.md`, that every return from
leased consumes one failure or one hand-back, and that a job that is not fatal dies only when these have used up its
budget.

### JobEffects and CommerceRow

`job` is the row of `tls_commerce_jobs`, `inbox` and `effect` the rows of `job_inbox` and `job_effect_outbox`. `task[t]` is a
call of `dispatch_once()`, with the fencing token and the attempt count of the record it was given; `caller` is an
answer on its way to `claim_job()`; `wire` holds the POSTs whose callers gave up on them and which may still arrive.
The agent's event loop runs alone between two awaits, so the atomic steps are SQLite transactions and HTTP handlers.

| Code | Actions |
|---|---|
| claim, heartbeat, extend-lease, release, result routes | `Claimable`, `Renewable`, `Extendable`, `Released`, `Completable` of `CommerceRow`, used by the agent's steps and by `Outside*` |
| ingest of pending jobs, `claim_job()` | `Ingest`, `ClaimJob`, `ClaimAnswered` |
| mark_claimed, prepare_effect, claim_due | `MarksClaimed`, `PrepareEffect`, `ClaimDue` |
| dispatch_once: lookup, POST, timeout, refusal | `Look`, `Post`, `LatePost`, `Won`, `Unsure`, `Refused` |
| `_refresh_remote_claim()` and what follows it | `Refresh`, `MarkClaimed`, `Prepare`, `Reschedule` |
| mark_succeeded, mark_conflict, mark_failure | `Mark`, `MarkFailure` |
| cross-chain webhook for this job: its read, and its UPDATE by id | `BridgeRead`, `BridgeSave`, with `Bridged` of `CommerceRow` |
| operator, time, faults | `Requeue`, `LeaseLapses`, `Crash`, a dispatch lease that lapses in `Due` |

`Outside*` are other clients of the API: the claim route lets any agent lease a job, and a second process may use the
provider's key. A lease in time is `none`, `live` or `lapsed`. `Available` is the code's condition as PostgreSQL evaluates
it: `leasedBy = NULL` selects no row, so a job that was never leased is available to nobody (section 5). The external action
`GotExpiry` gives such a row an expired lease, as the tests of the routes do, since otherwise nothing would ever happen.

A result travels as JSON into a jsonb column, and the agent compares SHA-256 digests of what comes back. `Stored[r]` is what
the row gives back for the result r; it need not be r (5.0 comes back as 5), and `SameResult` compares the agent's own
result with what was stored. A lookup that finds another result takes two steps, `differs` and the mark, because the row may
change in between. `accepted` remembers every result the row has held, since the webhook can replace or erase one.

`OnceEffect` is the promise of `docs/prime-agent-durable-job-effects.md`, as far as the code keeps it: one delivery and one
payment for a job without a result, and a verdict that names a result the job has held as it reads back. Two exceptions
are part of it: a conflict may be with the agent's own result, and a webhook delivery may replace or erase a result.

### CommercePurchase

`jobs` is the table in the order of insertion (a deleted row keeps its place), `settled` the payments on the ledger,
`req[r]` a request or webhook delivery with the step its handler is at, `sold` the 201 answers to requests with a key (buyer,
key and job), and `lost` counts commits whose answer did not arrive. A handler awaits between its queries, the settlement and the
fulfilment, so each is a step; `After` is the order of the steps on each route.

| Code | Actions |
|---|---|
| service route, jobs route with a signed or a named transaction | `Arrive`, `Lookup`, `Replay`, `Settle`, `Fulfil`, `Insert`, `Clash`, `Reread`, `Fail` |
| unique indexes on paymentSig, and on talos, requester and idempotencyKey | `Conflicts` |
| `withTransactionRetry()` after a commit whose answer is lost | `CommitLost` within `Insert`, the rerun of `BridgeSave` |
| cross-chain webhook | `BridgeRead`, `Fulfil`, `BridgeSave` |
| result route; pause and repair; cleanup of expired keys | `Complete`; `Close`; `Reclaim` |

A request that carries a key which has bought when it arrives is `late`, and `paid` says that its own settlement moved
money: both are history. A row and a request carry the buyer (`requesterTalosId`): the service route looks keys up by
buyer, the jobs route, whose buyers are stored as `human:<public key>`, among everybody's rows, and the index decides by
buyer; `Found` and `Conflicts` keep the three apart. Whether a token settles twice is the payment network's affair: Horizon repeats its answer,
the facilitator rejects it, and `Resettles` allows either.

### Reconciler

`rec` is the table, `row` the job or purchase a record was registered for, `chain` what the network knows, and
`proc[s]` the memory of a web process: the ticks in progress, `workQueue`, `activeIds` and the `processRecord()` calls.

| Code | Actions |
|---|---|
| the routes | `Create`, `Register` (which the route does not await), `CompleteJob`, `CancelJob` |
| the cross-chain webhook, which reads a job and later updates it by id | `BridgeRead`, `BridgeSave` |
| `scheduler.ts` tick | `TickLedger`, `TickLoad`, `TickQueue`, with `Drain` in the last and at the end of every call |
| processRecord: poll and transition, UPDATE, repair, UPDATE | `Evaluate`, `Persist`, `Repair`, `Mark` |
| `state-machine.ts` | `FromPending`, `FromConfirming`, `NeedsRepair` |
| `repair.ts` | `Repaired`, `Verdict` |
| faults | `WriteFails` (a rejected statement ends the call), `Crash` |

A call works on the copy its tick loaded, and its UPDATE is by id only: that is where stale state comes from.

### TalosDividends

One action per entry point that writes, guarded by the conjunction of its checks, because a call that returns an error
or traps leaves nothing behind. `epoch`, `claimed`, `dust`, `touched`, `nextId` and the admin variables are the
contract's storage entries under the contract's own keys: `claimed` holds pairs of epoch id and address, as
`DataKey::Claimed` does, without the Talos. A claim carries the patrons and the split its caller supplies.
`paid`, `swept`, `stored` and `nominator` are history, written from the events the contract emits.

### TalosGovernance

One action per entry point. `checkpoint[a]` is the vector the contract keeps, searched by `BinarySearch` as in the
code, against the reference `LastAtOrBefore`. `Dispatch` is what `execute_proposal` calls: the registry's pause and
resume, which trap unless the Talos has made the contract its controller and is in the right state, or the
contract's own configuration. `PauseDomain`, `UnpauseDomain` and `CheckNotPaused` are `pause_control`, with its
expiry judged when a call needs the domain. `active` and `controller` are the registry's and marked external.
`Poll` maps this to `Ballot`: the status and the action of each proposal, the votes on record, and the number of times
the action was carried out.

### Timelock, TalosRegistry, TalosNameService

Both contracts keep a configuration and proposals by id (`timelock.rs`, `admin_controls`); they differ in what an action
does. So `Timelock` has the checks and updates of such a record, and each contract's module has its actions. `creator`,
`nextId`, `wallet` (the protocol wallet is the administrator), `nominee`, `feeBps` and `lock` are the registry's entries;
`holder` and `nameOf` are the two maps of the name service, `registry` the contract it asks, `admin`, `nameLock` and
`pause` its administration. `register_name` asks the registry for the creator in the same transaction, so
`RegisterName` reads `creator` directly, or anything at all once the name service points elsewhere. `since`, `early` and
`vouched` are history.

## 3. Runs

Every run finishes within five minutes with two TLC workers. Deadlock is checked in the runs of the job queue, the
reconciler and the purchases. It is not in the contract runs, whose bounded clock and ids end the behaviours, nor
in those of `JobEffects`, which has nothing left to do when its job is settled and its bounds are used up.

### Job queue

**jobs_safety** (`Spec`): one job, two workers, three lease ids, two attempts, at most one SIGTERM, one crash and one
admin retry. One job is enough because no statement of the queue relates two rows except by ordering; two workers and
three ids are enough for a stale holder, a current holder and a fresh lease at once; two attempts give a first, a last
and an exhausted one. It checks that the lease fences stale workers (`LeaseExclusive`), that the decision of `fail()`
is still right when its UPDATE applies (`DecisionCurrent`), that no job fails more often than maxAttempts and one that can
still run has a failure left (`FailureBudget`), that a live lease is ended only by its holder (`LiveLeaseRespected`), that a
completed row never changes (`CompletedIsFinal`), and that the queue implements `JobLifecycle` (`ImplementsLifecycle`).
No run says that a dead letter was earned by failures alone: `release()` leaves the consumed attempt on the row (section 5).

**jobs_live** (`FairSpec`): two jobs, the more urgent one fatal, one worker that takes both in a batch, one crash or
rejected reap or lease statement, `fail()` and `complete()` that may reject, no shutdown. `EveryJobSettles`: whatever is queued is in the end completed, dead-lettered or cancelled,
also when the batch was abandoned and its calls go on as strays.

Fairness: workers poll (`RunOnce`), are restarted (`Boot`) and exit once asked to (`Exit`); handlers end, because they
are awaited code the queue cannot stop; an awaited statement returns; time passes (`LeaseLapses`, `BecomesDue`).
Nothing is assumed of heartbeats, signals, crashes or the admin. Two live workers are not run under fairness: the
second multiplies the states and adds no way to get stuck, since every obstacle is a lease and leases lapse.

### Job effects

**effects_once** (`FairSpec`): one agent process whose scheduler and `fulfill_job()` dispatch at the same time under one
worker id, another agent that leases the job, two attempts, three fencing tokens, a pause, and either one crash, lapsed
dispatch lease or operator's requeue or deliveries of the webhook. Three results: the agent computes one that reads back as
another (a float) or one that reads back as itself, and others deliver any of the three. Two dispatches are what one process
runs; three tokens are enough for an old, a current and a refreshed lease. The constraint `OneStory` of `MCJobEffects` keeps the
stories apart: faults happen to the result that survives its JSON, webhook deliveries come one at a time, to an active
agent, without faults and up to the first token; `MaxPaid = 2` is one payment and one the webhook adds. `InboxFollowsEffect` and
`TokensOrdered` relate the two SQLite rows and the web row however late the answers are; `ImplementsOnce` is the
refinement; `EffectSettles` is liveness.

**effects_offer** (violation): see section 5.

Fairness: the scheduler polls for jobs and dispatches (`Ingest`, `Work`), awaited calls end (every one has a timeout), and
leases expire. Nothing is assumed of claims, heartbeats, operators, other agents or late POSTs.

### Purchases

**purchase_sale** (`Spec`): two requests at a time, retried and restarted for ever, out of eight orders of an agent and a
human who chose the same key: the key with two tokens, with another payload, by the service and by the jobs route, a bid, a
transaction that is only named, and bridge deliveries of both modes; two rows, one commit whose answer is lost. Two
concurrent requests are a race; that there are always new ones gives the retries after it. Two rows are the first purchase
of a key and the second after its row was reclaimed, the purchases of the two buyers, or a purchase and a bridge job.
`MaxBooked = 2` stops a webhook and a repair from reopening and booking one row for ever.
`OneJobPerKey`: two 201 answers to one buyer and key name one job of that buyer unless the earlier was reclaimed.
`AgentsGetTheirOwn`: an agent is answered with a job it bought; a human need not be (section 5). `RetryIsFree`: a
request that arrives when its buyer has bought with its key moves no money, whatever token it carries. `BooksBalance`: what is
completed is booked, also by the webhook, and nothing twice until the webhook writes the row; that it then books again is
what the code does and is listed in section 5.

Assumed: only agents use the service route and only people the jobs route (authentication decides); the references
of bridge payments are of their own kind, and the deliveries of one payment name one buyer; the thirty days of retention
outlast every request that is being served (`Reclaim`).

### Reconciler

**reconciler_safety** (`Spec`): a job and a token purchase, one process with two overlapping ticks, two polls to give
up, depth 1, batches of one, one call at a time, two ledgers, one crash or failed write. Batches smaller than the number
of records make the order by updatedAt matter; the limit of one leaves the second record in the queue. The constraint
`OverlapOrTwoRecords` of `MCReconciler` keeps the run small: until the purchase is on the ledger the job is alone, with
overlapping ticks (the interval's and a forced one), faults, and webhook deliveries up to the first fault; from then on
there are two records but one tick at a time, no fault and no delivery. `OneCallPerRecord`: however ticks and calls
overlap, the sets in memory keep a record in one call. `FinalityIsTrue`: records and jobs say of the network only what is
so. `SettledOnce`: agent, pause and repair race for the row and the first decides for them all; a settled job is moved only
by a webhook delivery that had read it before, to the status it meant to save, and a settled purchase by nothing. That a
payment is given up after as many polls as configured is proved and in no run, because the documents count 404s (section 5).

**reconciler_repair** (violation, `FairSpec`): see section 5. Fairness: `setInterval` keeps ticking, awaited calls
return, time passes.

### Dividends

**dividends_epochs** (`Spec`): one Talos, three addresses, three registries of which one is too old and one another kind of contract, up to two epochs
of 0 or 7 units, expiry 0 (refused) or 1, a clock up to 2, three splits: accepted, not summing to 100, and overflowing
(`MaxI128 = 450`, so that 7 times 70 is out of range while 7 times 60 is not), patrons in three or two hands, one admin
transfer. Seven units split 60/25/15 lose two to rounding, the most there can be. It checks `Accounts` (money is
conserved, the amount claimed is the sum of the payouts, dust is at most two units), `FullClaimLeavesDust` (what remains
after one payout per role under one split is the dust), `WindowsDisjoint`, `OnePayoutPerPatron`, `NominationCurrent` and
`EpochHistory`.

### Governance

Two accounts, one proposal, and a few ledgers are enough for power that changes before, at and after the snapshot, a
vote by each side, and a proposal decided early or at the end. The interesting inputs are spread over two runs, since
together they multiply:

- **governance_power** (`Spec`): updates to -1 or 2 (an i128 that the contract takes as it is), cached balances, delegation. The binary search equals the lookup it
  stands for (`SearchIsLookup`), the supply kept by differences is the sum (`SupplyIsSum`), tallies are votes
  (`TallyMatchesVotes`), a closed ledger's past never changes (`PastIsImmutable`).
- **governance_actions** (`FairSpec`): proposals that pause, resume or reconfigure (also invalidly), with and without
  control over the Talos, while the voting domain is paused, the admin changes, and the quorum becomes three quarters of
  the supply (`OtherQuorum`, which also tries a configuration without a quorum and one without a consensus). Every behaviour is
  one of `Ballot` (`ImplementsBallot`): one ballot each and none after the decision, no approval without a vote in favour,
  which the contract owes to refusing a consensus of zero, and no action carried out twice. `DecisionIsFinal`,
  `EarlyDecisionHadQuorum`. `EveryProposalSettles`: a proposal somebody voted on is decided in the end, whatever quorum is in
  force by then; one without votes need not be (the next run). Fairness: the network closes ledgers, and
  `finalize_proposal` is permissionless, so somebody who wants the decision calls it. The constraint `ShareAlone` keeps the
  share of the supply and a change of the admin, which do not touch each other, in separate behaviours.
- **governance_finalize** (violation): see section 5.

### Registry and name service

**registry_names** (`Spec`): two accounts, two ids, two names, four timestamps, delays of 0 and 2, two proposals of the
registry and one of the name service, the fee at and above its maximum. Two of each are enough for a renaming, a name that
changes hands, an old and a new administrator, and a proposal scheduled before and after a change of the delay; a delay of
2 within four timestamps leaves room for a proposal that is early, in time and late. The two administrations do not
read each other's state, so `Focused` of `MCTalosNameService` explores them one at a time, each with what it can
influence. `NamesSound`: names and Taloses are one to one, and each was named by its creator. `CreatorIsPermanent`: only
an id given out before `initialize` is given out again. `NoticeGiven`, `RegistryIsAnnounced`: under a delay, changes come
only by an announced proposal. `FeeWithinLimit`: also by the proposal that asked for more.

The notice is the delay, or all the time since the delay last changed: a proposal that was scheduled under a shorter
delay still runs by its own date.

## 4. Proofs

TLAPS checks every proof, for any sets of jobs, workers, processes, transactions, requests, Taloses and addresses and any
value of the bounds, from the named `ASSUME`s on the constants alone (which TLC evaluates in each run). These fix types and
positive bounds; governance also assumes finitely many accounts, because its supply is a sum over them, and that an unused
proposal slot has an action to hold. Every property of a passing run is stated by a theorem, except liveness.

**JobQueueProofs.**
The types come first (`TypeStep`, one step per action). What follows would repeat the case analysis over the actions
for each invariant, so it is done once: `RowSteps` says that any step leaves a row alone or does one of eight things to
it (enqueued, requeued, leased, retried, dead, released, cancelled, completed), and `ExecSteps` the same of a
`processJob()` call.

- `LeaseInvariant`: `LeaseExclusive` alone is not inductive, because a stale worker's call could come to match again if
  a new lease took its id. The strengthening `LeaseIdsDistinct` says that no two calls remember the same id of a job; a
  new lease takes one that nobody remembers. `LeaseIsExclusive` and `DecisionIsCurrent` follow.
- `BudgetInvariant`: `FailureBudget` is inductive only together with the accounts of the attempts column and of dead letters
  (`AttemptsAccounted`, `DeadLetterAccounted`), with `AbsentIsNew` (no history before the insert) and the lease invariant, which
  makes the decision in `fail()` the right one. `FailuresStayInBudget` is the property of the run, `AttemptsAreAccounted` and
  `DeadLettersAreAccounted` say what hand-backs cost.
- `QueueImplementsLifecycle`: under the mapping of the row's status and the two histories, the budget invariant makes
  each row step a step of `JobLifecycle` or a stutter.
- `LiveLeasesAreRespected`, `CompletedStaysFinal`: `WritesAreGuarded` collects, once for all actions, which condition each
  UPDATE puts on the row it changes; both are read off it.
- `DeadLettersAreEarned`: the accounts are exact as long as nothing was handed back, and `NoHandBacks` says that this lasts
  until the first SIGTERM. So the theorem is `stops = 0 => DeadLetterEarned`, for any `MaxStops`.

**JobEffectsProofs.**
`IInv` is `InboxFollowsEffect` and `TokensOrdered` with two facts about what is under way: `Granted` (tokens in flight were
granted by the web API) and `Evidence` (an effect carries its result from its first state on, the API pays what it
completes, and a call that won or met another result can name a result that the row has held). `accepted` only grows
(`HistoryGrows`), so this stays true when the webhook replaces or erases the result. `RowsAgree`, `FencingOrdered` and, since
`Evidence` makes every verdict right, `Refinement` of `OnceEffect` follow, for any `Stored`: what JSON makes of a result is
assumed nowhere.
- `AttemptsAreBounded`: the bound on the attempts says nothing of the calls under way, so it is not inductive. `CallsCounted`:
  besides the one dispatch that holds the row, every dispatch under way is the trace of a fault (a crash or a lapsed
  dispatch lease that let the next one start). `AttemptsCounted`: once the limit is reached, the attempts, the calls that can
  still put the effect back to waiting (`Early`) and the chance to claim it now together stay within `MaxAttempts` plus the
  faults. Their conjunction `AttInv` is inductive on top of `IInv`; the number of tasks need not be finite, since the
  invariant itself says that those running are.

**CommercePurchaseProofs.**
A step can do two things to the table and one to the requests: `TableStep` (a row is added, `Grows`, or rewritten,
`Rewrites`), `RequestStep` (`Serves`), `SoldStep`. With these, each conjunct of `IInv` takes three cases instead of fifteen
actions.

- `KeysBuyOnce`: from `KeysApart` (of two rows with one buyer and key the earlier is reclaimed) and `SoldRows` (an answer
  names a row of its own key, and one to an agent a row of that agent, which is `AgentsAnswered`).
- `RetriesAreFree`: strengthened to `LateFinds`: a late request is still at its lookup and there is a row of its buyer for it
  to find, because a row is not reclaimed while its key is in use.
- `BooksAreBalanced`: inductive with `SavesBridge` (only the webhook saves) and the types. The webhook writes a row for its
  own buyer (`BridgesAssumption`), so that no row changes hands.

**TalosDividendsProofs.**
`StepOfEpoch` says what a step can do to one epoch: nothing, commit, pay, recover.
- `MoneyIsConserved`, `EpochsOnlyAdvance` follow from it and the types.
- `DustIsBounded`: `DustOfSplit` proves, for every amount and every split that sums to 100, that three floors lose less than
  three units.
- `EpochAccounts`, `FullClaimsLeaveDust`: `PaidInv` says that the payouts are finitely many, that each was its role's share of
  the total under a split that sums to 100 (`FairlyPaid`), and that the claimed amount is their sum; a payout adds itself to one
  sum and leaves the others (`PayoutAdds`, from `SumLemmas`). Three payouts of three roles under one split are then the three
  floors of `DustOfSplit`.
- `WindowsAreDisjoint`: a payout happens at the deadline at the latest and a recovery after it; `WindowInv` adds what makes this
  inductive, that a paid epoch stays committed, so that its deadline is fixed (`DeadlineFixed`), and that no entry is from
  the future.
- `PayoutsAreUnique`: strengthened with `PayoutMarked` (every payout left its marker, and markers are never removed).
- `NominationsAreCurrent`: strengthened so that a nominee implies an admin.

**TalosRegistryProofs.**
`Kept` says of a lock that no proposal is from the future and that one scheduled since the delay last changed waits for at
least that delay; it is shown once for `Timelock` and used for both contracts (`LocksKept`).
- `NoticeIsGiven`, `RepointIsAnnounced`: with `DelayHasAdmin` (a delay is only set by an administrator, so `initialize`
  does not go behind one).
- `CreatorsArePermanent`: `CreatorInv`, ids ahead of `nextId` have no creator unless they were given out early.
- `NamesAreSound`: `NamesInv` adds the types of the two maps and what the name service was told.
- `FeesAreLimited`.

**SumLemmas.**
The library's induction theorems take the property as an operator, which no installed prover can instantiate. Here the
property is a set: `NatSetInduction` (a set of naturals closed under the successor) and `FiniteSetInduction` (a set that holds
every subset whose smaller neighbours it holds) follow from the existence of minimal elements. With them the recursion behind
`MapThenSumSet` is shown to have one solution on every finite set (`SumsExist`, `SumsAgree`), and the sum not to depend on the
order (`SumTakeOut`): `SumAdd` adds an element, `SumChange` changes one summand.

**TalosGovernanceProofs.**
`IndInv` is `TypeOK` with `PowerOK` (the ledgers of every checkpoint vector increase and none is later than the current one)
and `SnapshotsPast`.

- `SearchCorrect`: `BinarySearch` narrows a window that always holds the answer; with the order of the checkpoints, which
  `PowerOK` gives, it ends at the entry `LastAtOrBefore` defines.
- `PastCorrect`: a push changes or adds only the entry of the current ledger, so that a lookup before it is unmoved.
- `SupplyCorrect`: the supply moves by the difference the contract computes, the sum by `SumChange`.
- `DispatchCorrect`, `DecisionCorrect`, `EarlyCorrect`: `BallotSteps` says once what any step does to a proposal
  (create, vote, decide, execute, nothing); the three follow by these cases.
- `TallyCorrect`: `TallyInv` adds `BallotsClean` (an unused slot has no tallies, a ballot has a valid choice); a vote adds
  its weight to one sum and itself to the number of those who voted (`VoteCounts`).
- `Refinement`: the cases of `BallotSteps` are, one for one, the steps of `Ballot`. That an approved proposal has a vote in
  favour needs two facts that no other theorem does: `ConfigSound` (the three places that write the configuration refuse a
  consensus below one basis point, and proposals come only after the first configuration) and `BallotsCounted` (what is
  counted in favour has a ballot in favour behind it, and a proposal without voters has no ballot). `ConsensusNeedsVotes`
  is the arithmetic between them; that an action is carried out once is `DispatchedOnce`.

**ReconcilerProofs.**
What makes the reconciler hard to reason about is that calls work on old copies. `IndInv` therefore speaks of copies:
`GoodRec(t)` are the records of transaction t that say nothing false of the network, judged by what the network and the
number of polls remember. Both only grow, so a copy that was true stays true, however late it is written. `TablesOK` puts the
table, `ProcOK` every batch, queue and call in `GoodRec`; `WorldOK` is the network.

- `FinalityCorrect`, `GivenUpCorrect`: these are what `GoodRec` says of the rows and of the records.
- `GivenUpCorrect` counts polls as the code does, failed ones included.
- `SettledCorrect`: a row's step is guarded by its status, whatever copy the caller had, except the webhook's, which writes
  what it decided at its read (`BridgeOK` keeps what is on its way in its type, and away from purchases).
- `OneCallCorrect`: `OnceInv` says, per process, that queue, calls and batches hold no transaction twice, that `activeIds` are the
  transactions of the calls and that none of them is queued (`MemoryOnce`), and that the order of the records names none twice
  (`OrderOnce`). The filter `Kept` of `TickLoad`, `TickQueue` and `Touch` is a recursion over a sequence, whose lemmas come first.

These hold for any number of processes, ticks and transactions, where the runs have one process and two transactions.

Left to TLC: liveness under fairness, which is out of the prover's reach (`EveryJobSettles`, `EveryProposalSettles`,
`EffectSettles`), and the violations of the next section.

## 5. Where the code and its documents disagree

Each of these is a run that TLC finds violated; `PROJECT.json` has the quotations.

- **effects_offer**, `PendingIsOffered`: `eq(leasedBy, null)` is `= NULL` in SQL and true of no row, so a job that was never
  leased is neither listed for its agent nor claimable. The tests mock the query.
- **governance_finalize**, `ExpiredCanBeFinalized`: with no supply at the snapshot a quorum in basis points is 0, is met by
  no votes, and the division by the votes cast traps; the proposal can never be finalized.
- **reconciler_repair**, `TerminalIsRepaired`: the terminal status is stored before the repair, and ticks load only active
  records, so a repair that failed or was cut off is never tried again.

Also met while modelling, and stated by no run:

- Job queue: when a heartbeat reports a cancellation, `processJob()` returns without touching the row, which stays leased,
  is reaped with the flag still set and ends in dead_letter, where `JOBS.md:23` draws leased to cancelled (`runner.ts:102`):
  the code never takes that step, which `JobLifecycle` allows as the document does. `release()` says that it consumes no
  attempt (`store.ts:188`) and leaves the consumed one on the row, so a job that restarting workers hand back is
  dead-lettered after fewer failures; a fatal job whose worker crashed is run again (`retry.ts:34`).
- Job effects: "automatic dispatch stops at dead" after the attempts limit (`docs/prime-agent-durable-job-effects.md:72`,
  `:102`), but `attempts` may pass it after a crash, a lapsed dispatch or a requeue; `AttemptsAreBounded` proves by how
  much. "The same completed result marks the effect succeeded" (`:95`), but digests are compared after JSON and jsonb: a float
  with an integral value comes back as an integer, and the agent's own result is taken for a conflict. A slow attempt
  of the same worker id can reschedule what a later one holds; a refresh puts the inbox back to claimed, so a prepared job is
  offered to the agent again.
- The webhook as a second writer of job rows (`cross-chain-webhook/route.ts:344`, by id, whatever the row has become): it
  may reopen a completed or cancelled job, replace or erase its result and book it twice, also when
  `withTransactionRetry()` runs a lost commit again. `docs/x402-payment-flow.md:240` says "the books are always consistent",
  `docs/idempotency-design.md:177` "a terminal row is never written again". An erased result is not delivered again,
  because the agent's inbox is completed. A bid that is still negotiating is booked at its insert.
- Purchases: keys are per buyer in the index and on the service route, but the jobs route looks them up among every
  buyer's rows, so a human may be answered with an agent's job (`jobs/route.ts:199`; `schema.ts:363` scopes the key per buyer); a
  retry with a payment that had been settled can be told "The payment was not charged. Retrying is safe."
  (`service/route.ts`), and the comment of `jobs/route.ts` that a failed submission has not landed on chain is wrong after a
  timeout; two requests with one key that race both settle, and the second is answered with the first one's job, also
  for another payload; a purchase whose commit lost its answer runs into its own row and answers 409 "replay"; once an
  old row was cleaned up its token may buy again. The error code 23505 is where `db-retry.ts` also looks for it, in
  `cause`, with the drizzle version in use; where the handlers look only at `code`, a refused insert is a 500, which the
  model calls a refusal as well.
- Reconciler: a stale copy can take a terminal record back to PENDING, although `validateTransition` means to prevent it,
  because the UPDATE is by id; "404s >= notFoundThreshold" (`state-machine.ts:13`, `RECONCILER.md:38`), but `pollCount`
  also counts polls that ended in an error, so a payment may be given up after fewer 404s; expiry by
  the wall clock takes precedence over a poll that found the payment; no caller passes `ledgerSubmitted`, so expiry by
  ledgers never happens; a token purchase is registered only once it is completed, so its repair never does anything; a
  purchase whose process died after the pending insert answers 409 for ever (`buy-token/route.ts:98`).
- Dividends: the claim marker lacks the Talos, so claiming epoch 1 of one Talos closes epoch 1 of all others to that
  address; `InconsistentShareData` compares only the dust, so two claims with different splits of equal dust are both paid.
  The dust is not out of reach either: a claim checks only that the epoch still covers its share, so after one payout per role
  a fourth address, named by its caller as holder of a role with a small share, is paid out of the dust (101 units split
  1/1/98). The proof of `FullClaimLeavesDust` failed on this case; the property now speaks of one payout per role.
- Governance: a delegator votes with the delegatee's power, which the delegatee keeps, so one holding counts several times
  (`get_vote_weight`; `contracts/README.md:67`); an executed `UpdateConfig` keeps `quorum_bps`.
- Registry and name service: `pause()` stores a state that no write path reads, where `contracts/README.md:570` says
  otherwise; `initialize` resets the ids, and `deploy.sh` never calls it; proposals outlive the administrator who scheduled
  them and anybody may execute them; `set_timelock_config` is not itself under the timelock; `set_admin` of the name service
  bypasses the timelock and is open to anybody while there is no administrator; a pause of the config domain blocks
  `cancel_action` but not `execute_action`; `register_name` stays free beside `register_name_with_fee`;
  `remove_guardian` refers to a variable that is not defined, and `add_guardian` is not idempotent.

## 6. What is left out

Everywhere: logging, metrics, list and read endpoints, authentication; a database statement that is committed but whose
answer is lost, where it is not named above (`CompleteRejects`, `CommitLost`).

- JobQueue: the select and insert of an idempotent enqueue, which the unique index decides; several queues (rows whose
  queue has no handler are not leased); the values of delays; a job leased again by a process in which a stray call of
  the same job still runs (bound: one process has one call per job).
- JobEffects: restoring an old database file; hashing (a digest is the result it is taken of); webhook deliveries of two
  statuses under way at once and deliveries beside faults, which the theorems cover and the run does not.
- CommercePurchase: amounts, quotas, price checks and validation (they refuse before the settlement: `Fail`); the
  registration with the reconciler, which `Reconciler` has; negotiation of bids; the purchase of tokens.
- Reconciler: more than one webhook delivery per job under way; `stopReconciler()`, counters, the promises a forced tick awaits, the ledger-gap expiry. Two processes at
  once are specified (`Servers`) but not run, since one transaction already exceeds twelve million states; the theorems
  cover them.
  That every tracked payment settles in the end, by expiry at the latest, is too large for a run with two transactions.
- TalosDividends: overflow of `created_at + expiry_secs` (expiry is at most a year); archival of entries; token transfers, which
  the contract leaves to the settlement layer.
- TalosGovernance: dividend snapshots (an admin-only counter), storage-lifetime sweeps, a snapshot offset of 0,
  titles and descriptions; of the registry only what an executed proposal calls.
- Registry and name service: the data a creator sets of a Talos, the allowlist, `pause()` and guardians (nothing that
  writes reads them), lifetime calls, schema migrations, the registration fee, the canonical form of names.

Not modelled at all, by reason:

- nothing reaches it: the transactional outbox (no code calls `writeOutboxEvent()`) and the reservations of
  `lib/idempotency/reservation-store.ts` (no caller);
- it repeats a protocol that is modelled: webhook deliveries (the leases of `CommerceRow`, attempts and dead letters as in
  `JobQueue`);
- one atomic step each: quotas, rate limits, stream slots, reputation ledger, audit log, backup;
- no state of its own, or presentation: x402 and Stellar helpers, fulfilment handlers, authentication, SDK, OpenClaw,
  scripts, pages. These, with generated code, are most of the repository's lines; their part of the behaviour is the
  answers the models allow;
- still open: see the plan.

## 7. Plan

Done: the job queue, the agent's job effects with the commerce row, purchases, the reconciler, dividends, governance,
registry and name service; abstract specifications and refinements of the queue, the effects and the proposals. Next:

1. Proofs: every safety property of the passing runs is proved. Next: an abstract reconciler (a payment and its verdict), with
   the refinement, which the present invariants carry; the operators of `CommerceRow` as lemmas of their own.
2. **TelegramQueue**: claims with a lease and sends whose outcome is unknown.
3. **Provisioning**: the workflow of steps with compensation, and the contract event indexer's cursor.
4. **CircuitBreaker**: probes in flight while the state changes.

Runs and properties are kept few, one run per question: a new component replaces the weakest of the present questions.
