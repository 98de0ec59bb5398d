------------------------------ MODULE JobEffects ------------------------------
(***************************************************************************)
(* The durable result path of one commerce job: the provider's agent        *)
(* (packages/prime-agent: job_effects.py, tools/commerce.py, the scheduler  *)
(* tasks) with its SQLite rows, against the lease and result routes of the  *)
(* web API.  Between two awaits the agent's event loop runs alone; SQLite   *)
(* transactions and HTTP handlers are the atomic steps.  A request may be   *)
(* answered, lost, or arrive after its caller stopped waiting.              *)
(* The cross-chain webhook writes the same row, after reading it.           *)
(* Outside* steps are other clients of the API: a second process with the   *)
(* provider's key, or another agent, which the claim route does not refuse. *)
(***************************************************************************)
EXTENDS CommerceRow

CONSTANTS
  Provider,      \* the agent the job was bought from
  Tasks,         \* concurrent calls of dispatch_once()
  WorkerOf,      \* the dispatcher identity each task runs under
  Gone,          \* the identity of a process that has crashed
  NoOwner,       \* SQL NULL in lease_owner
  MaxAttempts,   \* JobEffectLimits.max_attempts
  Computed,      \* results the agent may pass to fulfill_job()
  Stored,        \* what is read back of each result after JSON and jsonb: 5.0 is 5
  MaxToken, MaxPaid, MaxFaults   \* bounds of the model

ASSUME ProviderAssumption == Provider \in Taloses
ASSUME WorkerAssumption ==
  /\ DOMAIN WorkerOf = Tasks
  /\ \A t \in Tasks : WorkerOf[t] \notin {Gone, NoOwner}
  /\ Gone # NoOwner
ASSUME ComputedAssumption == Computed \subseteq Results
ASSUME StoredAssumption == Stored \in [Results -> Results]
ASSUME BoundsAssumption ==
  MaxAttempts \in Nat \ {0} /\ MaxToken \in Nat /\ MaxPaid \in Nat /\ MaxFaults \in Nat

VARIABLES
  job,      \* the row of tls_commerce_jobs
  active,   \* whether the provider's status is Active
  paid,     \* revenue rows written for the job
  accepted, \* history: every result the row has held
  bridge,   \* the status that each delivery of the webhook under way will write
  inbox,    \* job_inbox: state and fencing token, 0 for NULL
  effect,   \* job_effect_outbox
  task,     \* where each dispatch is and the EffectRecord it works from
  caller,   \* fencing token in the answer on its way to claim_job(), or 0
  wire,     \* fencing tokens of the POSTs whose callers gave up on them
  faults    \* crashes, lapsed dispatch leases and requeues so far

ledger == <<paid, accepted, bridge>>
server == <<job, active, ledger>>
agent  == <<inbox, effect, task, caller>>
vars   == <<server, agent, wire, faults>>

Workers == {WorkerOf[t] : t \in Tasks}
InboxStates == {"none", "received", "claimed", "effect_pending", "completed", "conflict"}
Resting == {"pending", "retryable", "indeterminate"}
Settled == {"succeeded", "conflict", "dead"}
Effects == [state : {"none", "dispatching"} \cup Resting \cup Settled,
            result : Results \cup {NoResult}, token : Nat, attempts : Nat,
            owner : Workers \cup {Gone, NoOwner}]
PCs == {"idle", "look", "post", "won", "unsure", "refused", "refresh", "claimed",
        "prepare", "reschedule", "differs"}
Idle == [pc |-> "idle", token |-> 0, attempt |-> 0]

Fault == faults < MaxFaults /\ faults' = faults + 1

Init ==
  /\ job = NewRow /\ active = TRUE
  /\ paid = 0 /\ accepted = {} /\ bridge = {}
  /\ inbox = [state |-> "none", token |-> 0]
  /\ effect = [state |-> "none", result |-> NoResult, token |-> 0, attempts |-> 0,
               owner |-> NoOwner]
  /\ task = [t \in Tasks |-> Idle]
  /\ caller = 0 /\ wire = {}
  /\ faults = 0

-----------------------------------------------------------------------------
(* The web API *)

Grants(t) == Claimable(job, t) /\ job.token < MaxToken
ProviderMayClaim == active /\ Grants(Provider)

Books(r) ==
  paid < MaxPaid /\ paid' = paid + 1 /\ accepted' = accepted \cup {Stored[r]}
Complete(r) == job' = Completed(job, Stored[r]) /\ Books(r) /\ bridge' = bridge
Accepts(token) == active /\ Completable(job, Provider, token)

OutsideClaim(t) ==
  /\ t = Provider => active
  /\ Grants(t) /\ job' = Claimed(job, t)
  /\ UNCHANGED <<active, ledger, agent, wire, faults>>

OutsideRelease ==
  /\ job.by # NoTalos /\ (job.by = Provider => active)
  /\ job' = Released(job)
  /\ UNCHANGED <<active, ledger, agent, wire, faults>>

OutsideComplete(r) ==
  /\ Accepts(job.token) /\ Complete(r)
  /\ UNCHANGED <<active, agent, wire, faults>>

LatePost(token) ==
  /\ Accepts(token) /\ Complete(effect.result)
  /\ UNCHANGED <<active, agent, wire, faults>>

\* POST /api/commerce/cross-chain-webhook for this job.  The service's mode, which
\* its owner may change, decides the status it will write.
BridgeRead(s) ==
  /\ job.status \notin {"completed", s} /\ bridge' = bridge \cup {s}
  /\ UNCHANGED <<job, active, paid, accepted, agent, wire, faults>>

\* The save does not look at the row again.  It may be repeated: two deliveries
\* read the same row, or withTransactionRetry() runs a lost commit once more.
BridgeSave(s) ==
  /\ s \in bridge /\ bridge' \in {bridge, bridge \ {s}}
  /\ \/ s = "pending" /\ job' = Bridged(job, s, NoResult) /\ UNCHANGED <<paid, accepted>>
     \/ s = "completed" /\ \E r \in Results : job' = Bridged(job, s, Stored[r]) /\ Books(r)
  /\ UNCHANGED <<active, agent, wire, faults>>

Lapsed(j) == [j EXCEPT !.lease = "lapsed"]

\* No route makes a job available that nobody has leased (Available).  The rows on
\* which the lease routes do anything got an expiry by other means, like the rows
\* of expired leases that their tests start from.
GotExpiry ==
  /\ job.status = "pending" /\ job.lease = "none" /\ job.token = 0
  /\ job' = Lapsed(job)
  /\ UNCHANGED <<active, ledger, agent, wire, faults>>

LeaseLapses ==
  /\ job.lease = "live" /\ job' = Lapsed(job)
  /\ UNCHANGED <<active, ledger, agent, wire, faults>>

\* Pausing an agent cancels its pending jobs; a job of a paused agent stays so.
Pause ==
  /\ active /\ active' = FALSE
  /\ job' = IF job.status = "pending" THEN Cancelled(job) ELSE job
  /\ UNCHANGED <<ledger, agent, wire, faults>>

Resume ==
  /\ ~active /\ active' = TRUE
  /\ UNCHANGED <<job, ledger, agent, wire, faults>>

-----------------------------------------------------------------------------
(* The agent's inbox and its tools *)

Ingest ==
  /\ active /\ job.status = "pending" /\ Available(job, Provider)
  /\ inbox.state = "none" /\ inbox' = [inbox EXCEPT !.state = "received"]
  /\ UNCHANGED <<server, effect, task, caller, wire, faults>>

\* claim_job(): the web API grants the lease, and the answer may be lost.
ClaimJob ==
  /\ ProviderMayClaim /\ job' = Claimed(job, Provider)
  /\ caller' \in {caller, job.token + 1}
  /\ UNCHANGED <<active, ledger, inbox, effect, task, wire, faults>>

\* mark_claimed(): refused for an unknown or terminal job and a stale token.
MarksClaimedTerminal(token) == inbox.state # "none" /\ token >= inbox.token
MarksClaimedStale(token) == inbox.state \notin {"none", "completed", "conflict"}
MarksClaimed(token) ==
  inbox.state \notin {"none", "completed", "conflict"} /\ token >= inbox.token
InboxClaimed(token) == [state |-> "claimed", token |-> token]

ClaimAnswered ==
  /\ caller # 0 /\ caller' = 0
  /\ inbox' = IF MarksClaimed(caller) THEN InboxClaimed(caller) ELSE inbox
  /\ UNCHANGED <<server, effect, task, wire, faults>>

\* prepare_effect() for an effect that exists: a newer claim raises its token.
Refenced(e) == IF inbox.token > e.token /\ e.state # "succeeded"
               THEN [e EXCEPT !.token = inbox.token] ELSE e

\* prepare_effect() in fulfill_job(); the dispatch_once() after it is ClaimDue.
PrepareEffect(r) ==
  /\ inbox.token # 0
  /\ \/ /\ effect.state = "none"
        /\ effect' = [effect EXCEPT !.state = "pending", !.result = r, !.token = inbox.token]
        /\ inbox' = [inbox EXCEPT !.state = "effect_pending"]
     \/ /\ effect.state # "none" /\ effect.result = r
        /\ effect' = Refenced(effect) /\ inbox' = inbox
  /\ UNCHANGED <<server, task, caller, wire, faults>>

\* job_heartbeat_task() over claimed_jobs().
Heartbeat ==
  /\ \/ inbox.state = "claimed"
     \/ inbox.state = "effect_pending" /\ effect.state \in Resting \cup {"dispatching"}
  /\ active /\ Renewable(job, Provider, inbox.token) /\ job' = Renewed(job)
  /\ UNCHANGED <<active, ledger, agent, wire, faults>>

Requeue ==
  /\ Fault
  /\ effect.state \in {"retryable", "indeterminate", "dead"}
  /\ effect' = [effect EXCEPT !.state = "pending", !.owner = NoOwner]
  /\ UNCHANGED <<server, inbox, task, caller, wire>>

-----------------------------------------------------------------------------
(* dispatch_once() *)

GoTo(t, pc) == task' = [task EXCEPT ![t].pc = pc]
Stop(t) == task' = [task EXCEPT ![t] = Idle]

\* A row that is dispatching is due again when its lease ran out: at any time
\* while its task is merely slow, and for certain when its process is gone.
DueWhenResting == effect.state \in Resting /\ faults' = faults
Due ==
  \/ effect.state \in Resting /\ faults' = faults
  \/ effect.state = "dispatching" /\ effect.owner = Gone /\ faults' = faults
  \/ /\ effect.state = "dispatching" /\ effect.owner # Gone
     /\ Fault

ClaimDue(t) ==
  /\ task[t].pc = "idle" /\ Due
  /\ effect' = [effect EXCEPT !.state = "dispatching", !.owner = WorkerOf[t],
                              !.attempts = @ + 1]
  /\ task' = [task EXCEPT ![t] = [pc |-> "look", token |-> effect.token,
                                  attempt |-> effect.attempts + 1]]
  /\ UNCHANGED <<server, inbox, caller, wire>>

\* The WHERE clause of every mark_*(): no row means JobConflictError, which
\* ends the call.
Owns(t) == effect.state = "dispatching" /\ effect.owner = WorkerOf[t]
Rest(s) == effect' = [effect EXCEPT !.state = s, !.owner = NoOwner]

Mark(t, effectState, inboxState) ==
  /\ Stop(t)
  /\ \/ Owns(t) /\ effect' = [effect EXCEPT !.state = effectState, !.owner = NoOwner]
                /\ inbox' = [inbox EXCEPT !.state = inboxState]
     \/ ~Owns(t) /\ UNCHANGED <<effect, inbox>>
  /\ UNCHANGED <<server, caller, wire, faults>>

OutOfAttempts(t) == task[t].attempt >= MaxAttempts
MarkFailure(t, state) ==
  /\ Stop(t)
  /\ \/ Owns(t) /\ Rest(IF OutOfAttempts(t) THEN "dead" ELSE state)
     \/ ~Owns(t) /\ effect' = effect
  /\ UNCHANGED <<server, inbox, caller, wire, faults>>

Step(t, pc) == GoTo(t, pc) /\ UNCHANGED <<server, inbox, effect, caller, wire, faults>>

\* _reconcile(): the result of a completed job, as it reads now, is compared with
\* the recorded one; the row may change before the answer arrives.
ResultTrusted == TRUE
SameResult == job.result = effect.result
Reconcile(t) ==
  /\ job.status = "completed"
  /\ \/ SameResult /\ Step(t, "won")
     \/ ~SameResult /\ Step(t, "differs")

\* The first lookup; one that fails or finds nothing lets the POST go ahead.
Look(t) == task[t].pc = "look" /\ (Reconcile(t) \/ Step(t, "post"))

\* The POST is accepted, rejected, or left without the answer to it: wait_for()
\* gives up, the connection breaks, or a gateway answers in the API's place.
Post(t) ==
  /\ task[t].pc = "post"
  /\ \/ /\ Accepts(task[t].token) /\ Complete(effect.result)
        /\ GoTo(t, "won") /\ UNCHANGED <<active, inbox, effect, caller, wire, faults>>
     \/ ~Accepts(task[t].token) /\ Step(t, "refused")
     \/ /\ wire' = wire \cup {task[t].token}
        /\ GoTo(t, "unsure") \/ GoTo(t, "refused")
        /\ UNCHANGED <<server, inbox, effect, caller, faults>>

Won(t) == task[t].pc = "won" /\ Mark(t, "succeeded", "completed")
Differs(t) == task[t].pc = "differs" /\ Mark(t, "conflict", "conflict")

\* After a timeout or a transport error.
Unsure(t) ==
  task[t].pc = "unsure" /\ (Reconcile(t) \/ MarkFailure(t, "indeterminate"))

Refused(t) ==
  /\ task[t].pc = "refused"
  /\ \/ Reconcile(t)
     \/ MarkFailure(t, "indeterminate")
     \/ job.status # "completed" /\ Step(t, "refresh")

\* _refresh_remote_claim(): granted, granted with the answer lost, or not.
Refresh(t) ==
  /\ task[t].pc = "refresh"
  /\ \/ /\ ProviderMayClaim /\ job' = Claimed(job, Provider)
        /\ \/ task' = [task EXCEPT ![t].pc = "claimed", ![t].token = job.token + 1]
           \/ GoTo(t, "reschedule")
        /\ UNCHANGED <<active, ledger, inbox, effect, caller, wire, faults>>
     \/ Step(t, "reschedule")

MarkClaimed(t) ==
  /\ task[t].pc = "claimed"
  /\ \/ /\ MarksClaimed(task[t].token) /\ inbox' = InboxClaimed(task[t].token)
        /\ GoTo(t, "prepare") /\ UNCHANGED <<server, effect, caller, wire, faults>>
     \/ ~MarksClaimed(task[t].token) /\ Step(t, "reschedule")

Prepare(t) ==
  /\ task[t].pc = "prepare" /\ effect' = Refenced(effect) /\ GoTo(t, "reschedule")
  /\ UNCHANGED <<server, inbox, caller, wire, faults>>

Reschedule(t) == task[t].pc = "reschedule" /\ MarkFailure(t, "retryable")

\* A restarted process has a new worker id: the old one owns its rows no more.
Crash(w) ==
  /\ Fault
  /\ task' = [t \in Tasks |-> IF WorkerOf[t] = w THEN Idle ELSE task[t]]
  /\ effect' = IF effect.owner = w THEN [effect EXCEPT !.owner = Gone] ELSE effect
  /\ caller' = 0
  /\ UNCHANGED <<server, inbox, wire>>

-----------------------------------------------------------------------------
Work(t) ==
  \/ ClaimDue(t) \/ Look(t) \/ Post(t) \/ Won(t) \/ Differs(t) \/ Unsure(t) 
  \/ Refused(t) \/ Refresh(t) \/ MarkClaimed(t) \/ Prepare(t) \/ Reschedule(t)

Next ==
  \/ \E t \in Taloses : OutsideClaim(t)
  \/ \E s \in {"pending", "completed"} : BridgeRead(s) \/ BridgeSave(s)
  \/ \E r \in Results : OutsideComplete(r)
  \/ \E r \in Computed : PrepareEffect(r)
  \/ \E token \in wire : LatePost(token)
  \/ \E t \in Tasks : Work(t)
  \/ \E w \in Workers : Crash(w)
  \/ OutsideRelease \/ GotExpiry \/ LeaseLapses \/ Pause \/ Resume
  \/ Ingest \/ ClaimJob \/ ClaimAnswered \/ Heartbeat \/ Requeue

Spec == Init /\ [][Next]_vars

\* The scheduler polls and dispatches, awaited calls end, and leases expire.
Fairness ==
  /\ WF_vars(Ingest) /\ WF_vars(LeaseLapses)
  /\ \A t \in Tasks : WF_vars(Work(t))
FairSpec == Spec /\ Fairness

-----------------------------------------------------------------------------
(* Properties *)

TypeOK ==
  /\ job \in Row /\ active \in BOOLEAN
  /\ paid \in Nat /\ accepted \subseteq Results /\ bridge \subseteq {"pending", "completed"}
  /\ inbox \in [state : InboxStates, token : Nat]
  /\ effect \in Effects
  /\ task \in [Tasks -> [pc : PCs, token : Nat, attempt : Nat]]
  /\ caller \in Nat /\ wire \subseteq Nat
  /\ faults \in Nat

\* The two SQLite rows tell one story: the inbox is completed exactly when the
\* effect succeeded, in conflict exactly when the effect is, whatever late
\* claims, retried tool calls and slow dispatches arrive in between
\* (mark_claimed, prepare_effect, mark_succeeded, mark_conflict).
InboxFollowsEffect ==
  /\ inbox.state = "completed" <=> effect.state = "succeeded"
  /\ inbox.state = "conflict" <=> effect.state = "conflict"

\* Answers to claims arrive late and out of order, and three writers move the
\* token: the effect is never fenced by a token the inbox has not seen, nor the
\* inbox by one the web API has not granted (mark_claimed, prepare_effect, claim).
TokensOrdered == effect.token <= inbox.token /\ inbox.token <= job.token

\* The limit on attempts is only exceeded by the dispatches that a crash or a
\* slow task repeats and those an operator asks for: claim_due() counts without
\* looking at the limit, and mark_failure() judges by the count of its own call.
\* (The durable effects doc says that dispatch stops at the limit.)
AttemptsBounded == effect.attempts <= MaxAttempts + faults

\* The agent with its retries and the web API implement OnceEffect: a result is
\* accepted and paid only for a job that has none, save by the webhook, and the
\* agent's verdict names a result the job has held, as it reads back
\* (_reconcile, result/route.ts, cross-chain-webhook/route.ts).
Verdict == CASE effect.state = "succeeded" -> "confirmed"
             [] effect.state = "conflict" -> "refused"
             [] effect.state = "dead" -> "given_up"
             [] OTHER -> "open"
Once == INSTANCE OnceEffect WITH intent <- effect.result, delivered <- job.result,
                                 late <- bridge, verdict <- Verdict
ImplementsOnce == Once!Spec

\* Whatever is prepared is in the end confirmed, refused or given up, though the
\* process crashes, its leases lapse and answers are lost (dispatch_once, the
\* attempt limit of mark_failure).
EffectSettles == effect.state # "none" ~> effect.state \in Settled

\* A pending job is offered to its agent: pending/route.ts says it lists the jobs
\* that are unleased, leased by the caller or no longer leased.
PendingIsOffered == job.status = "pending" ~> inbox.state # "none" \/ job.status # "pending"
=============================================================================
