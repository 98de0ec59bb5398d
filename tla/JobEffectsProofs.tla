--------------------------- MODULE JobEffectsProofs ---------------------------
(***************************************************************************)
(* For any number of tasks, results and agents: the two SQLite rows agree,  *)
(* the fencing tokens are ordered, the attempts stay within their limit and *)
(* the faults, and the agent with the web API implements OnceEffect,        *)
(* whatever JSON makes of the results.                                      *)
(***************************************************************************)
EXTENDS JobEffects, FiniteSetTheorems, TLAPS

\* What the rows and the running calls know: an effect carries a result from
\* its first state on, only an effect has calls and POSTs, a completed job has a
\* result, and a call that is about to judge has seen what it judges by.
Own == accepted \cap {effect.result, Stored[effect.result]} # {}
Another == accepted \ {effect.result} # {}
Evidence ==
  /\ effect.state = "none" <=> effect.result = NoResult
  /\ effect.state = "none" => wire = {} /\ \A t \in Tasks : task[t].pc = "idle"
  /\ job.status = "completed" <=> job.result # NoResult
  /\ job.result # NoResult => job.result \in accepted
  /\ \A t \in Tasks : task[t].pc = "won" => Own
  /\ \A t \in Tasks : task[t].pc = "differs" => Another

\* Tokens in flight were granted by the web API.
Granted ==
  /\ caller <= job.token
  /\ \A t \in Tasks : task[t].pc = "claimed" => task[t].token <= job.token

IInv == TypeOK /\ InboxFollowsEffect /\ TokensOrdered /\ Granted /\ Evidence

USE DEF Row, Terminal, Resting, Settled, InboxStates, PCs, Idle, Effects, ledger, server, agent, vars

\* What each UPDATE of the web API does to the row, for any row and any agent.
LEMMA LeaseUpdates ==
  ASSUME NEW j \in Row, NEW t \in Taloses
  PROVE  /\ Claimed(j, t) \in Row /\ Claimed(j, t).token = j.token + 1
         /\ Claimed(j, t).status = j.status /\ Claimed(j, t).result = j.result
         /\ Renewed(j) \in Row /\ Renewed(j).token = j.token
         /\ Renewed(j).status = j.status /\ Renewed(j).result = j.result
         /\ Released(j) \in Row /\ Released(j).token = j.token
         /\ Released(j).status = j.status /\ Released(j).result = j.result
         /\ Cancelled(j) \in Row /\ Cancelled(j).token = j.token
         /\ Cancelled(j).status = "cancelled" /\ Cancelled(j).result = j.result
<1>1. /\ Claimed(j, t) \in Row /\ Claimed(j, t).token = j.token + 1
      /\ Claimed(j, t).status = j.status /\ Claimed(j, t).result = j.result
  <2>1. j.token + 1 \in Nat
    BY SMT
  <2>2. \A n \in Nat : [[[j EXCEPT !.by = t] EXCEPT !.lease = "live"] EXCEPT !.token = n] \in Row
    OBVIOUS
  <2>3. Claimed(j, t) = [[[j EXCEPT !.by = t] EXCEPT !.lease = "live"] EXCEPT !.token = j.token + 1]
    BY DEF Claimed
  <2>4. Claimed(j, t).token = j.token + 1 /\ Claimed(j, t).status = j.status
    BY DEF Claimed
  <2>5. Claimed(j, t).result = j.result
    BY DEF Claimed
  <2> QED
    BY <2>1, <2>2, <2>3, <2>4, <2>5
<1>2. /\ Renewed(j) \in Row /\ Renewed(j).token = j.token
      /\ Renewed(j).status = j.status /\ Renewed(j).result = j.result
  BY DEF Renewed
<1>3. /\ Released(j) \in Row /\ Released(j).token = j.token
      /\ Released(j).status = j.status /\ Released(j).result = j.result
  BY DEF Released
<1>4. /\ Cancelled(j) \in Row /\ Cancelled(j).token = j.token
      /\ Cancelled(j).status = "cancelled" /\ Cancelled(j).result = j.result
  BY DEF Cancelled
<1> QED
  BY <1>1, <1>2, <1>3, <1>4

\* A row booked keeps its history.
LEMMA Booking ==
  ASSUME IInv, NEW r \in Results, Books(r)
  PROVE  /\ Stored[r] \in Results /\ Stored[r] # NoResult
         /\ accepted' = accepted \cup {Stored[r]} /\ accepted' \subseteq Results
         /\ paid' = paid + 1 /\ paid' \in Nat
<1>1. Stored[r] \in Results
  BY StoredAssumption
<1> QED
  BY <1>1, NoResultAssumption DEF Books, IInv, TypeOK

\* A job is accepted while it is pending and has no result, and keeps its token.
LEMMA Acceptance ==
  ASSUME IInv, NEW r \in Results, job.status = "pending", Complete(r)
  PROVE  /\ job' \in Row /\ job'.token = job.token /\ job'.result = Stored[r]
         /\ job'.status = "completed" /\ job.result = NoResult
         /\ Books(r) /\ bridge' = bridge
<1>1. job \in Row /\ Stored[r] \in Results
  BY StoredAssumption DEF IInv, TypeOK
<1>2. job' \in Row /\ job'.token = job.token /\ job'.result = Stored[r] /\ job'.status = "completed"
  BY <1>1 DEF Complete, Completed
<1>3. job.result = NoResult
  BY DEF IInv, Evidence
<1> QED
  BY <1>2, <1>3 DEF Complete

\* What a call has seen stays in the history of the row.
LEMMA HistoryGrows ==
  ASSUME accepted \subseteq accepted', effect'.result = effect.result
  PROVE  (Own => Own') /\ (Another => Another')
  BY DEF Own, Another

LEMMA InitIInv == Init => IInv
<1>1. \A t \in Tasks : Idle.pc = "idle"
  OBVIOUS
<1>2. NewRow \in Row /\ NewRow.token = 0 /\ NewRow.status = "pending" /\ NewRow.result = NoResult
  BY DEF NewRow
<1>3. Init => TypeOK
  BY <1>2 DEF Init, TypeOK
<1>4. Init => InboxFollowsEffect /\ TokensOrdered /\ Granted /\ Evidence
  BY <1>1, <1>2 DEF Init, InboxFollowsEffect, TokensOrdered, Granted, Evidence
<1> QED
  BY <1>3, <1>4 DEF IInv

-----------------------------------------------------------------------------
(* The steps of the web API *)

\* An update of the lease or a cancellation: no token is taken back and the
\* verdict on the job stays.
Kept(j, k) ==
  /\ k \in Row /\ k.token >= j.token /\ k.result = j.result
  /\ k.status = "completed" <=> j.status = "completed"

LEMMA KeptIInv ==
  ASSUME IInv, Kept(job, job'), active' \in BOOLEAN,
         UNCHANGED <<ledger, inbox, effect, task, caller, wire, faults>>
  PROVE  IInv'
<1>1. job \in Row /\ job' \in Row
  BY DEF IInv, TypeOK, Kept
<1>2. job.token \in Nat /\ job'.token \in Nat /\ job'.token >= job.token
  BY <1>1 DEF Kept
<1>3. TypeOK'
  BY <1>1 DEF IInv, TypeOK
<1>4. InboxFollowsEffect'
  BY DEF IInv, InboxFollowsEffect
<1>5. TokensOrdered' /\ Granted'
  BY <1>2 DEF IInv, TypeOK, TokensOrdered, Granted
<1>6. Evidence'
  BY DEF IInv, Evidence, Own, Another, Kept
<1> QED
  BY <1>3, <1>4, <1>5, <1>6 DEF IInv

\* The steps of the web API that keep the verdict on the job.
Leases ==
  \/ \E t \in Taloses : OutsideClaim(t)
  \/ OutsideRelease \/ GotExpiry \/ LeaseLapses \/ Pause \/ Resume \/ Heartbeat

LEMMA LeasesKeep == IInv /\ Leases => Kept(job, job')
<1> SUFFICES ASSUME IInv, Leases PROVE Kept(job, job')
  OBVIOUS
<1>1. job \in Row /\ job.token \in Nat
  BY DEF IInv, TypeOK
<1>2. ASSUME NEW t \in Taloses, OutsideClaim(t) PROVE Kept(job, job')
  BY <1>1, <1>2, LeaseUpdates DEF OutsideClaim, Kept
<1>3. CASE OutsideRelease
  BY <1>1, <1>3, LeaseUpdates, ProviderAssumption DEF OutsideRelease, Kept
<1>4. CASE LeaseLapses
  BY <1>1, <1>4 DEF LeaseLapses, Lapsed, Kept
<1>5. CASE Pause
  BY <1>1, <1>5, LeaseUpdates, ProviderAssumption DEF Pause, Kept
<1>6. CASE Resume
  BY <1>1, <1>6 DEF Resume, Kept
<1>7. CASE Heartbeat
  BY <1>1, <1>7, LeaseUpdates, ProviderAssumption DEF Heartbeat, Kept
<1>8. CASE GotExpiry
  BY <1>1, <1>8 DEF GotExpiry, Lapsed, Kept
<1> QED
  BY <1>2, <1>3, <1>4, <1>5, <1>6, <1>7, <1>8 DEF Leases

LEMMA LeasesIInv == IInv /\ Leases => IInv'
<1> SUFFICES ASSUME IInv, Leases PROVE IInv'
  OBVIOUS
<1>1. active' \in BOOLEAN
  BY DEF IInv, TypeOK, Leases, OutsideClaim, OutsideRelease, GotExpiry, LeaseLapses, Pause, Resume, Heartbeat
<1>2. UNCHANGED <<ledger, inbox, effect, task, caller, wire, faults>>
  BY DEF Leases, OutsideClaim, OutsideRelease, GotExpiry, LeaseLapses, Pause, Resume, Heartbeat
<1> QED
  BY <1>1, <1>2, LeasesKeep, KeptIInv

\* A result is accepted without a call of the agent: from another process, or
\* by a POST its caller gave up on.
Delivered(r) ==
  job.status = "pending" /\ Complete(r) /\ UNCHANGED <<active, agent, wire, faults>>

LEMMA DeliveredIInv ==
  ASSUME IInv, NEW r \in Results, Delivered(r)
  PROVE  IInv'
<1>1. /\ job' \in Row /\ job'.token = job.token /\ job'.result = Stored[r]
      /\ job'.status = "completed" /\ Books(r) /\ bridge' = bridge
  BY Acceptance DEF Delivered
<1>2. /\ Stored[r] # NoResult /\ accepted' = accepted \cup {Stored[r]}
      /\ accepted' \subseteq Results /\ paid' \in Nat
  BY <1>1, Booking
<1>3. TypeOK'
  BY <1>1, <1>2 DEF IInv, TypeOK, Delivered
<1>4. InboxFollowsEffect' /\ TokensOrdered' /\ Granted'
  BY <1>1 DEF IInv, InboxFollowsEffect, TokensOrdered, Granted, Delivered
<1>5. (Own => Own') /\ (Another => Another')
  BY <1>2, HistoryGrows DEF Delivered
<1>6. Evidence'
  BY <1>1, <1>2, <1>5 DEF IInv, Evidence, Delivered
<1> QED
  BY <1>3, <1>4, <1>6 DEF IInv

\* The cross-chain webhook: its read changes nothing a call knows, its save
\* leaves the history of the row and a result exactly in a completed row.
LEMMA BridgeReadIInv ==
  ASSUME IInv, NEW s \in {"pending", "completed"}, BridgeRead(s)
  PROVE  IInv'
  BY DEF BridgeRead, IInv, TypeOK, InboxFollowsEffect, TokensOrdered, Granted, Evidence, Own, Another

\* Which result a save leaves, and what it adds to the history.
LEMMA BridgeSaves ==
  ASSUME IInv, NEW s \in {"pending", "completed"}, BridgeSave(s)
  PROVE  /\ job' \in Row /\ job'.token = job.token /\ paid' \in Nat
         /\ accepted \subseteq accepted' /\ accepted' \subseteq Results
         /\ job'.status = "completed" <=> job'.result # NoResult
         /\ job'.result # NoResult => job'.result \in accepted'
<1>1. job \in Row /\ accepted \subseteq Results /\ paid \in Nat
  BY DEF IInv, TypeOK
<1>2. CASE s = "pending"
  BY <1>1, <1>2 DEF BridgeSave, Bridged
<1>3. CASE s = "completed"
  <2>1. PICK r \in Results : job' = Bridged(job, s, Stored[r]) /\ Books(r)
    BY <1>3 DEF BridgeSave
  <2>2. /\ Stored[r] \in Results /\ Stored[r] # NoResult /\ paid' \in Nat
        /\ accepted' = accepted \cup {Stored[r]} /\ accepted' \subseteq Results
    BY <2>1, Booking
  <2>3. /\ job' \in Row /\ job'.token = job.token
        /\ job'.status = "completed" /\ job'.result = Stored[r]
    BY <1>1, <1>3, <2>1, <2>2 DEF Bridged
  <2> QED
    BY <2>2, <2>3
<1> QED
  BY <1>2, <1>3

LEMMA BridgeSaveIInv ==
  ASSUME IInv, NEW s \in {"pending", "completed"}, BridgeSave(s)
  PROVE  IInv'
<1>1. UNCHANGED <<active, agent, wire, faults>> /\ bridge' \subseteq {"pending", "completed"}
  BY DEF BridgeSave, IInv, TypeOK
<1>2. TypeOK'
  BY <1>1, BridgeSaves DEF IInv, TypeOK
<1>3. InboxFollowsEffect' /\ TokensOrdered' /\ Granted'
  BY <1>1, BridgeSaves DEF IInv, InboxFollowsEffect, TokensOrdered, Granted
<1>4. (Own => Own') /\ (Another => Another')
  BY <1>1, BridgeSaves, HistoryGrows
<1>5. Evidence'
  BY <1>1, <1>4, BridgeSaves DEF IInv, Evidence
<1> QED
  BY <1>2, <1>3, <1>5 DEF IInv

LEMMA OutsideDelivers ==
  /\ \A r \in Results : OutsideComplete(r) => Delivered(r)
  /\ \A token \in wire : IInv /\ LatePost(token) => effect.result \in Results /\ Delivered(effect.result)
<1>1. \A r \in Results : OutsideComplete(r) => Delivered(r)
  BY DEF OutsideComplete, Accepts, Completable, Delivered
<1>2. ASSUME NEW token \in wire, IInv, LatePost(token)
      PROVE  effect.result \in Results /\ Delivered(effect.result)
  <2>1. effect.result \in Results
    BY <1>2 DEF IInv, TypeOK, Evidence
  <2> QED
    BY <1>2, <2>1 DEF LatePost, Accepts, Completable, Delivered
<1> QED
  BY <1>1, <1>2

-----------------------------------------------------------------------------
(* The steps of the agent outside a dispatch *)

LEMMA IngestIInv == IInv /\ Ingest => IInv'
<1> SUFFICES ASSUME IInv, Ingest PROVE IInv'
  OBVIOUS
<1>1. inbox' = [inbox EXCEPT !.state = "received"] /\ inbox.state = "none"
  BY DEF Ingest
<1>2. UNCHANGED <<server, effect, task, caller, wire, faults>>
  BY DEF Ingest
<1> QED
  BY <1>1, <1>2 DEF IInv, TypeOK, InboxFollowsEffect, TokensOrdered, Granted, Evidence, Own, Another

LEMMA ClaimJobIInv == IInv /\ ClaimJob => IInv'
<1> SUFFICES ASSUME IInv, ClaimJob PROVE IInv'
  OBVIOUS
<1>1. job \in Row /\ job.token \in Nat
  BY DEF IInv, TypeOK
<1>2. /\ job' \in Row /\ job'.token = job.token + 1
      /\ job'.status = job.status /\ job'.result = job.result
  BY <1>1, LeaseUpdates, ProviderAssumption DEF ClaimJob
<1>3. UNCHANGED <<active, ledger, inbox, effect, task, wire, faults>> /\ caller' \in {caller, job.token + 1}
  BY DEF ClaimJob
<1>4. TypeOK'
  BY <1>1, <1>2, <1>3 DEF IInv, TypeOK
<1>5. InboxFollowsEffect'
  BY <1>3 DEF IInv, InboxFollowsEffect
<1>6. TokensOrdered' /\ Granted'
  BY <1>1, <1>2, <1>3 DEF IInv, TypeOK, TokensOrdered, Granted
<1>7. Evidence'
  BY <1>2, <1>3 DEF IInv, Evidence, Own, Another
<1> QED
  BY <1>4, <1>5, <1>6, <1>7 DEF IInv

LEMMA ClaimAnsweredIInv == IInv /\ ClaimAnswered => IInv'
<1> SUFFICES ASSUME IInv, ClaimAnswered PROVE IInv'
  OBVIOUS
<1>1. UNCHANGED <<server, effect, task, wire, faults>> /\ caller' = 0
  BY DEF ClaimAnswered
<1>2. job.token \in Nat /\ caller \in Nat /\ caller <= job.token
  BY DEF IInv, TypeOK, Granted
<1>3. CASE MarksClaimed(caller)
  <2>1. inbox' = [state |-> "claimed", token |-> caller]
    BY <1>3 DEF ClaimAnswered, InboxClaimed
  <2>2. inbox.state \notin {"completed", "conflict"} /\ inbox.token <= caller
    BY <1>3 DEF MarksClaimed, IInv, TypeOK
  <2> QED
    BY <1>1, <1>2, <2>1, <2>2
    DEF IInv, TypeOK, InboxFollowsEffect, TokensOrdered, Granted, Evidence, Own, Another
<1>4. CASE ~MarksClaimed(caller)
  BY <1>1, <1>2, <1>4
  DEF ClaimAnswered, IInv, TypeOK, InboxFollowsEffect, TokensOrdered, Granted, Evidence, Own, Another
<1> QED
  BY <1>3, <1>4

\* Raising the token of an effect touches nothing else of it.
LEMMA RefencedKeeps ==
  ASSUME IInv
  PROVE  /\ Refenced(effect).state = effect.state /\ Refenced(effect).result = effect.result
         /\ Refenced(effect).owner = effect.owner /\ Refenced(effect).attempts = effect.attempts
         /\ Refenced(effect).token \in Nat /\ Refenced(effect).token <= inbox.token
         /\ Refenced(effect) = [effect EXCEPT !.token = Refenced(effect).token]
  BY DEF Refenced, IInv, TypeOK, TokensOrdered

LEMMA RefencedIInv ==
  ASSUME IInv, effect' = Refenced(effect),
         UNCHANGED <<server, inbox, caller, wire, faults>>,
         task' \in [Tasks -> [pc : PCs, token : Nat, attempt : Nat]],
         \A t \in Tasks : \/ task'[t] = task[t]
                          \/ task[t].pc # "idle" /\ task'[t].pc \notin {"won", "differs", "claimed"}
  PROVE  IInv'
<1>1. /\ effect'.state = effect.state /\ effect'.result = effect.result
      /\ effect'.token \in Nat /\ effect'.token <= inbox.token
  BY RefencedKeeps
<1>2. effect' = [effect EXCEPT !.token = effect'.token]
  BY RefencedKeeps
<1>3. TypeOK'
  BY <1>1, <1>2 DEF IInv, TypeOK
<1>4. InboxFollowsEffect' /\ TokensOrdered'
  BY <1>1 DEF IInv, InboxFollowsEffect, TokensOrdered
<1>5. Granted'
  BY DEF IInv, Granted
<1>6. Evidence'
  BY <1>1 DEF IInv, Evidence, Own, Another
<1> QED
  BY <1>3, <1>4, <1>5, <1>6 DEF IInv

LEMMA PrepareEffectIInv ==
  ASSUME IInv, NEW r \in Computed, PrepareEffect(r)
  PROVE  IInv'
<1>1. UNCHANGED <<server, task, caller, wire, faults>>
  BY DEF PrepareEffect
<1>2. r \in Results
  BY ComputedAssumption
<1>3. CASE effect.state = "none"
  <2>1. /\ effect' = [effect EXCEPT !.state = "pending", !.result = r, !.token = inbox.token]
        /\ inbox' = [inbox EXCEPT !.state = "effect_pending"]
    BY <1>3 DEF PrepareEffect
  <2>2. effect' \in Effects
        /\ effect'.state = "pending" /\ effect'.result = r /\ effect'.token = inbox.token
    BY <1>2, <2>1 DEF IInv, TypeOK
  <2>3. inbox' \in [state : InboxStates, token : Nat] /\ inbox'.token = inbox.token
        /\ inbox'.state = "effect_pending"
    BY <2>1 DEF IInv, TypeOK
  <2>4. TypeOK' /\ InboxFollowsEffect' /\ TokensOrdered' /\ Granted'
    BY <1>1, <2>2, <2>3 DEF IInv, TypeOK, InboxFollowsEffect, TokensOrdered, Granted
  <2>5. \A t \in Tasks : task[t].pc = "idle"
    BY <1>3 DEF IInv, Evidence
  <2>6. Evidence'
    BY <1>1, <1>2, <2>2, <2>5, NoResultAssumption DEF IInv, Evidence
  <2> QED
    BY <2>4, <2>6 DEF IInv
<1>4. CASE effect.state # "none"
  <2>1. effect' = Refenced(effect) /\ inbox' = inbox
    BY <1>4 DEF PrepareEffect
  <2>2. task' \in [Tasks -> [pc : PCs, token : Nat, attempt : Nat]]
    BY <1>1 DEF IInv, TypeOK
  <2>3. UNCHANGED <<server, inbox, caller, wire, faults>>
    BY <1>1, <2>1
  <2>4. \A t \in Tasks : \/ task'[t] = task[t]
                         \/ task[t].pc # "idle" /\ task'[t].pc \notin {"won", "differs", "claimed"}
    BY <1>1
  <2>5. effect' = Refenced(effect)
    BY <2>1
  <2> QED
    BY <2>2, <2>3, <2>4, <2>5, RefencedIInv
<1> QED
  BY <1>3, <1>4

LEMMA RequeueIInv == IInv /\ Requeue => IInv'
<1> SUFFICES ASSUME IInv, Requeue PROVE IInv'
  OBVIOUS
<1>1. /\ effect' = [effect EXCEPT !.state = "pending", !.owner = NoOwner]
      /\ effect.state \in {"retryable", "indeterminate", "dead"}
      /\ UNCHANGED <<server, inbox, task, caller, wire>> /\ faults' = faults + 1
  BY DEF Requeue, Fault
<1>2. /\ effect' \in Effects /\ effect'.state = "pending"
      /\ effect'.result = effect.result /\ effect'.token = effect.token
  BY <1>1 DEF IInv, TypeOK
<1>3. TypeOK'
  BY <1>1, <1>2 DEF IInv, TypeOK
<1>4. InboxFollowsEffect' /\ TokensOrdered' /\ Granted'
  BY <1>1, <1>2 DEF IInv, TypeOK, InboxFollowsEffect, TokensOrdered, Granted
<1>5. Evidence'
  BY <1>1, <1>2 DEF IInv, Evidence, Own, Another
<1> QED
  BY <1>3, <1>4, <1>5 DEF IInv

LEMMA CrashIInv ==
  ASSUME IInv, NEW w \in Workers, Crash(w)
  PROVE  IInv'
<1>1. /\ task' = [t \in Tasks |-> IF WorkerOf[t] = w THEN Idle ELSE task[t]]
      /\ UNCHANGED <<server, inbox, wire>> /\ caller' = 0 /\ faults' = faults + 1
  BY DEF Crash, Fault
<1>2. /\ effect' \in Effects
      /\ effect'.state = effect.state /\ effect'.result = effect.result
      /\ effect'.token = effect.token
  BY DEF Crash, IInv, TypeOK
<1>3. TypeOK'
  BY <1>1, <1>2 DEF IInv, TypeOK
<1>4. InboxFollowsEffect' /\ TokensOrdered'
  BY <1>1, <1>2 DEF IInv, InboxFollowsEffect, TokensOrdered
<1>5. Granted' /\ Evidence'
  BY <1>1, <1>2 DEF IInv, TypeOK, Granted, Evidence, Own, Another
<1> QED
  BY <1>3, <1>4, <1>5 DEF IInv

-----------------------------------------------------------------------------
(* The steps of a dispatch *)

\* A call that ends or moves on without a mark, to a verdict only on evidence.
LEMMA MoveIInv ==
  ASSUME IInv, NEW t \in Tasks, task[t].pc # "idle",
         NEW pc \in PCs \ {"claimed"}, GoTo(t, pc) \/ Stop(t),
         pc = "won" => Own, pc = "differs" => Another,
         UNCHANGED <<server, inbox, effect, caller, faults>>,
         wire' = wire \/ wire' = wire \cup {task[t].token}
  PROVE  IInv'
<1>1. /\ task' \in [Tasks -> [pc : PCs, token : Nat, attempt : Nat]]
      /\ task'[t].pc \in {pc, "idle"} /\ task'[t].pc # "claimed"
      /\ \A u \in Tasks \ {t} : task'[u] = task[u]
  <2>1. /\ task \in [Tasks -> [pc : PCs, token : Nat, attempt : Nat]]
        /\ task[t] \in [pc : PCs, token : Nat, attempt : Nat]
    BY DEF IInv, TypeOK
  <2>2. CASE GoTo(t, pc)
    BY <2>1, <2>2 DEF GoTo
  <2>3. CASE Stop(t)
    BY <2>1, <2>3 DEF Stop, PCs
  <2> QED BY <2>2, <2>3
<1>2. wire' \subseteq Nat /\ effect.state # "none"
  <2>1. wire \subseteq Nat /\ task[t].token \in Nat
    BY DEF IInv, TypeOK
  <2>2. effect.state # "none"
    BY DEF IInv, Evidence
  <2> QED BY <2>1, <2>2
<1>3. TypeOK'
  BY <1>1, <1>2 DEF IInv, TypeOK
<1>4. InboxFollowsEffect' /\ TokensOrdered' /\ Granted'
  BY <1>1 DEF IInv, InboxFollowsEffect, TokensOrdered, Granted
<1>5. Evidence'
  BY <1>1, <1>2 DEF IInv, Evidence, Own, Another
<1> QED
  BY <1>3, <1>4, <1>5 DEF IInv

LEMMA ClaimDueIInv ==
  ASSUME IInv, NEW t \in Tasks, ClaimDue(t)
  PROVE  IInv'
<1>1. effect.state \in Resting \cup {"dispatching"} /\ faults' \in Nat
  BY DEF ClaimDue, Due, Fault, IInv, TypeOK
<1>2. /\ effect' = [effect EXCEPT !.state = "dispatching", !.owner = WorkerOf[t],
                              !.attempts = @ + 1]
      /\ task' = [task EXCEPT ![t] = [pc |-> "look", token |-> effect.token,
                                  attempt |-> effect.attempts + 1]]
      /\ UNCHANGED <<server, inbox, caller, wire>>
  BY DEF ClaimDue
<1>3. effect.attempts + 1 \in Nat /\ WorkerOf[t] \in Workers
  BY DEF IInv, TypeOK, Workers
<1>4. /\ effect' \in Effects
      /\ effect'.state = "dispatching" /\ effect'.result = effect.result
      /\ effect'.token = effect.token
  BY <1>2, <1>3 DEF IInv, TypeOK
<1>5. /\ task' \in [Tasks -> [pc : PCs, token : Nat, attempt : Nat]]
      /\ task'[t].pc = "look" /\ \A u \in Tasks \ {t} : task'[u] = task[u]
  BY <1>2, <1>3 DEF IInv, TypeOK
<1>6. TypeOK'
  BY <1>1, <1>2, <1>4, <1>5 DEF IInv, TypeOK
<1>7. InboxFollowsEffect' /\ TokensOrdered' /\ Granted'
  BY <1>1, <1>2, <1>4, <1>5 DEF IInv, InboxFollowsEffect, TokensOrdered, Granted
<1>8. Evidence'
  BY <1>1, <1>2, <1>4, <1>5 DEF IInv, Evidence, Own, Another
<1> QED
  BY <1>6, <1>7, <1>8 DEF IInv

\* mark_succeeded(), mark_conflict() and mark_failure().
LEMMA MarkIInv ==
  ASSUME IInv, NEW t \in Tasks, task[t].pc # "idle",
         \/ Mark(t, "succeeded", "completed") \/ Mark(t, "conflict", "conflict")
         \/ \E s \in {"retryable", "indeterminate"} : MarkFailure(t, s)
  PROVE  IInv'
<1>1. CASE ~Owns(t)
  <2>1. Stop(t) /\ UNCHANGED <<server, inbox, effect, caller, wire, faults>>
    BY <1>1 DEF Mark, MarkFailure
  <2> QED
    BY <2>1, MoveIInv
<1>2. CASE Owns(t)
  <2>1. /\ Stop(t) /\ UNCHANGED <<server, caller, wire, faults>>
        /\ effect.state = "dispatching"
    BY <1>2 DEF Mark, MarkFailure, Owns
  <2>2. \E s \in Settled \cup Resting :
           /\ effect' = [effect EXCEPT !.state = s, !.owner = NoOwner]
           /\ \/ s = "succeeded" /\ inbox' = [inbox EXCEPT !.state = "completed"]
              \/ s = "conflict" /\ inbox' = [inbox EXCEPT !.state = "conflict"]
              \/ s \notin {"succeeded", "conflict"} /\ inbox' = inbox
    <3>1. CASE Mark(t, "succeeded", "completed") \/ Mark(t, "conflict", "conflict")
      BY <1>2, <3>1 DEF Mark
    <3>2. ASSUME NEW s \in {"retryable", "indeterminate"}, MarkFailure(t, s)
          PROVE  \E r \in {"retryable", "indeterminate", "dead"} :
                   effect' = [effect EXCEPT !.state = r, !.owner = NoOwner] /\ inbox' = inbox
      BY <1>2, <3>2 DEF MarkFailure, Rest
    <3> QED BY <3>1, <3>2
  <2>3. /\ effect' \in Effects
        /\ effect'.state # "none" /\ effect'.result = effect.result
        /\ effect'.token = effect.token
    BY <2>2 DEF IInv, TypeOK
  <2>4. inbox' \in [state : InboxStates, token : Nat] /\ inbox'.token = inbox.token
    BY <2>2 DEF IInv, TypeOK
  <2>5. inbox.state \notin {"completed", "conflict"}
    BY <2>1 DEF IInv, InboxFollowsEffect
  <2>6. InboxFollowsEffect'
    BY <2>2, <2>5 DEF IInv, TypeOK, InboxFollowsEffect
  <2>7. /\ task' \in [Tasks -> [pc : PCs, token : Nat, attempt : Nat]]
        /\ task'[t].pc = "idle" /\ \A u \in Tasks \ {t} : task'[u] = task[u]
    BY <2>1 DEF IInv, TypeOK, PCs, Stop
  <2>8. TypeOK'
    BY <2>1, <2>3, <2>4, <2>7 DEF IInv, TypeOK
  <2>9. TokensOrdered' /\ Granted'
    BY <2>1, <2>3, <2>4, <2>7 DEF IInv, TokensOrdered, Granted
  <2>10. Evidence'
    BY <2>1, <2>3, <2>7 DEF IInv, Evidence, Own, Another
  <2> QED
    BY <2>6, <2>8, <2>9, <2>10 DEF IInv
<1> QED
  BY <1>1, <1>2

LEMMA PostIInv ==
  ASSUME IInv, NEW t \in Tasks, Post(t)
  PROVE  IInv'
<1>1. task[t].pc = "post" /\ effect.state # "none"
  BY DEF Post, IInv, Evidence
<1>2. ASSUME Accepts(task[t].token), Complete(effect.result), GoTo(t, "won"),
             UNCHANGED <<active, inbox, effect, caller, wire, faults>>
      PROVE  IInv'
  <2>1. effect.result \in Results
    BY <1>1 DEF IInv, TypeOK, Evidence
  <2>2. /\ job' \in Row /\ job'.token = job.token /\ job'.result = Stored[effect.result]
        /\ job'.status = "completed" /\ Books(effect.result) /\ bridge' = bridge
    BY <1>2, <2>1, Acceptance DEF Accepts, Completable
  <2>3. /\ Stored[effect.result] # NoResult /\ accepted' = accepted \cup {Stored[effect.result]}
        /\ accepted' \subseteq Results /\ paid' \in Nat
    BY <2>1, <2>2, Booking
  <2>4. /\ task' \in [Tasks -> [pc : PCs, token : Nat, attempt : Nat]]
        /\ task'[t].pc = "won" /\ \A u \in Tasks \ {t} : task'[u] = task[u]
    BY <1>2 DEF IInv, TypeOK, GoTo
  <2>5. TypeOK'
    BY <1>2, <2>2, <2>4, <2>3 DEF IInv, TypeOK
  <2>6. InboxFollowsEffect' /\ TokensOrdered' /\ Granted'
    BY <1>2, <2>2, <2>4 DEF IInv, InboxFollowsEffect, TokensOrdered, Granted
  <2>7. Own' /\ (Another => Another')
    BY <1>2, <2>3 DEF Own, Another
  <2>8. Evidence'
    BY <1>1, <1>2, <2>2, <2>4, <2>7, <2>3 DEF IInv, Evidence
  <2> QED
    BY <2>5, <2>6, <2>8 DEF IInv
<1>3. CASE ~Accepts(task[t].token) /\ Step(t, "refused")
  BY <1>1, <1>3, MoveIInv DEF Step
<1>4. ASSUME wire' = wire \cup {task[t].token}, GoTo(t, "unsure") \/ GoTo(t, "refused"),
             UNCHANGED <<server, inbox, effect, caller, faults>>
      PROVE  IInv'
  BY <1>1, <1>4, MoveIInv
<1> QED
  BY <1>2, <1>3, <1>4 DEF Post

LEMMA RefreshIInv ==
  ASSUME IInv, NEW t \in Tasks, Refresh(t)
  PROVE  IInv'
<1>1. task[t].pc = "refresh"
  BY DEF Refresh
<1>2. CASE Step(t, "reschedule")
  BY <1>1, <1>2, MoveIInv DEF Step
<1>3. CASE /\ job' = Claimed(job, Provider)
           /\ \/ task' = [task EXCEPT ![t].pc = "claimed", ![t].token = job.token + 1]
              \/ GoTo(t, "reschedule")
           /\ UNCHANGED <<active, ledger, inbox, effect, caller, wire, faults>>
  <2>1. job \in Row /\ job.token \in Nat /\ job.token + 1 \in Nat
    BY DEF IInv, TypeOK
  <2>2. /\ job' \in Row /\ job'.token = job.token + 1
        /\ job'.status = job.status /\ job'.result = job.result
    BY <1>3, <2>1, LeaseUpdates, ProviderAssumption
  <2>3. /\ task' \in [Tasks -> [pc : PCs, token : Nat, attempt : Nat]]
        /\ task'[t].pc \in {"claimed", "reschedule"}
        /\ task'[t].pc = "claimed" => task'[t].token = job'.token
        /\ \A u \in Tasks \ {t} : task'[u] = task[u]
    <3>1. CASE GoTo(t, "reschedule")
      BY <3>1 DEF IInv, TypeOK, GoTo
    <3>2. CASE task' = [task EXCEPT ![t].pc = "claimed", ![t].token = job.token + 1]
      <4>1. task' = [task EXCEPT ![t] = [[task[t] EXCEPT !.pc = "claimed"] EXCEPT !.token = job.token + 1]]
        BY <3>2 DEF IInv, TypeOK
      <4>2. task[t] \in [pc : PCs, token : Nat, attempt : Nat]
        BY DEF IInv, TypeOK
      <4>3. \A n \in Nat :
              LET c == [[task[t] EXCEPT !.pc = "claimed"] EXCEPT !.token = n]
              IN  c \in [pc : PCs, token : Nat, attempt : Nat] /\ c.pc = "claimed" /\ c.token = n
        BY <4>2
      <4>4. PICK c \in [pc : PCs, token : Nat, attempt : Nat] :
              task' = [task EXCEPT ![t] = c] /\ c.pc = "claimed" /\ c.token = job.token + 1
        BY <2>1, <4>1, <4>3, Zenon
      <4>5. task' \in [Tasks -> [pc : PCs, token : Nat, attempt : Nat]]
        BY <4>4 DEF IInv, TypeOK
      <4>6. task'[t].pc = "claimed" /\ task'[t].token = job.token + 1
        BY <4>4 DEF IInv, TypeOK
      <4>7. \A u \in Tasks \ {t} : task'[u] = task[u]
        BY <4>4 DEF IInv, TypeOK
      <4> QED
        BY <2>2, <4>5, <4>6, <4>7
    <3> QED
      BY <1>3, <3>1, <3>2
  <2>4. TypeOK'
    BY <1>3, <2>2, <2>3 DEF IInv, TypeOK
  <2>5. InboxFollowsEffect'
    BY <1>3 DEF IInv, InboxFollowsEffect
  <2>6. TokensOrdered' /\ Granted'
    BY <1>3, <2>1, <2>2, <2>3 DEF IInv, TypeOK, TokensOrdered, Granted
  <2>7. Evidence'
    BY <1>1, <1>3, <2>2, <2>3 DEF IInv, Evidence, Own, Another
  <2> QED
    BY <2>4, <2>5, <2>6, <2>7 DEF IInv
<1> QED
  BY <1>2, <1>3 DEF Refresh

LEMMA MarkClaimedIInv ==
  ASSUME IInv, NEW t \in Tasks, MarkClaimed(t)
  PROVE  IInv'
<1>1. task[t].pc = "claimed"
  BY DEF MarkClaimed
<1>2. CASE ~MarksClaimed(task[t].token) /\ Step(t, "reschedule")
  BY <1>1, <1>2, MoveIInv DEF Step
<1>3. CASE /\ MarksClaimed(task[t].token) /\ inbox' = InboxClaimed(task[t].token)
           /\ GoTo(t, "prepare") /\ UNCHANGED <<server, effect, caller, wire, faults>>
  <2>1. inbox.state \notin {"completed", "conflict"} /\ inbox.token <= task[t].token
    BY <1>3 DEF MarksClaimed, IInv, TypeOK
  <2>2. task[t].token \in Nat /\ task[t].token <= job.token /\ job.token \in Nat
    BY <1>1 DEF IInv, TypeOK, Granted
  <2>3. /\ inbox' \in [state : InboxStates, token : Nat]
        /\ inbox'.state = "claimed" /\ inbox'.token = task[t].token
    BY <1>3, <2>2 DEF InboxClaimed
  <2>4. /\ task' \in [Tasks -> [pc : PCs, token : Nat, attempt : Nat]]
        /\ task'[t].pc = "prepare" /\ \A u \in Tasks \ {t} : task'[u] = task[u]
    BY <1>3 DEF IInv, TypeOK, GoTo
  <2>5. TypeOK'
    BY <1>3, <2>3, <2>4 DEF IInv, TypeOK
  <2>6. InboxFollowsEffect'
    BY <1>3, <2>1, <2>3 DEF IInv, InboxFollowsEffect
  <2>7. TokensOrdered' /\ Granted'
    BY <1>3, <2>1, <2>2, <2>3, <2>4 DEF IInv, TypeOK, TokensOrdered, Granted
  <2>8. Evidence'
    BY <1>1, <1>3, <2>4 DEF IInv, Evidence, Own, Another
  <2> QED
    BY <2>5, <2>6, <2>7, <2>8 DEF IInv
<1> QED
  BY <1>2, <1>3 DEF MarkClaimed

LEMMA WorkIInv ==
  ASSUME IInv, NEW t \in Tasks, Work(t)
  PROVE  IInv'
<1>1. ASSUME task[t].pc # "idle", Reconcile(t) PROVE IInv'
  <2>1. job.result \in accepted
    BY <1>1 DEF Reconcile, IInv, Evidence
  <2>2. CASE SameResult /\ Step(t, "won")
    BY <1>1, <2>1, <2>2, MoveIInv DEF SameResult, Step, Own
  <2>3. CASE ~SameResult /\ Step(t, "differs")
    BY <1>1, <2>1, <2>3, MoveIInv DEF SameResult, Step, Another
  <2> QED
    BY <1>1, <2>2, <2>3 DEF Reconcile
<1>2. CASE Look(t)
  BY <1>1, <1>2, MoveIInv DEF Look, Step
<1>3. CASE Won(t)
  BY <1>3, MarkIInv DEF Won
<1>4. CASE Differs(t)
  BY <1>4, MarkIInv DEF Differs
<1>5. CASE Unsure(t)
  BY <1>1, <1>5, MarkIInv DEF Unsure
<1>6. CASE Refused(t)
  BY <1>1, <1>6, MarkIInv, MoveIInv DEF Refused, Step
<1>7. CASE Prepare(t)
  <2>1. task[t].pc = "prepare" /\ effect' = Refenced(effect) /\ GoTo(t, "reschedule")
        /\ UNCHANGED <<server, inbox, caller, wire, faults>>
    BY <1>7 DEF Prepare
  <2>2. /\ task' \in [Tasks -> [pc : PCs, token : Nat, attempt : Nat]]
        /\ task'[t].pc = "reschedule" /\ \A u \in Tasks \ {t} : task'[u] = task[u]
    BY <2>1 DEF IInv, TypeOK, GoTo
  <2>3. \A u \in Tasks : \/ task'[u] = task[u]
                         \/ task[u].pc # "idle" /\ task'[u].pc \notin {"won", "differs", "claimed"}
    BY <2>1, <2>2
  <2> QED
    BY <2>1, <2>2, <2>3, RefencedIInv
<1>8. CASE Reschedule(t)
  BY <1>8, MarkIInv DEF Reschedule
<1> QED
  BY <1>2, <1>3, <1>5, <1>6, <1>7, <1>8, <1>4, ClaimDueIInv, PostIInv, RefreshIInv, MarkClaimedIInv
  DEF Work

-----------------------------------------------------------------------------
(* The theorems *)

LEMMA NextIInv == IInv /\ [Next]_vars => IInv'
<1> SUFFICES ASSUME IInv, [Next]_vars PROVE IInv'
  OBVIOUS
<1>1. CASE UNCHANGED vars
  BY <1>1 DEF IInv, TypeOK, InboxFollowsEffect, TokensOrdered, Granted, Evidence, Own, Another
<1>2. CASE Leases
  BY <1>2, LeasesIInv
<1>3. ASSUME NEW r \in Results, OutsideComplete(r) PROVE IInv'
  BY <1>3, OutsideDelivers, DeliveredIInv
<1>4. ASSUME NEW token \in wire, LatePost(token) PROVE IInv'
  BY <1>4, OutsideDelivers, DeliveredIInv
<1> QED
  BY <1>1, <1>2, <1>3, <1>4, BridgeReadIInv, BridgeSaveIInv, IngestIInv, ClaimJobIInv, ClaimAnsweredIInv, PrepareEffectIInv,
     RequeueIInv, CrashIInv, WorkIInv DEF Next, Leases

LEMMA Invariance == Spec => []IInv
  BY InitIInv, NextIInv, PTL DEF Spec

\* Every variable keeps its type: the rows, the calls and the requests in flight.
THEOREM TypeCorrect == Spec => []TypeOK
  BY Invariance, PTL DEF IInv

\* The inbox is completed exactly when the effect succeeded and in conflict
\* exactly when the effect is, for any number of dispatches and crashes.
THEOREM RowsAgree == Spec => []InboxFollowsEffect
  BY Invariance, PTL DEF IInv

\* The effect is fenced by a token the inbox saw and the inbox by one the web
\* API granted, in whatever order the answers to claims arrive.
THEOREM FencingOrdered == Spec => []TokensOrdered
  BY Invariance, PTL DEF IInv

-----------------------------------------------------------------------------
(* The attempts of the effect *)

\* The dispatches under way, and those whose own count is below the limit: only
\* their mark_failure() makes the effect due once more.
Running == {t \in Tasks : task[t].pc # "idle"}
Early == {t \in Running : task[t].attempt < MaxAttempts}

\* A dispatching row belongs to a live worker (Held), or is due again without
\* any lease running out (Free).
Held == effect.state = "dispatching" /\ effect.owner # Gone
Free == effect.state \in Resting \/ (effect.state = "dispatching" /\ effect.owner = Gone)
One(b) == IF b THEN 1 ELSE 0

\* Besides the call that holds the row, every dispatch under way is the trace of
\* a fault; and from the limit on, each attempt made, each call that could still
\* make the effect due and the present chance to claim it is paid by a fault.
CallsCounted == IsFiniteSet(Running) /\ Cardinality(Running) <= faults + One(Held)
AttemptsCounted ==
  /\ effect.state = "none" => effect.attempts = 0
  /\ effect.attempts >= MaxAttempts =>
       effect.attempts + Cardinality(Early) + One(Free) <= MaxAttempts + faults
AttInv == CallsCounted /\ AttemptsCounted

\* The numbers the accounts are made of.
LEMMA Counts ==
  ASSUME IInv, CallsCounted
  PROVE  /\ IsFiniteSet(Early) /\ Cardinality(Early) \in Nat /\ Cardinality(Running) \in Nat
         /\ Cardinality(Early) <= Cardinality(Running)
         /\ faults \in Nat /\ effect.attempts \in Nat /\ effect \in Effects
         /\ MaxAttempts \in Nat /\ MaxAttempts >= 1
<1>1. Early \subseteq Running /\ IsFiniteSet(Running)
  BY DEF Early, CallsCounted
<1>2. /\ IsFiniteSet(Early) /\ Cardinality(Early) \in Nat /\ Cardinality(Running) \in Nat
      /\ Cardinality(Early) <= Cardinality(Running)
  BY <1>1, FS_Subset, FS_CardinalityType
<1>3. faults \in Nat /\ effect.attempts \in Nat /\ effect \in Effects
  BY DEF IInv, TypeOK
<1> QED
  BY <1>2, <1>3, BoundsAssumption

\* A smaller set of calls counts no more, and less when a call has left it.
LEMMA SmallerSet ==
  ASSUME NEW S, NEW T, IsFiniteSet(T), S \subseteq T
  PROVE  /\ IsFiniteSet(S) /\ Cardinality(S) \in Nat /\ Cardinality(S) <= Cardinality(T)
         /\ \A t \in T : t \notin S => Cardinality(S) <= Cardinality(T) - 1
<1>1. IsFiniteSet(S) /\ Cardinality(S) \in Nat /\ Cardinality(S) <= Cardinality(T)
  BY FS_Subset, FS_CardinalityType
<1>2. ASSUME NEW t \in T, t \notin S PROVE Cardinality(S) <= Cardinality(T) - 1
  <2>1. S \subseteq T \ {t} /\ IsFiniteSet(T \ {t}) /\ Cardinality(T \ {t}) = Cardinality(T) - 1
    BY <1>2, FS_RemoveElement
  <2>2. Cardinality(S) <= Cardinality(T \ {t})
    BY <2>1, FS_Subset
  <2> QED
    BY <2>1, <2>2
<1> QED
  BY <1>1, <1>2

\* Calls that go on, or end, without a new one.
NoNewCall == Running' \subseteq Running /\ Early' \subseteq Early

LEMMA FewerCalls ==
  ASSUME IInv, CallsCounted, NoNewCall
  PROVE  /\ IsFiniteSet(Running') /\ Cardinality(Running') \in Nat
         /\ Cardinality(Running') <= Cardinality(Running)
         /\ Cardinality(Early') \in Nat /\ Cardinality(Early') <= Cardinality(Early)
         /\ \A t \in Running : t \notin Running' => Cardinality(Running') <= Cardinality(Running) - 1
         /\ \A t \in Early : t \notin Early' => Cardinality(Early') <= Cardinality(Early) - 1
<1>1. IsFiniteSet(Running) /\ IsFiniteSet(Early)
  BY Counts DEF CallsCounted
<1> QED
  BY <1>1, SmallerSet DEF NoNewCall

\* Steps that leave the state, the owner and the attempts of the effect alone.
Undisturbed ==
  /\ effect'.state = effect.state /\ effect'.owner = effect.owner
  /\ effect'.attempts = effect.attempts /\ faults' = faults

LEMMA QuietAtt ==
  ASSUME IInv, AttInv, Undisturbed, NoNewCall
  PROVE  AttInv'
<1>1. Held' = Held /\ Free' = Free
  BY DEF Undisturbed, Held, Free
<1>2. One(Held') = One(Held) /\ One(Free') = One(Free) /\ One(Held) \in Nat /\ One(Free) \in Nat
  BY <1>1 DEF One
<1>3. CallsCounted'
  BY <1>2, Counts, FewerCalls DEF AttInv, CallsCounted, Undisturbed
<1>4. AttemptsCounted'
  BY <1>2, Counts, FewerCalls DEF AttInv, AttemptsCounted, Undisturbed
<1> QED
  BY <1>3, <1>4 DEF AttInv

\* A call that moves to another point or ends is not a new one.
LEMMA CallsMove ==
  ASSUME IInv, NEW t \in Tasks, task[t].pc # "idle",
         \/ Stop(t)
         \/ \E pc \in PCs : GoTo(t, pc)
         \/ \E n \in Nat : task' = [task EXCEPT ![t].pc = "claimed", ![t].token = n]
  PROVE  NoNewCall /\ (Stop(t) => t \notin Running' /\ t \notin Early')
<1>1. task \in [Tasks -> [pc : PCs, token : Nat, attempt : Nat]]
  BY DEF IInv, TypeOK
<1>2. \A u \in Tasks \ {t} : task'[u] = task[u]
  BY <1>1 DEF Stop, GoTo
<1>3. task'[t].pc = "idle" \/ task'[t].attempt = task[t].attempt
  <2>1. CASE Stop(t)
    BY <1>1, <2>1 DEF Stop
  <2>2. CASE \E pc \in PCs : GoTo(t, pc)
    BY <1>1, <2>2 DEF GoTo
  <2>3. CASE \E n \in Nat : task' = [task EXCEPT ![t].pc = "claimed", ![t].token = n]
    BY <1>1, <2>3
  <2> QED
    BY <2>1, <2>2, <2>3
<1>4. Stop(t) => task'[t].pc = "idle"
  BY <1>1 DEF Stop
<1> QED
  BY <1>2, <1>3, <1>4 DEF NoNewCall, Running, Early

\* mark_succeeded(), mark_conflict() and mark_failure(): a call with a count
\* below the limit spends itself to make the effect due again; any other ends it.
LEMMA MarkAtt ==
  ASSUME IInv, AttInv, NEW t \in Tasks, task[t].pc # "idle",
         \/ Mark(t, "succeeded", "completed") \/ Mark(t, "conflict", "conflict")
         \/ \E s \in {"retryable", "indeterminate"} : MarkFailure(t, s)
  PROVE  AttInv'
<1>1. Stop(t) /\ faults' = faults
  BY DEF Mark, MarkFailure
<1>2. NoNewCall /\ t \notin Running' /\ t \notin Early' /\ t \in Running
  BY <1>1, CallsMove DEF Running
<1>3. CASE ~Owns(t)
  <2>1. Undisturbed
    BY <1>1, <1>3 DEF Mark, MarkFailure, Undisturbed
  <2> QED
    BY <1>2, <2>1, QuietAtt
<1>4. CASE Owns(t)
  <2>1. Held /\ ~Free
    BY <1>4, WorkerAssumption DEF Owns, Held, Free
  <2>2. PICK s \in Settled \cup Resting :
           /\ effect' = [effect EXCEPT !.state = s, !.owner = NoOwner]
           /\ s \in Resting => ~OutOfAttempts(t)
    BY <1>4 DEF Mark, MarkFailure, Rest
  <2>3. effect'.state = s /\ effect'.attempts = effect.attempts
    BY <2>2, Counts DEF AttInv
  <2>4. ~Held' /\ (Free' => s \in Resting)
    BY <2>3 DEF Held, Free
  <2>5. Free' => t \in Early
    <3>1. task[t].attempt \in Nat
      BY DEF IInv, TypeOK
    <3> QED
      BY <1>2, <2>2, <2>4, <3>1, BoundsAssumption DEF OutOfAttempts, Early
  <2>6. One(Held) = 1 /\ One(Held') = 0 /\ One(Free) = 0
    BY <2>1, <2>4 DEF One
  <2>7. CallsCounted'
    BY <1>1, <1>2, <2>6, Counts, FewerCalls DEF AttInv, CallsCounted
  <2>8. Cardinality(Early') + One(Free') <= Cardinality(Early)
    <3>1. CASE Free'
      BY <1>2, <2>5, <3>1, Counts, FewerCalls DEF AttInv, One
    <3>2. CASE ~Free'
      BY <1>2, <3>2, Counts, FewerCalls DEF AttInv, One
    <3> QED
      BY <3>1, <3>2
  <2>9. effect'.state # "none"
    BY <2>3
  <2>10. One(Free') \in Nat /\ Cardinality(Early') \in Nat
    BY <1>2, FewerCalls DEF AttInv, One
  <2>11. AttemptsCounted'
    BY <1>1, <2>3, <2>6, <2>8, <2>9, <2>10, Counts DEF AttInv, AttemptsCounted
  <2> QED
    BY <2>7, <2>11 DEF AttInv
<1> QED
  BY <1>3, <1>4

\* claim_due(): the new call counts one more attempt; either the effect was due,
\* or a lease ran out under a call that is still at work.
LEMMA ClaimDueAtt ==
  ASSUME IInv, AttInv, NEW t \in Tasks, ClaimDue(t)
  PROVE  AttInv'
<1>1. /\ effect' = [effect EXCEPT !.state = "dispatching", !.owner = WorkerOf[t], !.attempts = @ + 1]
      /\ task' = [task EXCEPT ![t] = [pc |-> "look", token |-> effect.token,
                                      attempt |-> effect.attempts + 1]]
  BY DEF ClaimDue
<1>2. effect'.state = "dispatching" /\ effect'.attempts = effect.attempts + 1 /\ Held' /\ ~Free'
  BY <1>1, Counts, WorkerAssumption DEF AttInv, Held, Free
<1>3. Running' = Running \cup {t} /\ t \notin Running
  BY <1>1 DEF ClaimDue, Running, IInv, TypeOK
<1>4. Early' = IF effect.attempts + 1 < MaxAttempts THEN Early \cup {t} ELSE Early
  BY <1>1, <1>3 DEF Early, IInv, TypeOK
<1>5. IsFiniteSet(Running') /\ Cardinality(Running') = Cardinality(Running) + 1
  BY <1>3, FS_AddElement DEF AttInv, CallsCounted
<1>6. \/ Free /\ faults' = faults
      \/ Held /\ faults' = faults + 1
  BY DEF ClaimDue, Due, Fault, Free, Held
<1>7. ~(Free /\ Held)
  BY DEF Free, Held
<1>8. One(Held') = 1 /\ One(Free') = 0 /\ faults' + One(Held') >= faults + One(Held) + 1
      /\ faults' + One(Free') >= faults + One(Held)
  BY <1>2, <1>6, <1>7, Counts DEF AttInv, One
<1>9. One(Held) \in Nat /\ One(Free) \in Nat /\ faults' \in Nat
  BY <1>6, Counts DEF AttInv, One
<1>10. CallsCounted'
  BY <1>5, <1>8, <1>9, Counts DEF AttInv, CallsCounted
<1>11. AttemptsCounted'
  <2> SUFFICES ASSUME effect.attempts + 1 >= MaxAttempts
               PROVE  effect.attempts + 1 + Cardinality(Early) <= MaxAttempts + faults'
    BY <1>2, <1>4, <1>8, Counts DEF AttInv, AttemptsCounted
  <2>1. CASE effect.attempts >= MaxAttempts
    <3>1. effect.attempts + Cardinality(Early) + One(Free) <= MaxAttempts + faults
      BY <2>1 DEF AttInv, AttemptsCounted
    <3>2. faults' + One(Free) >= faults + 1
      BY <1>6, <1>7, Counts DEF AttInv, One
    <3> QED
      BY <1>9, <3>1, <3>2, Counts DEF AttInv
  <2>2. CASE effect.attempts < MaxAttempts
    <3>1. effect.attempts + 1 = MaxAttempts
      BY <2>2, Counts DEF AttInv
    <3>2. Cardinality(Early) <= faults + One(Held) /\ faults' >= faults + One(Held)
      BY <1>8, <1>9, Counts DEF AttInv, CallsCounted
    <3> QED
      BY <1>9, <3>1, <3>2, Counts DEF AttInv
  <2> QED
    BY <2>1, <2>2, Counts DEF AttInv
<1> QED
  BY <1>10, <1>11 DEF AttInv

\* A fault pays for what it makes possible: a crash leaves a row nobody holds,
\* an operator makes a row due.
LEMMA FaultAtt ==
  ASSUME IInv, AttInv, NoNewCall, faults' = faults + 1, effect'.attempts = effect.attempts,
         effect.state = "none" <=> effect'.state = "none"
  PROVE  AttInv'
<1>1. One(Held) \in {0, 1} /\ One(Held') \in {0, 1} /\ One(Free) \in {0, 1} /\ One(Free') \in {0, 1}
  BY DEF One
<1>2. CallsCounted'
  BY <1>1, Counts, FewerCalls DEF AttInv, CallsCounted
<1>3. AttemptsCounted'
  BY <1>1, Counts, FewerCalls DEF AttInv, AttemptsCounted
<1> QED
  BY <1>2, <1>3 DEF AttInv

LEMMA WorkAtt ==
  ASSUME IInv, AttInv, NEW t \in Tasks, Work(t)
  PROVE  AttInv'
<1>1. ASSUME task[t].pc # "idle", Undisturbed, NEW pc \in PCs, GoTo(t, pc) PROVE AttInv'
  BY <1>1, CallsMove, QuietAtt
<1>2. ASSUME task[t].pc # "idle", NEW pc \in PCs, Step(t, pc) PROVE AttInv'
  BY <1>1, <1>2 DEF Step, Undisturbed
<1>3. ASSUME task[t].pc # "idle", Reconcile(t) PROVE AttInv'
  BY <1>3, <1>2 DEF Reconcile
<1>4. CASE Look(t)
  BY <1>3, <1>2, <1>4 DEF Look
<1>5. CASE Post(t)
  <2>1. task[t].pc = "post" /\ Undisturbed
    BY <1>5 DEF Post, Step, Undisturbed
  <2>2. GoTo(t, "won") \/ GoTo(t, "refused") \/ GoTo(t, "unsure")
    BY <1>5 DEF Post, Step
  <2> QED
    BY <1>1, <2>1, <2>2
<1>6. CASE Won(t)
  BY <1>6, MarkAtt DEF Won
<1>7. CASE Differs(t)
  BY <1>7, MarkAtt DEF Differs
<1>8. CASE Unsure(t)
  BY <1>3, <1>8, MarkAtt DEF Unsure
<1>9. CASE Refused(t)
  BY <1>3, <1>2, <1>9, MarkAtt DEF Refused
<1>10. CASE Refresh(t)
  <2>1. task[t].pc = "refresh" /\ Undisturbed
    BY <1>10 DEF Refresh, Step, Undisturbed
  <2>2. \/ task' = [task EXCEPT ![t].pc = "claimed", ![t].token = job.token + 1]
        \/ GoTo(t, "reschedule")
    BY <1>10 DEF Refresh, Step
  <2>3. job.token + 1 \in Nat
    BY DEF IInv, TypeOK
  <2>4. NoNewCall
    BY <2>1, <2>2, <2>3, CallsMove
  <2> QED
    BY <2>1, <2>4, QuietAtt
<1>11. CASE MarkClaimed(t)
  <2>1. task[t].pc = "claimed" /\ Undisturbed
    BY <1>11 DEF MarkClaimed, Step, Undisturbed
  <2>2. GoTo(t, "prepare") \/ GoTo(t, "reschedule")
    BY <1>11 DEF MarkClaimed, Step
  <2> QED
    BY <1>1, <2>1, <2>2
<1>12. CASE Prepare(t)
  <2>1. task[t].pc = "prepare" /\ GoTo(t, "reschedule") /\ Undisturbed
    BY <1>12, RefencedKeeps DEF Prepare, Undisturbed
  <2> QED
    BY <1>1, <2>1
<1>13. CASE Reschedule(t)
  BY <1>13, MarkAtt DEF Reschedule
<1> QED
  BY <1>4, <1>5, <1>6, <1>8, <1>9, <1>10, <1>11, <1>12, <1>13, <1>7,
     ClaimDueAtt DEF Work

LEMMA NextAtt == IInv /\ AttInv /\ [Next]_vars => AttInv'
<1> SUFFICES ASSUME IInv, AttInv, [Next]_vars PROVE AttInv'
  OBVIOUS
<1>1. ASSUME UNCHANGED task PROVE NoNewCall
  BY <1>1 DEF NoNewCall, Running, Early
<1>2. ASSUME UNCHANGED <<effect, task, faults>> PROVE AttInv'
  BY <1>1, <1>2, QuietAtt DEF Undisturbed
<1>3. CASE Leases \/ Ingest \/ ClaimJob \/ ClaimAnswered \/ UNCHANGED vars
  BY <1>2, <1>3 DEF Leases, OutsideClaim, OutsideRelease, GotExpiry, LeaseLapses, Pause, Resume, Heartbeat,
                    Ingest, ClaimJob, ClaimAnswered
<1>4. ASSUME NEW r \in Results, OutsideComplete(r) PROVE AttInv'
  BY <1>2, <1>4 DEF OutsideComplete
<1>5. ASSUME NEW token \in wire, LatePost(token) PROVE AttInv'
  BY <1>2, <1>5 DEF LatePost
<1>6. ASSUME NEW s \in {"pending", "completed"}, BridgeRead(s) \/ BridgeSave(s) PROVE AttInv'
  BY <1>2, <1>6 DEF BridgeRead, BridgeSave
<1>7. ASSUME NEW r \in Computed, PrepareEffect(r) PROVE AttInv'
  <2>1. faults' = faults /\ NoNewCall
    BY <1>1, <1>7 DEF PrepareEffect
  <2>2. CASE effect.state # "none"
    <3>1. Undisturbed
      BY <1>7, <2>1, <2>2, RefencedKeeps DEF PrepareEffect, Undisturbed
    <3> QED
      BY <2>1, <3>1, QuietAtt
  <2>3. CASE effect.state = "none"
    <3>1. effect' = [effect EXCEPT !.state = "pending", !.result = r, !.token = inbox.token]
      BY <1>7, <2>3 DEF PrepareEffect
    <3>2. effect'.state = "pending" /\ effect'.attempts = effect.attempts /\ effect.attempts = 0
      BY <2>3, <3>1, Counts DEF AttInv, AttemptsCounted
    <3>3. One(Held) = 0 /\ One(Held') = 0
      BY <2>3, <3>2 DEF One, Held
    <3>4. CallsCounted'
      BY <2>1, <3>3, Counts, FewerCalls DEF AttInv, CallsCounted
    <3>5. AttemptsCounted'
      BY <3>2, BoundsAssumption DEF AttemptsCounted
    <3> QED
      BY <3>4, <3>5 DEF AttInv
  <2> QED
    BY <2>2, <2>3
<1>8. CASE Requeue
  <2>1. /\ effect' = [effect EXCEPT !.state = "pending", !.owner = NoOwner]
        /\ effect.state # "none" /\ UNCHANGED task /\ faults' = faults + 1
    BY <1>8 DEF Requeue, Fault
  <2>2. effect'.state # "none" /\ effect'.attempts = effect.attempts
    BY <2>1, Counts DEF AttInv
  <2> QED
    BY <1>1, <2>1, <2>2, FaultAtt
<1>9. ASSUME NEW w \in Workers, Crash(w) PROVE AttInv'
  <2>1. /\ task' = [t \in Tasks |-> IF WorkerOf[t] = w THEN Idle ELSE task[t]]
        /\ faults' = faults + 1
    BY <1>9 DEF Crash, Fault
  <2>2. NoNewCall
    BY <2>1 DEF NoNewCall, Running, Early
  <2>3. effect'.state = effect.state /\ effect'.attempts = effect.attempts
    BY <1>9, Counts DEF Crash, AttInv
  <2> QED
    BY <2>1, <2>2, <2>3, FaultAtt
<1>10. ASSUME NEW t \in Tasks, Work(t) PROVE AttInv'
  BY <1>10, WorkAtt
<1> QED
  BY <1>3, <1>4, <1>5, <1>7, <1>8, <1>9, <1>10, <1>6 DEF Next, Leases

LEMMA InitAtt == Init => AttInv
<1> SUFFICES ASSUME Init PROVE AttInv
  OBVIOUS
<1>1. Running = {}
  BY DEF Init, Running
<1>2. IsFiniteSet(Running) /\ Cardinality(Running) = 0
  BY <1>1, FS_EmptySet
<1>3. faults = 0 /\ effect.attempts = 0 /\ ~Held
  BY DEF Init, Held
<1> QED
  BY <1>2, <1>3, BoundsAssumption DEF AttInv, CallsCounted, AttemptsCounted, One

\* The attempts exceed their limit by at most one for each crash, overrun lease
\* and requeue, for any number of dispatches at work at the same time.
THEOREM AttemptsAreBounded == Spec => []AttemptsBounded
<1>1. IInv /\ AttInv => AttemptsBounded
  <2> SUFFICES ASSUME IInv, AttInv PROVE AttemptsBounded
    OBVIOUS
  <2>1. One(Free) \in Nat
    BY DEF One
  <2> QED
    BY <2>1, Counts DEF AttInv, AttemptsCounted, AttemptsBounded
<1> QED
  BY <1>1, InitAtt, NextAtt, Invariance, PTL DEF Spec

-----------------------------------------------------------------------------
(* The refinement of OnceEffect *)

LEMMA InitRefines == Init => Once!Init
  BY DEF Init, NewRow, Once!Init, Verdict

\* A step that neither accepts a result nor moves the effect to or from a
\* verdict is a stutter.
LEMMA Stutters ==
  ASSUME effect'.result = effect.result, job'.result = job.result, UNCHANGED ledger,
         \/ effect'.state = effect.state
         \/ effect.state \notin Settled /\ effect'.state \notin Settled
  PROVE  UNCHANGED Once!vars
<1>1. Verdict' = Verdict
  BY DEF Verdict
<1> QED
  BY <1>1 DEF Once!vars, Once!job

LEMMA DeliveredRefines ==
  ASSUME IInv, NEW r \in Results, job.status = "pending", Complete(r), effect' = effect
  PROVE  Once!Next
<1>1. job'.result = Stored[r] /\ job.result = NoResult /\ Books(r) /\ bridge' = bridge
  BY Acceptance
<1>2. Verdict' = Verdict
  BY DEF Verdict
<1>3. Once!Deliver(r)
  BY <1>1, <1>2 DEF Once!Deliver, Once!Have, Books
<1> QED
  BY <1>3 DEF Once!Next

\* The webhook reads a job that is not completed, which has no result, and is
\* the only one to replace or erase a result.
LEMMA BridgeRefines ==
  ASSUME IInv, NEW s \in {"pending", "completed"}, BridgeRead(s) \/ BridgeSave(s)
  PROVE  Once!Next
<1>1. effect' = effect /\ Verdict' = Verdict
  BY DEF BridgeRead, BridgeSave, Verdict
<1>2. CASE BridgeRead(s)
  <2>1. job.result = NoResult
    BY <1>2 DEF BridgeRead, IInv, Evidence
  <2>2. Once!Arrive(s)
    BY <1>1, <1>2, <2>1 DEF BridgeRead, Once!Arrive, Once!job
  <2> QED
    BY <2>2 DEF Once!Next
<1>3. CASE BridgeSave(s)
  <2>1. Once!Saves(s) /\ job \in Row
    BY <1>1, <1>3 DEF BridgeSave, Once!Saves, IInv, TypeOK
  <2>2. CASE s = "pending"
    <3>1. job'.result = NoResult /\ UNCHANGED <<paid, accepted>>
      BY <1>3, <2>1, <2>2 DEF BridgeSave, Bridged
    <3>2. Once!Erase
      BY <2>1, <2>2, <3>1 DEF Once!Erase
    <3> QED
      BY <3>2 DEF Once!Next
  <2>3. CASE s = "completed"
    <3>1. PICK r \in Results : job' = Bridged(job, s, Stored[r]) /\ Books(r)
      BY <1>3, <2>3 DEF BridgeSave
    <3>2. job'.result = Stored[r]
      BY <2>1, <3>1 DEF Bridged
    <3>3. Once!Replace(r)
      BY <2>1, <2>3, <3>1, <3>2 DEF Once!Replace, Once!Have, Books
    <3> QED
      BY <3>3 DEF Once!Next
  <2> QED
    BY <2>2, <2>3
<1> QED
  BY <1>2, <1>3

LEMMA MarkRefines ==
  ASSUME IInv, NEW t \in Tasks, task[t].pc # "idle",
         \/ Mark(t, "succeeded", "completed") /\ Own
         \/ Mark(t, "conflict", "conflict") /\ Another
         \/ \E s \in {"retryable", "indeterminate"} : MarkFailure(t, s)
  PROVE  [Once!Next]_(Once!vars)
<1>1. UNCHANGED <<job, ledger>>
  BY DEF Mark, MarkFailure
<1>2. CASE ~Owns(t)
  BY <1>1, <1>2, Stutters DEF Mark, MarkFailure
<1>3. CASE Owns(t)
  <2>1. effect.state = "dispatching" /\ effect.result # NoResult
    BY <1>3 DEF Owns, IInv, Evidence
  <2>2. Verdict = "open"
    BY <2>1 DEF Verdict
  <2>3. \E s \in Settled \cup Resting :
           /\ effect' = [effect EXCEPT !.state = s, !.owner = NoOwner]
           /\ s = "succeeded" => Own
           /\ s = "conflict" => Another
    <3>1. CASE Mark(t, "succeeded", "completed") /\ Own
      BY <1>3, <3>1 DEF Mark
    <3>2. CASE Mark(t, "conflict", "conflict") /\ Another
      BY <1>3, <3>2 DEF Mark
    <3>3. CASE \E s \in {"retryable", "indeterminate"} : MarkFailure(t, s)
      <4>1. \E s \in {"retryable", "indeterminate", "dead"} :
              effect' = [effect EXCEPT !.state = s, !.owner = NoOwner]
        BY <1>3, <3>3 DEF MarkFailure, Rest
      <4> QED
        BY <4>1
    <3> QED
      BY <3>1, <3>2, <3>3
  <2>4. PICK s \in Settled \cup Resting :
           /\ effect'.state = s /\ effect'.result = effect.result
           /\ s = "succeeded" => Own
           /\ s = "conflict" => Another
    BY <2>3 DEF IInv, TypeOK
  <2>5. CASE s = "succeeded"
    <3>1. Verdict' = "confirmed"
      BY <2>4, <2>5 DEF Verdict
    <3>2. Once!Confirm
      BY <1>1, <2>1, <2>2, <2>4, <2>5, <3>1 DEF Once!Confirm, Once!Conclude, Once!job, Own
    <3> QED
      BY <3>2 DEF Once!Next
  <2>6. CASE s = "conflict"
    <3>1. Verdict' = "refused"
      BY <2>4, <2>6 DEF Verdict
    <3>2. Once!Refuse
      BY <1>1, <2>1, <2>2, <2>4, <2>6, <3>1 DEF Once!Refuse, Once!Conclude, Once!job, Another
    <3> QED
      BY <3>2 DEF Once!Next
  <2>7. CASE s = "dead"
    <3>1. Verdict' = "given_up"
      BY <2>4, <2>7 DEF Verdict
    <3>2. Once!GiveUp
      BY <1>1, <2>1, <2>2, <2>4, <3>1 DEF Once!GiveUp, Once!Conclude, Once!job
    <3> QED
      BY <3>2 DEF Once!Next
  <2>8. CASE s \in Resting
    BY <1>1, <2>1, <2>4, <2>8, Stutters
  <2> QED
    BY <2>5, <2>6, <2>7, <2>8
<1> QED
  BY <1>2, <1>3

LEMMA WorkRefines ==
  ASSUME IInv, NEW t \in Tasks, Work(t)
  PROVE  [Once!Next]_(Once!vars)
<1>1. ASSUME NEW pc \in PCs, Step(t, pc) PROVE UNCHANGED Once!vars
  BY <1>1, Stutters DEF Step
<1>2. ASSUME Reconcile(t) PROVE UNCHANGED Once!vars
  BY <1>1, <1>2 DEF Reconcile
<1>3. CASE ClaimDue(t)
  <2>1. /\ effect.state \in Resting \cup {"dispatching"} /\ UNCHANGED server
        /\ effect' = [effect EXCEPT !.state = "dispatching", !.owner = WorkerOf[t],
                              !.attempts = @ + 1]
    BY <1>3 DEF ClaimDue, Due
  <2>2. effect'.state = "dispatching" /\ effect'.result = effect.result
    BY <2>1 DEF IInv, TypeOK
  <2> QED
    BY <2>1, <2>2, Stutters
<1>4. CASE Look(t)
  BY <1>1, <1>2, <1>4 DEF Look
<1>5. CASE Post(t)
  <2>1. effect.result \in Results
    BY <1>5 DEF Post, IInv, TypeOK, Evidence
  <2>2. CASE Accepts(task[t].token) /\ Complete(effect.result) /\ effect' = effect
    BY <2>1, <2>2, DeliveredRefines DEF Accepts, Completable
  <2>3. CASE UNCHANGED <<server, effect>>
    BY <2>3, Stutters
  <2> QED
    BY <1>5, <2>2, <2>3 DEF Post, Step
<1>6. CASE Won(t)
  BY <1>6, MarkRefines DEF Won, IInv, Evidence
<1>7. CASE Differs(t)
  BY <1>7, MarkRefines DEF Differs, IInv, Evidence
<1>8. CASE Unsure(t)
  BY <1>2, <1>8, MarkRefines DEF Unsure
<1>9. CASE Refused(t)
  BY <1>1, <1>2, <1>9, MarkRefines DEF Refused
<1>10. CASE Refresh(t)
  <2>1. UNCHANGED ledger /\ effect' = effect /\ job'.result = job.result
    BY <1>10, LeaseUpdates, ProviderAssumption DEF Refresh, Step, IInv, TypeOK
  <2> QED
    BY <2>1, Stutters
<1>11. CASE MarkClaimed(t)
  BY <1>11, Stutters DEF MarkClaimed, Step
<1>12. CASE Prepare(t)
  BY <1>12, RefencedKeeps, Stutters DEF Prepare
<1>13. CASE Reschedule(t)
  BY <1>13, MarkRefines DEF Reschedule
<1> QED
  BY <1>3, <1>4, <1>5, <1>6, <1>8, <1>9, <1>10, <1>11, <1>12, <1>13, <1>7 DEF Work

LEMMA NextRefines == IInv /\ [Next]_vars => [Once!Next]_(Once!vars)
<1> SUFFICES ASSUME IInv, [Next]_vars PROVE [Once!Next]_(Once!vars)
  OBVIOUS
<1>1. CASE UNCHANGED vars
  BY <1>1, Stutters
<1>2. CASE Leases
  <2>1. UNCHANGED ledger /\ effect' = effect
    BY <1>2 DEF Leases, OutsideClaim, OutsideRelease, GotExpiry, LeaseLapses, Pause, Resume, Heartbeat
  <2> QED
    BY <1>2, <2>1, LeasesKeep, Stutters DEF Kept
<1>3. ASSUME NEW r \in Results, OutsideComplete(r) PROVE Once!Next
  BY <1>3, OutsideDelivers, DeliveredRefines DEF Delivered
<1>4. ASSUME NEW token \in wire, LatePost(token) PROVE Once!Next
  BY <1>4, OutsideDelivers, DeliveredRefines DEF Delivered
<1>5. CASE Ingest \/ ClaimAnswered
  BY <1>5, Stutters DEF Ingest, ClaimAnswered
<1>6. CASE ClaimJob
  <2>1. UNCHANGED ledger /\ effect' = effect /\ job'.result = job.result
    BY <1>6, LeaseUpdates, ProviderAssumption DEF ClaimJob, IInv, TypeOK
  <2> QED
    BY <2>1, Stutters
<1>7. ASSUME NEW r \in Computed, PrepareEffect(r) PROVE [Once!Next]_(Once!vars)
  <2>1. UNCHANGED server
    BY <1>7 DEF PrepareEffect
  <2>2. CASE effect.state # "none"
    <3>1. effect' = Refenced(effect)
      BY <1>7, <2>2 DEF PrepareEffect
    <3> QED
      BY <2>1, <3>1, RefencedKeeps, Stutters
  <2>3. CASE effect.state = "none"
    <3>1. effect' = [effect EXCEPT !.state = "pending", !.result = r, !.token = inbox.token]
      BY <1>7, <2>3 DEF PrepareEffect
    <3>2. effect'.state = "pending" /\ effect'.result = r
      BY <3>1 DEF IInv, TypeOK
    <3>3. Verdict' = Verdict
      BY <2>3, <3>2 DEF Verdict
    <3>4. r \in Results /\ effect.result = NoResult
      BY <2>3, ComputedAssumption DEF IInv, Evidence
    <3>5. Once!Intend(r)
      BY <2>1, <3>2, <3>3, <3>4 DEF Once!Intend, Once!job
    <3> QED
      BY <3>4, <3>5 DEF Once!Next
  <2> QED
    BY <2>2, <2>3
<1>8. CASE Requeue
  <2>1. /\ effect' = [effect EXCEPT !.state = "pending", !.owner = NoOwner]
        /\ effect.state \in {"retryable", "indeterminate", "dead"} /\ UNCHANGED server
    BY <1>8 DEF Requeue
  <2>2. effect'.state = "pending" /\ effect'.result = effect.result
    BY <2>1 DEF IInv, TypeOK
  <2>3. CASE effect.state = "dead"
    <3>1. Verdict = "given_up" /\ Verdict' = "open"
      BY <2>2, <2>3 DEF Verdict
    <3>2. Once!Reopen
      BY <2>1, <2>2, <3>1 DEF Once!Reopen, Once!job
    <3> QED
      BY <3>2 DEF Once!Next
  <2>4. CASE effect.state # "dead"
    BY <2>1, <2>2, <2>4, Stutters
  <2> QED
    BY <2>3, <2>4
<1>9. ASSUME NEW w \in Workers, Crash(w) PROVE UNCHANGED Once!vars
  <2>1. effect'.state = effect.state /\ effect'.result = effect.result /\ UNCHANGED server
    BY <1>9 DEF Crash, IInv, TypeOK
  <2> QED
    BY <2>1, Stutters
<1> QED
  BY <1>1, <1>2, <1>3, <1>4, <1>5, <1>6, <1>7, <1>8, <1>9, BridgeRefines, WorkRefines DEF Next, Leases

\* The agent and the web API implement OnceEffect, whatever JSON makes of the
\* results: a job without a result accepts and pays one, only the webhook replaces
\* or erases it later, and the verdict names a result that the job has held.
THEOREM Refinement == Spec => ImplementsOnce
<1>1. Init => Once!Init
  BY InitRefines
<1>2. IInv /\ [Next]_vars => [Once!Next]_(Once!vars)
  BY NextRefines
<1> QED
  BY <1>1, <1>2, Invariance, PTL DEF Spec, ImplementsOnce, Once!Spec
=============================================================================
