----------------------------- MODULE Reconciler -----------------------------
(***************************************************************************)
(* The payment reconciler of the web application: the finality records of  *)
(* tls_stellar_tx_records, the ticks and the in-process work queue of      *)
(* web/src/lib/reconciler/scheduler.ts, the transitions of                 *)
(* state-machine.ts, the repair of repair.ts, and the commerce job or      *)
(* token purchase each record was registered for.  Besides the reconciler, *)
(* the agent's result, an admin's pause and the cross-chain webhook write  *)
(* the job.                                                                *)
(*                                                                         *)
(* A SELECT, an UPDATE and a call to Horizon are one step each.  Between   *)
(* two of them other calls of the same process, other web processes, the   *)
(* agents and the network move on.  A process keeps its queue and its      *)
(* activeIds in memory: a crash forgets them and nothing else.             *)
(*                                                                         *)
(* The ledger is a counter, Horizon a window on it that may also answer    *)
(* with an error.  No caller of registerTx() passes ledgerSubmitted, so    *)
(* isLedgerExpired() is false of every record and is left out; nobody      *)
(* calls stopReconciler(), so no signal is ever aborted.                   *)
(***************************************************************************)
EXTENDS Naturals, Sequences, FiniteSets

CONSTANTS
  Txs,          \* transaction hashes, one per job or purchase
  Servers,      \* web processes that run ticks
  Ticks,        \* ticks of a process that may be in progress at once
  Source,       \* sourceType each transaction is registered with
  Threshold,    \* config.notFoundThreshold
  Depth,        \* config.confirmationDepth
  BatchSize,    \* config.batchSize
  Limit,        \* config.concurrencyLimit
  MaxLedger,    \* bound: ledgers that close
  MaxFaults     \* bound: crashes and failed database writes in a behaviour

ASSUME SourceAssumption == Source \in [Txs -> {"commerce_job", "token_purchase"}]
ASSUME ConfigAssumption ==
  /\ Threshold \in Nat \ {0} /\ Depth \in Nat \ {0}
  /\ BatchSize \in Nat \ {0} /\ Limit \in Nat \ {0}
ASSUME BoundsAssumption == MaxLedger \in Nat /\ MaxFaults \in Nat

VARIABLES
  ledger,   \* sequence number of the last closed ledger
  chain,    \* what the network knows of each transaction
  row,      \* status of the job or purchase that each transaction pays for
  rec,      \* the table tls_stellar_tx_records
  order,    \* the registered transactions by updatedAt, oldest first
  expired,  \* records whose expiresAt has passed
  proc,     \* memory of each web process
  asked,    \* history: poll attempts counted for each transaction, up to Threshold
  bridge,   \* status a webhook delivery that has read the job will save, or "none"
  faults    \* counter for the bound

vars == <<ledger, chain, bridge, row, rec, order, expired, proc, asked, faults>>
world == <<ledger, chain>>

ActiveStates == {"PENDING", "CONFIRMING"}
TerminalStates == {"CONFIRMED", "FAILED", "EXPIRED", "NOT_FOUND"}
Waiting == {"absent", "pending"}
RowStatuses == Waiting \cup {"completed", "cancelled", "failed",
  "payment_failed", "payment_expired", "payment_not_found"}

Null == 0   \* SQL NULL in confirmedLedger; ledgers count from 1
NoRecord == [status |-> "absent", landed |-> Null, polls |-> 0, repaired |-> FALSE]
NewRecord == [NoRecord EXCEPT !.status = "PENDING"]

NoTick == [pc |-> "idle", ledger |-> Null, batch |-> <<>>]
Fresh == [tick |-> [k \in Ticks |-> NoTick], queue |-> <<>>, active |-> {}, calls |-> <<>>]

Init ==
  /\ ledger = 0
  /\ chain = [t \in Txs |-> [status |-> "not_found", ledger |-> Null]]
  /\ row = [t \in Txs |-> "absent"]
  /\ rec = [t \in Txs |-> NoRecord]
  /\ order = <<>>
  /\ expired = {}
  /\ proc = [s \in Servers |-> Fresh]
  /\ asked = [t \in Txs |-> 0]
  /\ bridge = [t \in Txs |-> "none"]
  /\ faults = 0

-----------------------------------------------------------------------------
(* The network and the routes around the reconciler.                       *)

\* A ledger closes with some of the transactions in it.
CloseLedger ==
  /\ ledger < MaxLedger
  /\ ledger' = ledger + 1
  /\ \E S \in SUBSET {t \in Txs : chain[t].status = "not_found"} :
       \E how \in [S -> {"confirmed", "failed"}] :
         chain' = [t \in Txs |-> IF t \in S
                     THEN [status |-> how[t], ledger |-> ledger + 1] ELSE chain[t]]
  /\ UNCHANGED <<bridge, row, rec, order, expired, proc, asked, faults>>

\* POST /jobs with an asynchronous service queues a pending job and does not
\* look at a txHash the client submitted; POST /buy-token finds the payment on
\* the ledger and commits a completed purchase.
Create(t) ==
  /\ row[t] = "absent"
  /\ \/ /\ Source[t] = "commerce_job"
        /\ row' = [row EXCEPT ![t] = "pending"]
     \/ /\ Source[t] = "token_purchase" /\ chain[t].status = "confirmed"
        /\ row' = [row EXCEPT ![t] = "completed"]
  /\ UNCHANGED <<world, bridge, rec, order, expired, proc, asked, faults>>

\* registerTx(), which the route calls without waiting for it: it runs later,
\* or never.  The hash is unique, a second registration changes nothing.
Register(t) ==
  /\ row[t] # "absent" /\ rec[t] = NoRecord
  /\ rec' = [rec EXCEPT ![t] = NewRecord]
  /\ order' = Append(order, t)
  /\ UNCHANGED <<world, bridge, row, expired, proc, asked, faults>>

\* POST /jobs/:id/result: UPDATE ... WHERE status = 'pending'.
CompleteJob(t) ==
  /\ row[t] = "pending"
  /\ row' = [row EXCEPT ![t] = "completed"]
  /\ UNCHANGED <<world, bridge, rec, order, expired, proc, asked, faults>>

\* PATCH /status: pausing or retiring a talos cancels its pending jobs.
CancelJob(t) ==
  /\ row[t] = "pending"
  /\ row' = [row EXCEPT ![t] = "cancelled"]
  /\ UNCHANGED <<world, bridge, rec, order, expired, proc, asked, faults>>

\* POST /commerce/cross-chain-webhook names the job by its id: unless it is
\* completed, or already where the delivery would put it, the webhook goes on with
\* what it read and awaits the fulfilment.  One delivery at a time is modelled.
BridgeRead(t) ==
  /\ Source[t] = "commerce_job" /\ bridge[t] = "none"
  /\ row[t] \notin {"absent", "completed"}
  /\ \E next \in {"pending", "completed"} \ {row[t]} : bridge' = [bridge EXCEPT ![t] = next]
  /\ UNCHANGED <<world, row, rec, order, expired, proc, asked, faults>>

\* It saves by the id alone, whatever the row says by then.
BridgeSave(t) ==
  /\ bridge[t] # "none"
  /\ row' = [row EXCEPT ![t] = bridge[t]]
  /\ bridge' = [bridge EXCEPT ![t] = "none"]
  /\ UNCHANGED <<world, rec, order, expired, proc, asked, faults>>

\* isWallClockExpired() becomes true of the record.
Expire(t) ==
  /\ rec[t].status # "absent" /\ t \notin expired
  /\ expired' = expired \cup {t}
  /\ UNCHANGED <<world, bridge, row, rec, order, proc, asked, faults>>

-----------------------------------------------------------------------------
(* The state machine.                                                      *)

\* Mutant: a transaction is confirmed the moment it is seen.
DeepAtOnce(landed, now) == landed # Null

\* currentLedger >= confirmedLedger + confirmationDepth
Deep(landed, now) == landed # Null /\ now >= landed + Depth

\* newPollCount >= notFoundThreshold
GivesUp(polls) == polls >= Threshold

\* pollCount + 1; the count is only ever compared with the threshold.
OneMore(n) == IF n < Threshold THEN n + 1 ELSE n

\* transitionFromPending(): the update for a polled record.
FromPending(t, r, outcome) ==
  LET seen == [r EXCEPT !.polls = OneMore(r.polls)]
      landing == [seen EXCEPT !.landed = chain[t].ledger] IN
  CASE t \in expired -> [seen EXCEPT !.status = "EXPIRED"]
    [] t \notin expired /\ outcome = "confirmed" ->
         [landing EXCEPT !.status = "CONFIRMING"]
    [] t \notin expired /\ outcome = "failed" -> [landing EXCEPT !.status = "FAILED"]
    [] t \notin expired /\ outcome = "not_found" /\ GivesUp(seen.polls) ->
         [seen EXCEPT !.status = "NOT_FOUND"]
    [] OTHER -> seen

\* transitionFromConfirming(): no poll, only the clock and the depth.
FromConfirming(t, r, now) ==
  CASE t \in expired -> [r EXCEPT !.status = "EXPIRED"]
    [] t \notin expired /\ Deep(r.landed, now) -> [r EXCEPT !.status = "CONFIRMED"]
    [] OTHER -> r

\* needsRepair(), of the record as the call knows it.
NeedsRepair(r) == r.status \in TerminalStates /\ ~r.repaired

-----------------------------------------------------------------------------
(* Ticks and the work queue of process s.                                  *)

SetProc(s, p) == proc' = [proc EXCEPT ![s] = p]

Queued(p) == {p.queue[i].tx : i \in 1 .. Len(p.queue)}

\* Array.filter(): the elements of seq that are in S, in their order.
Kept(seq, S) ==
  LET kept[n \in 0 .. Len(seq)] ==
        IF n = 0 THEN <<>>
        ELSE IF seq[n] \in S THEN Append(kept[n - 1], seq[n]) ELSE kept[n - 1]
  IN kept[Len(seq)]

\* drainQueue(): start processRecord() calls up to the concurrency limit, with
\* the currentLedger of whoever drains.
Drain(p, now) ==
  LET room == IF Cardinality(p.active) < Limit THEN Limit - Cardinality(p.active) ELSE 0
      k == IF room < Len(p.queue) THEN room ELSE Len(p.queue)
      started == SubSeq(p.queue, 1, k) IN
  [p EXCEPT !.queue = SubSeq(p.queue, k + 1, Len(p.queue)),
            !.active = @ \cup {started[i].tx : i \in 1 .. k},
            !.calls = @ \o [i \in 1 .. k |-> [tx |-> started[i].tx, rec |-> started[i].rec,
                                              ledger |-> now, pc |-> "evaluate"]]]

\* fetchCurrentLedger() answers.  When it does not, the tick ends with nothing done.
TickLedger(s, k) ==
  /\ proc[s].tick[k].pc = "idle"
  /\ SetProc(s, [proc[s] EXCEPT !.tick[k] = [NoTick EXCEPT !.pc = "load", !.ledger = ledger]])
  /\ UNCHANGED <<world, bridge, row, rec, order, expired, asked, faults>>

\* WHERE finalityStatus IN ACTIVE_STATES
Loadable == {t \in Txs : rec[t].status \in ActiveStates}

\* The batch: ORDER BY updatedAt LIMIT batchSize, read before it is used.
TickLoad(s, k) ==
  LET found == Kept(order, Loadable)
      n == IF Len(found) < BatchSize THEN Len(found) ELSE BatchSize
      batch == [i \in 1 .. n |-> [tx |-> found[i], rec |-> rec[found[i]]]] IN
  /\ proc[s].tick[k].pc = "load"
  /\ SetProc(s, [proc[s] EXCEPT !.tick[k] =
       IF n = 0 THEN NoTick ELSE [@ EXCEPT !.pc = "queue", !.batch = batch]])
  /\ UNCHANGED <<world, bridge, row, rec, order, expired, asked, faults>>

\* Mutant: records in progress are queued again.
IsNewWithoutActive(p, t) == t \notin Queued(p)

\* !activeIds.has(id) && !queuedIds.has(id)
IsNew(p, t) == t \notin p.active \cup Queued(p)

TickQueue(s, k) ==
  LET p == proc[s]
      batch == p.tick[k].batch
      new == {batch[i] : i \in {j \in 1 .. Len(batch) : IsNew(p, batch[j].tx)}} IN
  /\ p.tick[k].pc = "queue"
  /\ SetProc(s, Drain([p EXCEPT !.queue = @ \o Kept(batch, new), !.tick[k] = NoTick],
                      p.tick[k].ledger))
  /\ UNCHANGED <<world, bridge, row, rec, order, expired, asked, faults>>

-----------------------------------------------------------------------------
(* processRecord(): call i of process s.                                   *)

Call(s, i) == proc[s].calls[i]
CallsAt(s, t, pc) ==
  {i \in 1 .. Len(proc[s].calls) : Call(s, i).tx = t /\ Call(s, i).pc = pc}

Continue(s, i, c) == SetProc(s, [proc[s] EXCEPT !.calls[i] = c])

\* The call ends: its id leaves activeIds and the queue is drained again.
Finish(s, i) ==
  LET p == proc[s]
      c == Call(s, i)
      without(seq) == SubSeq(seq, 1, i - 1) \o SubSeq(seq, i + 1, Len(seq)) IN
  SetProc(s, Drain([p EXCEPT !.calls = without(@), !.active = @ \ {c.tx}], c.ledger))

\* pollTransaction(): what the network knows, or an error of Horizon.
Answers(t) == {chain[t].status, "error"}

\* Poll a PENDING record, then compute the transition from the loaded copy.
Evaluate(s, t) ==
  \E i \in CallsAt(s, t, "evaluate") :
    LET c == Call(s, i) IN
    /\ \/ /\ c.rec.status = "PENDING"
          /\ \E outcome \in Answers(t) :
               Continue(s, i, [c EXCEPT !.rec = FromPending(t, c.rec, outcome),
                                        !.pc = "persist"])
          /\ asked' = [asked EXCEPT ![t] = OneMore(asked[t])]
       \/ /\ c.rec.status = "CONFIRMING"
          /\ Continue(s, i, [c EXCEPT !.rec = FromConfirming(t, c.rec, c.ledger),
                                      !.pc = "persist"])
          /\ UNCHANGED asked
    /\ UNCHANGED <<world, bridge, row, rec, order, expired, faults>>

\* A write of the record also sets updatedAt.
Touch(t) == order' = Append(Kept(order, Txs \ {t}), t)

\* UPDATE ... WHERE id = record.id, with every column but repairApplied.
Persist(s, t) ==
  \E i \in CallsAt(s, t, "persist") :
    LET c == Call(s, i) IN
    /\ rec' = [rec EXCEPT ![t] = [c.rec EXCEPT !.repaired = rec[t].repaired]]
    /\ Touch(t)
    /\ IF NeedsRepair(c.rec) THEN Continue(s, i, [c EXCEPT !.pc = "repair"]) ELSE Finish(s, i)
    /\ UNCHANGED <<world, bridge, row, expired, asked, faults>>

\* What a dead payment makes of a pending row.
Verdict(t, status) ==
  IF Source[t] = "token_purchase" THEN "failed"
  ELSE CASE status = "FAILED" -> "payment_failed"
         [] status = "EXPIRED" -> "payment_expired"
         [] status = "NOT_FOUND" -> "payment_not_found"

\* Mutant: the UPDATE without its status guard.
RepairUnguarded(t, status) ==
  IF status = "CONFIRMED" THEN row[t] ELSE Verdict(t, status)

\* applyRepair(): only a row that still waits on the payment changes.
Repaired(t, status) ==
  IF status = "CONFIRMED" \/ row[t] # "pending" THEN row[t] ELSE Verdict(t, status)

Repair(s, t) ==
  \E i \in CallsAt(s, t, "repair") :
    LET c == Call(s, i) IN
    /\ row' = [row EXCEPT ![t] = Repaired(t, c.rec.status)]
    /\ Continue(s, i, [c EXCEPT !.pc = "mark"])
    /\ UNCHANGED <<world, bridge, rec, order, expired, asked, faults>>

\* UPDATE ... SET repairApplied = true
Mark(s, t) ==
  \E i \in CallsAt(s, t, "mark") :
    /\ rec' = [rec EXCEPT ![t].repaired = TRUE]
    /\ Touch(t)
    /\ Finish(s, i)
    /\ UNCHANGED <<world, bridge, row, expired, asked, faults>>

\* A statement of the call fails: the error is logged and the call is over.
WriteFails(s, t) ==
  /\ faults < MaxFaults
  /\ faults' = faults + 1
  /\ \E i \in CallsAt(s, t, "persist") \cup CallsAt(s, t, "repair")
              \cup CallsAt(s, t, "mark") : Finish(s, i)
  /\ UNCHANGED <<world, bridge, row, rec, order, expired, asked>>

\* The process dies with its ticks, its queue and its calls, and is started again.
Crash(s) ==
  /\ faults < MaxFaults
  /\ proc[s] # Fresh
  /\ faults' = faults + 1
  /\ SetProc(s, Fresh)
  /\ UNCHANGED <<world, bridge, row, rec, order, expired, asked>>

-----------------------------------------------------------------------------
Routes(t) ==
  \/ Create(t) \/ Register(t) \/ CompleteJob(t) \/ CancelJob(t)
  \/ BridgeRead(t) \/ BridgeSave(t)
Tick(s, k) == TickLedger(s, k) \/ TickLoad(s, k) \/ TickQueue(s, k)
Process(s, t) == Evaluate(s, t) \/ Persist(s, t) \/ Repair(s, t) \/ Mark(s, t)

Next ==
  \/ CloseLedger
  \/ \E t \in Txs : Routes(t) \/ Expire(t)
  \/ \E s \in Servers : Crash(s) \/ \E k \in Ticks : Tick(s, k)
  \/ \E s \in Servers, t \in Txs : Process(s, t) \/ WriteFails(s, t)

\* setInterval() keeps ticking, promises make progress and time passes.
Fairness ==
  /\ \A s \in Servers, k \in Ticks : WF_vars(Tick(s, k))
  /\ \A s \in Servers, t \in Txs : WF_vars(Process(s, t))
  /\ \A t \in Txs : WF_vars(Expire(t))

Spec == Init /\ [][Next]_vars
FairSpec == Spec /\ Fairness

-----------------------------------------------------------------------------
Record == [status : {"absent"} \cup ActiveStates \cup TerminalStates,
           landed : 0 .. MaxLedger, polls : 0 .. Threshold, repaired : BOOLEAN]
Item == [tx : Txs, rec : Record]
Calls == [tx : Txs, rec : Record, ledger : 0 .. MaxLedger,
          pc : {"evaluate", "persist", "repair", "mark"}]

\* The types of the tables and of the scheduler's memory.
TypeOK ==
  /\ ledger \in 0 .. MaxLedger
  /\ chain \in [Txs -> [status : {"not_found", "confirmed", "failed"},
                        ledger : 0 .. MaxLedger]]
  /\ row \in [Txs -> RowStatuses] /\ bridge \in [Txs -> {"none", "pending", "completed"}]
  /\ rec \in [Txs -> Record] /\ expired \subseteq Txs
  /\ order \in Seq(Txs) /\ asked \in [Txs -> 0 .. Threshold]
  /\ \A s \in Servers : LET p == proc[s] IN
       /\ \A k \in Ticks : p.tick[k].pc \in {"idle", "load", "queue"} /\ p.tick[k].batch \in Seq(Item)
       /\ p.queue \in Seq(Item) /\ p.active \subseteq Txs /\ p.calls \in Seq(Calls)

\* However ticks overlap, one process works on a record once at a time, never
\* on one that is also queued, and never on more records than the limit
\* (activeIds and queuedIds of scheduler.ts).
OneCallPerRecord ==
  \A s \in Servers : LET p == proc[s] IN
    /\ Len(p.calls) <= Limit
    /\ \A i, j \in 1 .. Len(p.calls) : p.calls[i].tx = p.calls[j].tx => i = j
    /\ p.active = {p.calls[i].tx : i \in 1 .. Len(p.calls)}
    /\ p.active \cap Queued(p) = {}

\* Whatever stale copies the calls work from, a record says CONFIRMED only of
\* a payment that succeeded and is deep enough, FAILED only of one that failed,
\* and a job is payment_failed only if its payment failed (state-machine.ts,
\* repair.ts).
FinalityIsTrue ==
  \A t \in Txs :
    /\ rec[t].landed # Null => rec[t].landed = chain[t].ledger
    /\ rec[t].status \in {"CONFIRMING", "CONFIRMED"} => chain[t].status = "confirmed"
    /\ rec[t].status = "CONFIRMED" => ledger >= chain[t].ledger + Depth
    /\ rec[t].status = "FAILED" \/ row[t] = "payment_failed" => chain[t].status = "failed"

\* A job is given up as payment_not_found only after Threshold polls of its
\* payment, although two processes may overwrite each other's pollCount.  Polls
\* that ended in an error of Horizon are counted like those that found nothing.
GivenUpAfterPolls ==
  \A t \in Txs : rec[t].status = "NOT_FOUND" \/ row[t] = "payment_not_found" =>
    asked[t] >= Threshold

\* The agent's result, a pause and the repair race for a pending row; whichever
\* comes first decides it for them.  Only a webhook that had read the row before
\* moves a settled row, and it never touches a purchase (repair.ts,
\* result/route.ts, status/route.ts, cross-chain-webhook/route.ts).
SettledOnce ==
  [][\A t \in Txs : row[t] \notin Waiting /\ row'[t] # row[t] =>
       /\ Source[t] = "commerce_job"
       /\ bridge[t] # "none" /\ row'[t] = bridge[t] /\ bridge'[t] = "none"]_vars

\* Violated: "repair has been/will be applied" to every terminal record
\* (types.ts).  Ticks only load active records, so a repair that failed or that a crash
\* cut off is never tried again.
TerminalIsRepaired ==
  \A t \in Txs : rec[t].status \in TerminalStates ~> rec[t].repaired
=============================================================================
