--------------------------- MODULE CommercePurchase ---------------------------
(***************************************************************************)
(* How a commerce job is bought.  Four handlers insert rows of             *)
(* tls_commerce_jobs: POST /api/talos/:id/service for agents ("service"),  *)
(* POST /api/talos/:id/jobs for people who sign a transaction ("jobs") or  *)
(* name one ("legacy"), and the cross-chain webhook ("bridge").  A handler *)
(* awaits between its queries, the settlement and the fulfilment, so each  *)
(* of those is a step, and requests interleave at them.  What happens to   *)
(* the row afterwards is CommerceRow and JobEffects; here it is completed, *)
(* closed, or reclaimed with its idempotency key.                          *)
(*                                                                         *)
(* A token stands for one payment: the x402 token of the service route,    *)
(* the transaction hash of the jobs route, the bridge's reference; what    *)
(* retries a purchase may carry another token.  A key is whatever a client *)
(* chose: two buyers may have chosen the same.  The service route knows    *)
(* its buyer as an agent, the jobs route stores "human:<public key>".      *)
(***************************************************************************)
EXTENDS Naturals, Sequences

CONSTANTS
  Requests,      \* requests and deliveries served at the same time
  Orders,        \* what they may ask for
  Tokens, Keys,
  NoKey,         \* no Idempotency-Key header
  Buyers,        \* values of requesterTalosId
  Agents,        \* those that are agents; the others begin with "human:"
  Payloads,
  Resettles,     \* whether a settled token is settled again: a subset of BOOLEAN
  MaxJobs,       \* bound on the rows ever inserted
  MaxBooked,     \* bound on the revenue rows of one job
  MaxLost        \* bound on the commits whose answer is lost

Routes == {"service", "jobs", "legacy", "bridge"}
OrderType == [route : Routes, buyer : Buyers, token : Tokens, key : Keys \cup {NoKey},
              payload : Payloads, bid : BOOLEAN, instant : BOOLEAN]

ASSUME NoKeyAssumption == NoKey \notin Keys
ASSUME OrdersAssumption == Orders \subseteq OrderType /\ Orders # {}
ASSUME ResettlesAssumption == Resettles \subseteq BOOLEAN
ASSUME BoundsAssumption == {MaxJobs, MaxBooked, MaxLost} \subseteq Nat
\* Only an agent bids; the webhook has no Idempotency-Key.
ASSUME RoutesAssumption ==
  \A o \in Orders : /\ o.bid => o.route = "service"
                    /\ o.route = "bridge" => o.key = NoKey
                    /\ o.route = "service" => o.buyer \in Agents
                    /\ o.route \in {"jobs", "legacy"} => o.buyer \notin Agents
\* The references of bridges begin with the name of their chain; every delivery of
\* one payment names the same buyer.
ASSUME BridgesAssumption ==
  \A o, b \in Orders :
    b.route = "bridge" /\ o.token = b.token => o.route = "bridge" /\ o.buyer = b.buyer

VARIABLES
  jobs,      \* the rows, in the order of their insertion; a deleted row keeps its place
  settled,   \* tokens whose transaction is on the ledger
  req,       \* the requests in progress
  sold,      \* the 201 answers to requests with a key
  lost       \* commits whose answer was lost so far

vars == <<jobs, settled, req, sold, lost>>

Statuses == {"pending", "negotiating", "completed", "closed", "deleted"}
Job == [buyer : Buyers, key : Keys \cup {NoKey}, token : Tokens, payload : Payloads,
        status : Statuses, booked : Nat, bridged : BOOLEAN]
Steps == {"lookup", "replay", "settle", "fulfil", "insert", "reread", "save", "done"}
Request == [order : Orders, step : Steps, late : BOOLEAN, paid : BOOLEAN, row : Nat]

\* Where a handler goes on after a step it has passed.
After(route, step) ==
  CASE route = "service" /\ step = "lookup" -> "replay"
    [] route = "service" /\ step = "replay" -> "settle"
    [] route = "jobs"    /\ step = "lookup" -> "settle"
    [] route = "jobs"    /\ step = "settle" -> "replay"
    [] route = "legacy"  /\ step = "lookup" -> "replay"
    [] route = "bridge"  /\ step = "fulfil" -> "save"
    [] step = "fulfil" -> "insert"
    [] OTHER -> "fulfil"

Present(i) == jobs[i].status # "deleted"
KeyRows(k) == {i \in DOMAIN jobs : Present(i) /\ jobs[i].key = k /\ k # NoKey}
OwnRows(b, k) == {i \in KeyRows(k) : jobs[i].buyer = b}
TokenRows(t) == {i \in DOMAIN jobs : Present(i) /\ jobs[i].token = t}

At(r, step) == req[r].step = step
Go(r, step) == req' = [req EXCEPT ![r].step = step]
Pass(r) == Go(r, After(req[r].order.route, req[r].step))
\* Nothing is remembered of a request that is over.
Idle == [order |-> CHOOSE o \in Orders : TRUE, step |-> "done", late |-> FALSE, paid |-> FALSE,
         row |-> 0]
End(r) == req' = [req EXCEPT ![r] = Idle]
\* An answer without a job: 4xx, 5xx, or none because the process died.
Refuse(r) == End(r) /\ UNCHANGED sold
\* A 201 answer that names the job i.
Sell(r, i) ==
  LET o == req[r].order IN
  /\ End(r)
  /\ sold' = sold \cup (IF o.key = NoKey THEN {} ELSE {<<o.buyer, o.key, i>>})

Init ==
  /\ jobs = <<>> /\ settled = {} /\ sold = {} /\ lost = 0
  /\ req = [r \in Requests |-> Idle]

-----------------------------------------------------------------------------
(* The handlers.                                                           *)

\* A request arrives; any number of them are retries of an earlier one.  late
\* records that its buyer had already bought a job with the key it carries.
Arrive(r, o) ==
  /\ At(r, "done")
  /\ req' = [req EXCEPT ![r] = [order |-> o, step |-> "lookup", paid |-> FALSE, row |-> 0,
                                late |-> OwnRows(o.buyer, o.key) # {}]]
  /\ UNCHANGED <<jobs, settled, sold, lost>>

\* The rows the key lookup finds: the service route asks for those of its buyer,
\* the jobs route for anybody's.
FoundFinished(o) == {i \in OwnRows(o.buyer, o.key) : jobs[i].status = "completed"}
FoundByKey(o) == KeyRows(o.key)
Found(o) == IF o.route = "service" THEN OwnRows(o.buyer, o.key) ELSE KeyRows(o.key)

\* The key lookup of the service and the jobs route.  The cached response is
\* written by the transaction that inserts the row, so that a row with a key
\* has one and the "already being processed" branch is not taken.
Lookup(r) ==
  LET o == req[r].order IN
  /\ At(r, "lookup") /\ o.route # "bridge"
  /\ \/ Found(o) = {} /\ Pass(r) /\ UNCHANGED sold
     \/ \E i \in Found(o) :
          \/ jobs[i].payload = o.payload /\ Sell(r, i)
          \/ jobs[i].payload # o.payload /\ Refuse(r)
  /\ UNCHANGED <<jobs, settled, lost>>

\* The query for the token among the rows of earlier purchases.
Replay(r) ==
  /\ At(r, "replay")
  /\ \/ TokenRows(req[r].order.token) = {} /\ Pass(r) /\ UNCHANGED sold
     \/ TokenRows(req[r].order.token) # {} /\ Refuse(r)
  /\ UNCHANGED <<jobs, settled, lost>>

\* A transaction that is on the ledger moves no money again: settleX402Payment
\* submits it to Horizon, which repeats its answer, or has the facilitator settle
\* it, which rejects it.
Repeats(t) == t \in settled /\ TRUE \in Resettles

\* settleX402Payment, submitAndVerifyPayment: the transaction reaches the ledger.
\* The handler may be told otherwise, or find that the operations are not what
\* the service asks (Fail).
Settle(r) ==
  LET t == req[r].order.token IN
  /\ At(r, "settle")
  /\ \/ /\ t \notin settled
        /\ settled' = settled \cup {t}
        /\ req' = [req EXCEPT ![r].step = After(req[r].order.route, "settle"), ![r].paid = TRUE]
     \/ Repeats(t) /\ Pass(r) /\ UNCHANGED settled
  /\ UNCHANGED <<jobs, sold, lost>>

\* fulfillInstant, when the service is instant.
Fulfil(r) == At(r, "fulfil") /\ Pass(r) /\ UNCHANGED <<jobs, settled, sold, lost>>

\* The unique indexes an insert may violate.
TokenConflicts(o) == {c \in {"token"} : TokenRows(o.token) # {}}
Conflicts(o) == TokenConflicts(o) \cup {c \in {"key"} : OwnRows(o.buyer, o.key) # {}}

NewJob(o) ==
  [buyer |-> o.buyer, key |-> o.key, token |-> o.token, payload |-> o.payload,
   status |-> IF o.bid THEN "negotiating" ELSE IF o.instant THEN "completed" ELSE "pending",
   booked |-> IF o.instant THEN 1 ELSE 0, bridged |-> FALSE]

\* The commit went through and the connection broke: withTransactionRetry runs the
\* transaction again.
CommitLost == lost < MaxLost /\ lost' = lost + 1 /\ UNCHANGED <<req, sold>>

\* The transaction that inserts the job, its revenue when it is instant, and the
\* cached response.
Insert(r) ==
  LET o == req[r].order IN
  /\ At(r, "insert") /\ Len(jobs) < MaxJobs
  /\ Conflicts(o) = {}
  /\ jobs' = Append(jobs, NewJob(o))
  /\ \/ Sell(r, Len(jobs) + 1) /\ UNCHANGED lost
     \/ CommitLost
  /\ UNCHANGED settled

\* Error 23505.  The service route reads the job of the key once more if that is
\* the index PostgreSQL names; every other case is a refusal.
Clash(r) ==
  LET o == req[r].order IN
  /\ At(r, "insert")
  /\ \E c \in Conflicts(o) :
       \/ c = "key" /\ o.route = "service" /\ Go(r, "reread") /\ UNCHANGED sold
       \/ (c = "token" \/ o.route # "service") /\ Refuse(r)
  /\ UNCHANGED <<jobs, settled, lost>>

\* The answer cached for the other request, whatever its payload was.  The row
\* is still there: its retention outlasts the request (Reclaim).
Reread(r) ==
  /\ At(r, "reread")
  /\ \E i \in OwnRows(req[r].order.buyer, req[r].order.key) : Sell(r, i)
  /\ UNCHANGED <<jobs, settled, lost>>

\* The process dies, a query or the fulfilment fails, or the transaction retries
\* are exhausted.  Validation, quota and payment terms refuse before settling.
Fail(r) ==
  /\ ~At(r, "done") /\ Refuse(r)
  /\ UNCHANGED <<jobs, settled, lost>>

-----------------------------------------------------------------------------
(* The cross-chain webhook: it reads the job, by its id or by the token,   *)
(* awaits the fulfilment, and saves by id whatever the row is by then.     *)

BridgeStatus(o) == IF o.instant THEN "completed" ELSE "pending"

\* row is the job that was read, 0 if there is none: the one the token names, or
\* the one the delivery names, whose buyer has to be the delivery's.  A job that is
\* completed, or already in the status the webhook would give it, is answered as it
\* is.
BridgeRead(r) ==
  LET o == req[r].order
      Settles(i) == jobs[i].status \in {"completed", BridgeStatus(o)} IN
  /\ At(r, "lookup") /\ o.route = "bridge"
  /\ \/ TokenRows(o.token) = {} /\ Go(r, "fulfil")
     \/ \E i \in DOMAIN jobs :
          /\ Present(i)
          /\ \/ TokenRows(o.token) = {i}
             \/ TokenRows(o.token) \subseteq {i} /\ jobs[i].buyer = o.buyer
          /\ \/ Settles(i) /\ End(r)
             \/ ~Settles(i) /\ req' = [req EXCEPT ![r].step = "fulfil", ![r].row = i]
  /\ UNCHANGED <<jobs, settled, sold, lost>>

\* The revenue of the webhook; the job it read was not completed.
BooksNew(o, read) == IF o.instant /\ read = 0 THEN 1 ELSE 0
Books(o, read) == IF o.instant THEN 1 ELSE 0

\* The fields the webhook writes, of a new row or over the one it read.
Bridged(o, row, read) ==
  [buyer |-> o.buyer, key |-> row.key, token |-> o.token, payload |-> o.payload,
   status |-> BridgeStatus(o), booked |-> row.booked + Books(o, read), bridged |-> TRUE]

BridgeSave(r) ==
  LET o == req[r].order
      i == req[r].row IN
  /\ At(r, "save")
  /\ TokenRows(o.token) \subseteq {i}
  /\ \/ /\ i = 0 /\ Len(jobs) < MaxJobs
        /\ jobs' = Append(jobs, Bridged(o, [NewJob(o) EXCEPT !.booked = 0], i))
     \/ /\ i \in DOMAIN jobs /\ Present(i) /\ jobs[i].booked < MaxBooked
        /\ jobs' = [jobs EXCEPT ![i] = Bridged(o, jobs[i], i)]
  /\ \/ End(r) /\ UNCHANGED <<sold, lost>>
     \/ CommitLost
  /\ UNCHANGED settled

-----------------------------------------------------------------------------
(* The rest of a row's life.                                               *)

\* POST /api/jobs/:id/result.
Complete(i) ==
  /\ jobs[i].status = "pending" /\ jobs[i].booked < MaxBooked
  /\ jobs' = [jobs EXCEPT ![i] = [jobs[i] EXCEPT !.status = "completed",
                                                 !.booked = jobs[i].booked + 1]]
  /\ UNCHANGED <<settled, req, sold, lost>>

\* Cancelled when its agent is paused, payment_failed by the reconciler.
Close(i) ==
  /\ jobs[i].status = "pending"
  /\ jobs' = [jobs EXCEPT ![i].status = "closed"]
  /\ UNCHANGED <<settled, req, sold, lost>>

\* cleanupExpiredIdempotencyKeys deletes completed rows that have a key.
Expired(i) == jobs[i].status = "completed" /\ jobs[i].key # NoKey

\* The retention is thirty days, a request takes seconds: none that carries the
\* key is still being served when its row expires.
Reclaim(i) ==
  /\ Expired(i)
  /\ \A r \in Requests : req[r].order.key = jobs[i].key => At(r, "done")
  /\ jobs' = [jobs EXCEPT ![i].status = "deleted"]
  /\ UNCHANGED <<settled, req, sold, lost>>

Next ==
  \/ \E r \in Requests :
       \/ \E o \in Orders : Arrive(r, o)
       \/ Lookup(r) \/ Replay(r) \/ Settle(r) \/ Fulfil(r)
       \/ Insert(r) \/ Clash(r) \/ Reread(r) \/ Fail(r)
       \/ BridgeRead(r) \/ BridgeSave(r)
  \/ \E i \in DOMAIN jobs : Complete(i) \/ Close(i) \/ Reclaim(i)

Spec == Init /\ [][Next]_vars

-----------------------------------------------------------------------------
TypeOK ==
  /\ jobs \in Seq(Job)
  /\ settled \subseteq Tokens
  /\ req \in [Requests -> Request]
  /\ sold \subseteq Buyers \X Keys \X Nat
  /\ lost \in Nat

\* A buyer's key buys one job: two 201 answers to requests of one buyer with the
\* same key name different jobs of that buyer only if the first had been
\* reclaimed, however the requests raced, died or were retried (partial unique
\* index, cached responses).
OneJobPerKey ==
  \A a, b \in sold :
    /\ a[1] = b[1] /\ a[2] = b[2] /\ a[3] < b[3]
    /\ jobs[a[3]].buyer = a[1] /\ jobs[b[3]].buyer = b[1]
    => ~Present(a[3])

\* An agent is answered with a job of its own, never with what another buyer
\* bought with the same key (keys are scoped per buyer, schema.ts).  People are
\* not: the jobs route looks its keys up among the rows of every buyer.
AgentsGetTheirOwn == \A a \in sold : a[1] \in Agents => jobs[a[3]].buyer = a[1]

\* A retry takes no money: a request that arrives when its buyer has already bought
\* a job with its key moves nothing on the ledger, although its token may be a new
\* one, and although the key may have bought jobs for others.
RetryIsFree == \A r \in Requests : req[r].late => ~req[r].paid

\* What is completed is booked, also when the webhook wrote it.  As long as the
\* webhook has not written a row, it is booked once, and only when it is completed
\* or an instant bid.  The webhook itself books again what it overwrites, and may
\* take a booked job back to pending.
BooksBalance ==
  \A i \in DOMAIN jobs :
    /\ jobs[i].status \in {"completed", "deleted"} => jobs[i].booked >= 1
    /\ ~jobs[i].bridged /\ jobs[i].booked >= 1 =>
         jobs[i].booked = 1 /\ jobs[i].status \in {"completed", "deleted", "negotiating"}
=============================================================================
