------------------------ MODULE CommercePurchaseProofs ------------------------
(***************************************************************************)
(* For any number of requests, orders, keys and tokens, and whichever of   *)
(* Horizon and the facilitator settles: a buyer's key buys one job, agents *)
(* are answered with their own, a late retry takes no money, and the books *)
(* agree with the jobs.                                                    *)
(***************************************************************************)
EXTENDS CommercePurchase, SequenceTheorems, TLAPS

\* Of two rows of one buyer's key the earlier has been reclaimed: the index
\* compares a new row with every row that is left.
KeysApart ==
  \A i, j \in DOMAIN jobs :
    i < j /\ jobs[i].buyer = jobs[j].buyer /\ jobs[i].key = jobs[j].key /\ jobs[i].key # NoKey
    => ~Present(i)

\* A 201 answer names a row of its own key, and an agent's a row of the agent.
SoldRows ==
  \A a \in sold : /\ a[3] \in DOMAIN jobs /\ jobs[a[3]].key = a[2]
                  /\ a[1] \in Agents => jobs[a[3]].buyer = a[1]

\* What the key of a late request bought is still there for its lookup to find:
\* a row is not reclaimed while its key is in use.
LateFinds ==
  \A r \in Requests : req[r].late =>
    /\ At(r, "lookup") /\ req[r].order.route # "bridge"
    /\ ~req[r].paid
    /\ OwnRows(req[r].order.buyer, req[r].order.key) # {}

\* BooksBalance, of one row.
Booked(row) ==
  /\ row.status \in {"completed", "deleted"} => row.booked >= 1
  /\ ~row.bridged /\ row.booked >= 1 =>
       row.booked = 1 /\ row.status \in {"completed", "deleted", "negotiating"}

\* Only the webhook saves.
SavesBridge == \A r \in Requests : At(r, "save") => req[r].order.route = "bridge"

\* A bridge's payment names one buyer, and so does the row that has its token.
PaidBy(row) == \A o \in Orders : o.route = "bridge" /\ o.token = row.token => row.buyer = o.buyer
BuyersFit == \A i \in DOMAIN jobs : PaidBy(jobs[i])

\* What the webhook read belongs to the buyer of the delivery: its save leaves a
\* row with its buyer.
ReadsFit ==
  \A r \in Requests : req[r].order.route = "bridge" /\ req[r].row # 0 =>
    req[r].row \in DOMAIN jobs /\ jobs[req[r].row].buyer = req[r].order.buyer

IInv ==
  /\ TypeOK /\ KeysApart /\ SoldRows /\ LateFinds /\ BooksBalance /\ SavesBridge
  /\ BuyersFit /\ ReadsFit

\* The two things a step may do to the table.
Grows(row) ==
  /\ jobs' = Append(jobs, row)
  /\ row \in Job /\ row.status # "deleted" /\ OwnRows(row.buyer, row.key) = {} /\ Booked(row)
  /\ PaidBy(row)
Rewrites(i, row) ==
  /\ i \in DOMAIN jobs /\ Present(i)
  /\ jobs' = [jobs EXCEPT ![i] = row]
  /\ row \in Job /\ row.key = jobs[i].key /\ row.buyer = jobs[i].buyer /\ Booked(row)
  /\ PaidBy(row)
  /\ row.status = "deleted" => \A r \in Requests : req[r].order.key = row.key => At(r, "done")

\* The one thing a step may do to the requests: only an arriving request is late.
Serves(r, q) ==
  /\ req' = [req EXCEPT ![r] = q]
  /\ q \in Request
  /\ q.late => /\ q.step = "lookup" /\ q.order.route # "bridge" /\ ~q.paid
               /\ jobs' = jobs /\ OwnRows(q.order.buyer, q.order.key) # {}
  /\ q.step = "save" => q.order.route = "bridge"
  /\ q.order.route = "bridge" /\ q.row # 0 =>
       q.row \in DOMAIN jobs /\ jobs[q.row].buyer = q.order.buyer

\* Between two requests nothing is late and nothing is pending.
LEMMA IdleIsRequest == Idle \in Request /\ ~Idle.late /\ Idle.step = "done" /\ Idle.row = 0
<1>1. (CHOOSE o \in Orders : TRUE) \in Orders
  BY OrdersAssumption
<1> QED
  BY <1>1 DEF Idle, Request, Steps

\* The fields of an order.
LEMMA OrdersTyped ==
  ASSUME NEW o \in Orders
  PROVE  /\ o.route \in Routes /\ o.buyer \in Buyers /\ o.token \in Tokens /\ o.key \in Keys \cup {NoKey}
         /\ o.payload \in Payloads /\ o.bid \in BOOLEAN /\ o.instant \in BOOLEAN
BY OrdersAssumption DEF OrderType

\* The row a purchase inserts is booked as its status asks.
LEMMA NewJobFits ==
  ASSUME NEW o \in Orders
  PROVE  /\ NewJob(o) \in Job /\ NewJob(o).key = o.key /\ NewJob(o).buyer = o.buyer
         /\ NewJob(o).status # "deleted" /\ Booked(NewJob(o)) /\ PaidBy(NewJob(o))
<1>1. /\ NewJob(o) \in Job /\ NewJob(o).key = o.key /\ NewJob(o).buyer = o.buyer
      /\ NewJob(o).token = o.token /\ NewJob(o).status # "deleted" /\ Booked(NewJob(o))
  BY OrdersTyped DEF NewJob, Job, Statuses, Booked
<1>2. PaidBy(NewJob(o))
  BY <1>1, BridgesAssumption DEF PaidBy
<1> QED
  BY <1>1, <1>2

\* The row the webhook saves, new or over the one it read.
LEMMA BridgedFits ==
  ASSUME NEW o \in Orders, NEW row \in Job, NEW read
  PROVE  /\ Bridged(o, row, read) \in Job /\ Bridged(o, row, read).key = row.key
         /\ Bridged(o, row, read).buyer = o.buyer
         /\ Bridged(o, row, read).status # "deleted" /\ Booked(Bridged(o, row, read))
         /\ PaidBy(Bridged(o, row, read))
<1>1. row.booked + Books(o, read) \in Nat /\ (o.instant => row.booked + Books(o, read) >= 1)
  BY DEF Job, Books
<1>2. BridgeStatus(o) \in {"completed", "pending"} /\ (BridgeStatus(o) = "completed" => o.instant)
  BY OrdersTyped DEF BridgeStatus
<1>3. row.key \in Keys \cup {NoKey}
  BY DEF Job
<1>4. Bridged(o, row, read) \in Job
  BY <1>1, <1>2, <1>3, OrdersTyped DEF Bridged, Job, Statuses
<1>5. PaidBy(Bridged(o, row, read))
  BY BridgesAssumption DEF PaidBy, Bridged
<1> QED
  BY <1>1, <1>2, <1>4, <1>5 DEF Bridged, Booked

\* The index is partial: rows without a key are not compared.
LEMMA NoKeyHasNoRows == \A b : OwnRows(b, NoKey) = {}
BY DEF OwnRows, KeyRows

\* A step leaves the table, adds a row or rewrites one.
LEMMA TableStep ==
  ASSUME IInv, Next
  PROVE  \/ jobs' = jobs
         \/ \E row : Grows(row)
         \/ \E i, row : Rewrites(i, row)
<1> USE DEF IInv, TypeOK
<1>a. \A i \in DOMAIN jobs : jobs[i] \in Job
  BY ElementOfSeq, LenProperties
<1>b. \A r \in Requests : req[r].order \in Orders
  BY DEF Request
<1>c. \A i \in DOMAIN jobs : i # 0
  BY LenProperties
<1>1. ASSUME NEW r \in Requests, Insert(r)
      PROVE  \E row : Grows(row)
  <2>1. OwnRows(req[r].order.buyer, req[r].order.key) = {}
    BY <1>1 DEF Insert, Conflicts
  <2>2. Grows(NewJob(req[r].order))
    BY <1>1, <1>b, <2>1, NewJobFits DEF Insert, Grows
  <2> QED
    BY <2>2
<1>2. ASSUME NEW r \in Requests, BridgeSave(r)
      PROVE  \/ \E row : Grows(row)
             \/ \E i, row : Rewrites(i, row)
  <2> DEFINE o == req[r].order
             new == [NewJob(o) EXCEPT !.booked = 0]
  <2>1. o \in Orders /\ o.route = "bridge" /\ o.key = NoKey
    BY <1>2, <1>b, RoutesAssumption DEF BridgeSave, SavesBridge
  <2>2. new \in Job /\ new.key = NoKey
    BY <2>1, NewJobFits DEF Job
  <2>3. CASE /\ jobs' = Append(jobs, Bridged(o, new, req[r].row))
    <3> DEFINE b == Bridged(o, new, req[r].row)
    <3>1. b \in Job /\ b.key = NoKey /\ b.status # "deleted" /\ Booked(b) /\ PaidBy(b)
      BY <2>1, <2>2, BridgedFits
    <3>2. Grows(b)
      BY <2>3, <3>1, NoKeyHasNoRows DEF Grows
    <3> QED
      BY <3>2
  <2>4. CASE /\ req[r].row \in DOMAIN jobs /\ Present(req[r].row)
             /\ jobs' = [jobs EXCEPT ![req[r].row] = Bridged(o, jobs[req[r].row], req[r].row)]
    <3> DEFINE i == req[r].row
               b == Bridged(o, jobs[i], i)
    <3>0. i # 0 /\ jobs[i].buyer = o.buyer
      BY <2>1, <2>4, <1>c DEF ReadsFit
    <3>1. b \in Job /\ b.key = jobs[i].key /\ b.buyer = o.buyer /\ b.status # "deleted"
          /\ Booked(b) /\ PaidBy(b)
      BY <2>1, <2>4, <1>a, BridgedFits
    <3>2. Rewrites(i, b)
      BY <2>4, <3>0, <3>1 DEF Rewrites
    <3> QED
      BY <3>2
  <2> QED
    BY <1>2, <2>3, <2>4 DEF BridgeSave
<1>3. ASSUME NEW i \in DOMAIN jobs, Complete(i)
      PROVE  \E row : Rewrites(i, row)
  <2> DEFINE row == [jobs[i] EXCEPT !.status = "completed", !.booked = jobs[i].booked + 1]
  <2>1. jobs[i] \in Job /\ jobs[i].status = "pending" /\ Booked(jobs[i])
    BY <1>3, <1>a DEF Complete, BooksBalance, Booked
  <2>0. PaidBy(jobs[i])
    BY DEF BuyersFit
  <2>2. jobs[i].booked + 1 \in Nat /\ jobs[i].booked + 1 >= 1
    BY <2>1 DEF Job
  <2>3. row \in Job /\ row.key = jobs[i].key /\ row.status = "completed"
        /\ row.booked = jobs[i].booked + 1 /\ row.bridged = jobs[i].bridged
        /\ row.buyer = jobs[i].buyer /\ row.token = jobs[i].token
    BY <2>1, <2>2 DEF Job, Statuses
  <2>4. ~row.bridged => row.booked = 1
    BY <2>1, <2>3 DEF Booked, Job
  <2>5. Booked(row)
    BY <2>2, <2>3, <2>4 DEF Booked
  <2>6. PaidBy(row)
    BY <2>0, <2>3 DEF PaidBy
  <2> QED
    BY <1>3, <2>1, <2>3, <2>5, <2>6 DEF Complete, Rewrites, Present
<1>4. ASSUME NEW i \in DOMAIN jobs, Close(i)
      PROVE  \E row : Rewrites(i, row)
  <2> DEFINE row == [jobs[i] EXCEPT !.status = "closed"]
  <2>1. jobs[i] \in Job /\ jobs[i].status = "pending" /\ Booked(jobs[i])
    BY <1>4, <1>a DEF Close, BooksBalance, Booked
  <2>2. row \in Job /\ row.key = jobs[i].key /\ row.status = "closed"
        /\ row.booked = jobs[i].booked /\ row.bridged = jobs[i].bridged
        /\ row.buyer = jobs[i].buyer /\ row.token = jobs[i].token
    BY <2>1 DEF Job, Statuses
  <2>3. Booked(row)
    BY <2>1, <2>2 DEF Booked
  <2>4. jobs' = [jobs EXCEPT ![i] = row]
    BY <1>4 DEF Close
  <2>5. PaidBy(row)
    BY <2>2 DEF BuyersFit, PaidBy
  <2> QED
    BY <2>1, <2>2, <2>3, <2>4, <2>5 DEF Rewrites, Present
<1>5. ASSUME NEW i \in DOMAIN jobs, Reclaim(i)
      PROVE  \E row : Rewrites(i, row)
  <2> DEFINE row == [jobs[i] EXCEPT !.status = "deleted"]
  <2>1. jobs[i] \in Job /\ jobs[i].status = "completed" /\ Booked(jobs[i])
    BY <1>5, <1>a DEF Reclaim, Expired, BooksBalance, Booked
  <2>2. row \in Job /\ row.key = jobs[i].key /\ row.status = "deleted"
        /\ row.booked = jobs[i].booked /\ row.bridged = jobs[i].bridged
        /\ row.buyer = jobs[i].buyer /\ row.token = jobs[i].token
    BY <2>1 DEF Job, Statuses
  <2>3. Booked(row)
    BY <2>1, <2>2 DEF Booked
  <2>4. jobs' = [jobs EXCEPT ![i] = row]
    BY <1>5 DEF Reclaim
  <2>5. \A r \in Requests : req[r].order.key = row.key => At(r, "done")
    BY <1>5, <2>2 DEF Reclaim
  <2>6. PaidBy(row)
    BY <2>2 DEF BuyersFit, PaidBy
  <2>7. Rewrites(i, row)
    BY <2>1, <2>2, <2>3, <2>4, <2>5, <2>6 DEF Rewrites, Present
  <2> QED
    BY <2>7
<1>6. ASSUME NEW r \in Requests,
             \/ \E o \in Orders : Arrive(r, o)
             \/ Lookup(r) \/ Replay(r) \/ Settle(r) \/ Fulfil(r)
             \/ Clash(r) \/ Reread(r) \/ Fail(r) \/ BridgeRead(r)
      PROVE  jobs' = jobs
  BY <1>6 DEF Arrive, Lookup, Replay, Settle, Fulfil, Clash, Reread, Fail, BridgeRead
<1> QED
  BY <1>1, <1>2, <1>3, <1>4, <1>5, <1>6 DEF Next

\* Only the webhook goes on to its save.
LEMMA AfterIsStep ==
  ASSUME NEW route, NEW step
  PROVE  /\ After(route, step) \in Steps
         /\ After(route, step) = "save" => route = "bridge"
BY DEF After, Steps

\* A handler that goes on, or is over.
LEMMA GoingOn ==
  ASSUME NEW r \in Requests, TypeOK, ReadsFit, ~req[r].late, NEW step \in Steps,
         step = "save" => req[r].order.route = "bridge", Go(r, step)
  PROVE  \E q : Serves(r, q)
<1> DEFINE q == [req[r] EXCEPT !.step = step]
<1>1. req[r] \in Request
  BY DEF TypeOK
<1>2. q \in Request /\ ~q.late /\ q.step = step /\ q.order = req[r].order /\ q.row = req[r].row
  BY <1>1 DEF Request
<1>3. req' = [req EXCEPT ![r] = q]
  BY DEF Go
<1>4. Serves(r, q)
  BY <1>2, <1>3 DEF Serves, ReadsFit
<1> QED
  BY <1>4

\* A handler that is over forgets its request.
LEMMA Ending ==
  ASSUME NEW r \in Requests, End(r)
  PROVE  \E q : Serves(r, q)
<1>1. Serves(r, Idle)
  BY IdleIsRequest DEF End, Serves
<1> QED
  BY <1>1

\* A step leaves the requests, or serves one.
LEMMA RequestStep ==
  ASSUME IInv, Next
  PROVE  req' = req \/ \E r \in Requests : \E q : Serves(r, q)
<1> USE DEF IInv
<1>a. \A r \in Requests : req[r] \in Request /\ req[r].order \in Orders
  BY DEF TypeOK, Request
<1>b. \A r \in Requests : ~At(r, "lookup") => ~req[r].late
  BY DEF LateFinds
<1>1. ASSUME NEW r \in Requests, NEW o \in Orders, Arrive(r, o)
      PROVE  \E q : Serves(r, q)
  <2> DEFINE q == [order |-> o, step |-> "lookup", paid |-> FALSE, row |-> 0,
                   late |-> OwnRows(o.buyer, o.key) # {}]
  <2>1. q \in Request
    BY DEF Request, Steps
  <2>2. q.late => o.route # "bridge"
    BY NoKeyHasNoRows, RoutesAssumption
  <2>3. Serves(r, q)
    BY <1>1, <2>1, <2>2 DEF Arrive, Serves
  <2> QED
    BY <2>3
<1>2. ASSUME NEW r \in Requests, ~req[r].late, Pass(r)
      PROVE  \E q : Serves(r, q)
  BY <1>2, GoingOn, AfterIsStep DEF Pass
<1>3. ASSUME NEW r \in Requests, Lookup(r)
      PROVE  \E q : Serves(r, q)
  <2>1. CASE Found(req[r].order) = {} /\ Pass(r)
    BY <2>1, <1>2 DEF Found, OwnRows, LateFinds
  <2>2. CASE End(r)
    BY <2>2, Ending
  <2> QED
    BY <1>3, <2>1, <2>2 DEF Lookup, Sell, Refuse
<1>4. ASSUME NEW r \in Requests, Replay(r)
      PROVE  \E q : Serves(r, q)
  <2>1. ~req[r].late
    BY <1>4, <1>b DEF Replay, At
  <2>2. Pass(r) \/ End(r)
    BY <1>4 DEF Replay, Refuse
  <2> QED
    BY <2>1, <2>2, <1>2, Ending
<1>5. ASSUME NEW r \in Requests, Settle(r)
      PROVE  \E q : Serves(r, q)
  <2>1. ~req[r].late
    BY <1>5, <1>b DEF Settle, At
  <2>2. CASE Pass(r)
    BY <2>1, <2>2, <1>2
  <2>3. CASE req' = [req EXCEPT ![r].step = After(req[r].order.route, "settle"), ![r].paid = TRUE]
    <3> DEFINE q == [req[r] EXCEPT !.step = After(req[r].order.route, "settle"), !.paid = TRUE]
    <3>1. q \in Request /\ ~q.late /\ q.order = req[r].order /\ q.row = req[r].row
          /\ q.step = After(req[r].order.route, "settle")
      BY <2>1, <1>a, AfterIsStep DEF Request
    <3>2. req' = [req EXCEPT ![r] = q]
      BY <2>3
    <3>3. Serves(r, q)
      BY <3>1, <3>2, AfterIsStep DEF Serves, ReadsFit
    <3> QED
      BY <3>3
  <2> QED
    BY <1>5, <2>2, <2>3 DEF Settle
<1>6. ASSUME NEW r \in Requests, Fulfil(r)
      PROVE  \E q : Serves(r, q)
  BY <1>6, <1>b, <1>2 DEF Fulfil, At
<1>7. ASSUME NEW r \in Requests, Insert(r)
      PROVE  req' = req \/ \E q : Serves(r, q)
  BY <1>7, Ending DEF Insert, Sell, CommitLost
<1>8. ASSUME NEW r \in Requests, Clash(r)
      PROVE  \E q : Serves(r, q)
  <2>1. ~req[r].late
    BY <1>8, <1>b DEF Clash, At
  <2>2. Go(r, "reread") \/ End(r)
    BY <1>8 DEF Clash, Refuse
  <2>3. "reread" \in Steps
    BY DEF Steps
  <2> QED
    BY <2>1, <2>2, <2>3, GoingOn, Ending
<1>9. ASSUME NEW r \in Requests, Reread(r) \/ Fail(r) \/ BridgeSave(r)
      PROVE  req' = req \/ \E q : Serves(r, q)
  BY <1>9, Ending DEF Reread, Fail, BridgeSave, Sell, Refuse, CommitLost
<1>10. ASSUME NEW r \in Requests, BridgeRead(r)
       PROVE  \E q : Serves(r, q)
  <2>1. ~req[r].late
    BY <1>10 DEF BridgeRead, LateFinds
  <2>2. "fulfil" \in Steps
    BY DEF Steps
  <2>3. CASE Go(r, "fulfil")
    BY <2>1, <2>2, <2>3, GoingOn
  <2>4. CASE End(r)
    BY <2>4, Ending
  <2>5. ASSUME NEW i \in DOMAIN jobs, req' = [req EXCEPT ![r].step = "fulfil", ![r].row = i],
               TokenRows(req[r].order.token) = {i} \/ jobs[i].buyer = req[r].order.buyer
        PROVE  \E q : Serves(r, q)
    <3> DEFINE q == [req[r] EXCEPT !.step = "fulfil", !.row = i]
    <3>0. i \in Nat
      BY LenProperties DEF TypeOK
    <3>1. q \in Request /\ ~q.late /\ q.order = req[r].order /\ q.step = "fulfil" /\ q.row = i
      BY <2>1, <2>2, <1>a, <3>0 DEF Request
    <3>2. req' = [req EXCEPT ![r] = q]
      BY <2>5
    <3>3. TokenRows(req[r].order.token) = {i} => jobs[i].token = req[r].order.token
      BY DEF TokenRows
    <3>4. req[r].order.route = "bridge"
      BY <1>10 DEF BridgeRead
    <3>5. jobs[i].buyer = req[r].order.buyer
      BY <2>5, <3>3, <3>4, <1>a DEF BuyersFit, PaidBy
    <3>6. Serves(r, q)
      BY <3>1, <3>2, <3>5 DEF Serves
    <3> QED
      BY <3>6
  <2> QED
    BY <1>10, <2>3, <2>4, <2>5 DEF BridgeRead
<1>11. ASSUME NEW i \in DOMAIN jobs, Complete(i) \/ Close(i) \/ Reclaim(i)
       PROVE  req' = req
  BY <1>11 DEF Complete, Close, Reclaim
<1> QED
  BY <1>1, <1>3, <1>4, <1>5, <1>6, <1>7, <1>8, <1>9, <1>10, <1>11 DEF Next

\* What the table is after a row was added, or rewritten.
LEMMA GrownTable ==
  ASSUME TypeOK, NEW row, Grows(row)
  PROVE  /\ jobs' \in Seq(Job)
         /\ DOMAIN jobs' = DOMAIN jobs \cup {Len(jobs) + 1}
         /\ \A i \in DOMAIN jobs : jobs'[i] = jobs[i] /\ i < Len(jobs) + 1
         /\ jobs'[Len(jobs) + 1] = row
<1>1. jobs \in Seq(Job) /\ row \in Job /\ jobs' = Append(jobs, row)
  BY DEF TypeOK, Grows
<1>2. Len(jobs) \in Nat /\ DOMAIN jobs = 1 .. Len(jobs)
  BY <1>1, LenProperties
<1>3. jobs' \in Seq(Job) /\ Len(jobs') = Len(jobs) + 1
  BY <1>1, AppendProperties
<1>4. DOMAIN jobs' = 1 .. Len(jobs) + 1
  BY <1>3, LenProperties
<1>5. /\ \A i \in 1 .. Len(jobs) : jobs'[i] = jobs[i]
      /\ jobs'[Len(jobs) + 1] = row
  BY <1>1, AppendProperties
<1> QED
  BY <1>2, <1>3, <1>4, <1>5

\* A rewritten row is where it was, with its key; the others are what they were.
LEMMA RewrittenTable ==
  ASSUME TypeOK, NEW i, NEW row, Rewrites(i, row)
  PROVE  /\ jobs' \in Seq(Job)
         /\ DOMAIN jobs' = DOMAIN jobs
         /\ \A j \in DOMAIN jobs : jobs'[j] = IF j = i THEN row ELSE jobs[j]
<1>1. jobs \in Seq(Job) /\ row \in Job /\ i \in DOMAIN jobs /\ jobs' = [jobs EXCEPT ![i] = row]
  BY DEF TypeOK, Rewrites
<1>2. DOMAIN jobs = 1 .. Len(jobs)
  BY <1>1, LenProperties
<1> QED
  BY <1>1, <1>2, ExceptSeq

\* Whatever the step: rows keep their place, their buyer and their key, and what
\* has been reclaimed stays so.
LEMMA RowsKept ==
  ASSUME IInv, Next
  PROVE  /\ jobs' \in Seq(Job)
         /\ \A i \in DOMAIN jobs : /\ i \in DOMAIN jobs' /\ jobs'[i].key = jobs[i].key
                                   /\ jobs'[i].buyer = jobs[i].buyer
                                   /\ ~Present(i) => ~Present(i)'
<1> USE DEF IInv
<1>1. CASE jobs' = jobs
  BY <1>1 DEF TypeOK, Present
<1>2. ASSUME NEW row, Grows(row)
      PROVE  /\ jobs' \in Seq(Job)
             /\ \A i \in DOMAIN jobs : /\ i \in DOMAIN jobs' /\ jobs'[i].key = jobs[i].key
                                       /\ jobs'[i].buyer = jobs[i].buyer
                                       /\ ~Present(i) => ~Present(i)'
  BY <1>2, GrownTable DEF Present
<1>3. ASSUME NEW j, NEW row, Rewrites(j, row)
      PROVE  /\ jobs' \in Seq(Job)
             /\ \A i \in DOMAIN jobs : /\ i \in DOMAIN jobs' /\ jobs'[i].key = jobs[i].key
                                       /\ jobs'[i].buyer = jobs[i].buyer
                                       /\ ~Present(i) => ~Present(i)'
  <2>1. row.key = jobs[j].key /\ row.buyer = jobs[j].buyer /\ Present(j)
    BY <1>3 DEF Rewrites
  <2> QED
    BY <1>3, <2>1, RewrittenTable DEF Present
<1> QED
  BY <1>1, <1>2, <1>3, TableStep

\* A 201 answer is added with the row it names, and an agent's row is its own.
LEMMA SoldStep ==
  ASSUME IInv, Next
  PROVE  \/ sold' = sold
         \/ \E b \in Buyers, k \in Keys, i \in Nat :
              /\ sold' = sold \cup {<<b, k, i>>}
              /\ i \in DOMAIN jobs' /\ jobs'[i].key = k
              /\ b \in Agents => jobs'[i].buyer = b
<1> USE DEF IInv
<1> DEFINE Names(o, i) ==
             /\ i \in DOMAIN jobs' /\ jobs'[i].key = o.key
             /\ o.buyer \in Agents => jobs'[i].buyer = o.buyer
           Answered == \E b \in Buyers, k \in Keys, i \in Nat :
                         /\ sold' = sold \cup {<<b, k, i>>}
                         /\ i \in DOMAIN jobs' /\ jobs'[i].key = k
                         /\ b \in Agents => jobs'[i].buyer = b
<1>a. \A r \in Requests : req[r].order \in Orders
  BY DEF TypeOK, Request
<1>b. \A i \in DOMAIN jobs : i \in Nat
  BY LenProperties DEF TypeOK
<1>1. ASSUME NEW r \in Requests, NEW i \in Nat, Sell(r, i), Names(req[r].order, i)
      PROVE  sold' = sold \/ Answered
  <2>1. CASE req[r].order.key = NoKey
    BY <1>1, <2>1 DEF Sell
  <2>2. CASE req[r].order.key # NoKey
    <3>1. req[r].order.key \in Keys /\ req[r].order.buyer \in Buyers
      BY <1>a, <2>2, OrdersTyped
    <3>2. sold' = sold \cup {<<req[r].order.buyer, req[r].order.key, i>>}
      BY <1>1, <2>2 DEF Sell
    <3> QED
      BY <1>1, <3>1, <3>2
  <2> QED
    BY <2>1, <2>2
<1>2. ASSUME NEW r \in Requests, Lookup(r)
      PROVE  sold' = sold \/ \E i \in Nat : Sell(r, i) /\ Names(req[r].order, i)
  <2> DEFINE o == req[r].order
  <2>1. jobs' = jobs /\ o.route # "bridge"
    BY <1>2 DEF Lookup
  <2>2. o \in Orders /\ o.route \in Routes
    BY <1>a, OrdersTyped
  <2>3. ASSUME NEW i \in Found(o)
        PROVE  i \in Nat /\ Names(o, i)
    <3>1. i \in DOMAIN jobs /\ jobs[i].key = o.key
      BY <2>3 DEF Found, OwnRows, KeyRows
    <3>2. CASE o.route = "service"
      BY <2>1, <2>3, <3>1, <3>2, <1>b DEF Found, OwnRows
    <3>3. CASE o.route # "service"
      <4>1. o.buyer \notin Agents
        BY <2>1, <2>2, <3>3, RoutesAssumption DEF Routes
      <4> QED
        BY <2>1, <3>1, <4>1, <1>b
    <3> QED
      BY <3>2, <3>3
  <2> HIDE DEF Names
  <2> QED
    BY <1>2, <2>3 DEF Lookup, Refuse
<1>3. ASSUME NEW r \in Requests, Reread(r)
      PROVE  \E i \in Nat : Sell(r, i) /\ Names(req[r].order, i)
  BY <1>3, <1>b DEF Reread, OwnRows, KeyRows
<1>4. ASSUME NEW r \in Requests, Insert(r)
      PROVE  sold' = sold \/ \E i \in Nat : Sell(r, i) /\ Names(req[r].order, i)
  <2>1. OwnRows(req[r].order.buyer, req[r].order.key) = {}
    BY <1>4 DEF Insert, Conflicts
  <2>2. Grows(NewJob(req[r].order))
    BY <1>4, <1>a, <2>1, NewJobFits DEF Insert, Grows
  <2>3. Names(req[r].order, Len(jobs) + 1)
    BY <1>a, <2>2, NewJobFits, GrownTable
  <2>4. Len(jobs) + 1 \in Nat
    BY LenProperties DEF TypeOK
  <2> HIDE DEF Names
  <2> QED
    BY <1>4, <2>3, <2>4 DEF Insert, CommitLost
<1>5. ASSUME NEW r \in Requests,
             \/ \E o \in Orders : Arrive(r, o)
             \/ Replay(r) \/ Settle(r) \/ Fulfil(r) \/ Clash(r) \/ Fail(r)
             \/ BridgeRead(r) \/ BridgeSave(r)
      PROVE  sold' = sold
  BY <1>5 DEF Arrive, Replay, Settle, Fulfil, Clash, Fail, BridgeRead, BridgeSave, Refuse,
              CommitLost
<1>6. ASSUME NEW i \in DOMAIN jobs, Complete(i) \/ Close(i) \/ Reclaim(i)
      PROVE  sold' = sold
  BY <1>6 DEF Complete, Close, Reclaim
<1>7. ASSUME NEW r \in Requests, Lookup(r) \/ Reread(r) \/ Insert(r)
      PROVE  sold' = sold \/ Answered
  <2> HIDE DEF Names, Answered
  <2> QED
    BY <1>1, <1>2, <1>3, <1>4, <1>7
<1> QED
  BY <1>5, <1>6, <1>7 DEF Next

\* The conjuncts of IInv, one by one.
LEMMA TypesKept ==
  ASSUME IInv, Next
  PROVE  TypeOK'
<1> USE DEF IInv
<1>1. jobs' \in Seq(Job)
  BY RowsKept
<1>2. settled' \subseteq Tokens
  <2>1. ASSUME NEW r \in Requests, Settle(r)
        PROVE  settled' \subseteq Tokens
    BY <2>1, OrdersTyped DEF Settle, TypeOK, Request
  <2>2. ASSUME NEW r \in Requests,
               \/ \E o \in Orders : Arrive(r, o)
               \/ Lookup(r) \/ Replay(r) \/ Fulfil(r) \/ Insert(r) \/ Clash(r)
               \/ Reread(r) \/ Fail(r) \/ BridgeRead(r) \/ BridgeSave(r)
        PROVE  settled' = settled
    BY <2>2 DEF Arrive, Lookup, Replay, Fulfil, Insert, Clash, Reread, Fail, BridgeRead,
                BridgeSave
  <2>3. ASSUME NEW i \in DOMAIN jobs, Complete(i) \/ Close(i) \/ Reclaim(i)
        PROVE  settled' = settled
    BY <2>3 DEF Complete, Close, Reclaim
  <2> QED
    BY <2>1, <2>2, <2>3 DEF Next, TypeOK
<1>3. req' \in [Requests -> Request]
  BY RequestStep DEF TypeOK, Serves
<1>4. sold' \subseteq Buyers \X Keys \X Nat
  BY SoldStep DEF TypeOK
<1>5. lost' \in Nat
  <2>1. ASSUME NEW r \in Requests, Insert(r) \/ BridgeSave(r)
        PROVE  lost' \in Nat
    BY <2>1 DEF Insert, BridgeSave, CommitLost, TypeOK
  <2>2. ASSUME NEW r \in Requests,
               \/ \E o \in Orders : Arrive(r, o)
               \/ Lookup(r) \/ Replay(r) \/ Settle(r) \/ Fulfil(r) \/ Clash(r)
               \/ Reread(r) \/ Fail(r) \/ BridgeRead(r)
        PROVE  lost' = lost
    BY <2>2 DEF Arrive, Lookup, Replay, Settle, Fulfil, Clash, Reread, Fail, BridgeRead
  <2>3. ASSUME NEW i \in DOMAIN jobs, Complete(i) \/ Close(i) \/ Reclaim(i)
        PROVE  lost' = lost
    BY <2>3 DEF Complete, Close, Reclaim
  <2> QED
    BY <2>1, <2>2, <2>3 DEF Next, TypeOK
<1> QED
  BY <1>1, <1>2, <1>3, <1>4, <1>5 DEF TypeOK

\* The index lets no second row with a key in while the first is left.
LEMMA KeysStayApart ==
  ASSUME IInv, Next
  PROVE  KeysApart'
<1> USE DEF IInv
<1>1. CASE jobs' = jobs
  BY <1>1 DEF KeysApart, Present
<1>2. ASSUME NEW row, Grows(row)
      PROVE  KeysApart'
  <2>1. \A i \in DOMAIN jobs :
          jobs[i].buyer = row.buyer /\ jobs[i].key = row.key /\ row.key # NoKey => ~Present(i)
    BY <1>2 DEF Grows, OwnRows, KeyRows
  <2>2. Len(jobs) \in Nat /\ DOMAIN jobs = 1 .. Len(jobs)
    BY LenProperties DEF TypeOK
  <2> SUFFICES ASSUME NEW i \in DOMAIN jobs', NEW j \in DOMAIN jobs',
                      i < j, jobs'[i].buyer = jobs'[j].buyer,
                      jobs'[i].key = jobs'[j].key, jobs'[i].key # NoKey
               PROVE  jobs'[i].status = "deleted"
    BY DEF KeysApart, Present
  <2>3. i \in DOMAIN jobs /\ jobs'[i] = jobs[i]
    BY <1>2, <2>2, GrownTable
  <2>4. CASE j \in DOMAIN jobs
    BY <1>2, <2>3, <2>4, GrownTable DEF KeysApart, Present
  <2>5. CASE j = Len(jobs) + 1
    BY <1>2, <2>1, <2>3, <2>5, GrownTable DEF Present
  <2> QED
    BY <1>2, <2>4, <2>5, GrownTable
<1>3. ASSUME NEW j, NEW row, Rewrites(j, row)
      PROVE  KeysApart'
  <2>1. row.key = jobs[j].key /\ row.buyer = jobs[j].buyer /\ Present(j)
    BY <1>3 DEF Rewrites
  <2>2. /\ DOMAIN jobs' = DOMAIN jobs
        /\ \A i \in DOMAIN jobs : jobs'[i].key = jobs[i].key /\ jobs'[i].buyer = jobs[i].buyer
    BY <1>3, <2>1, RewrittenTable
  <2>3. \A i \in DOMAIN jobs : jobs[i].status = "deleted" => jobs'[i].status = "deleted"
    BY <1>3, <2>1, RewrittenTable DEF Present
  <2> QED
    BY <2>2, <2>3 DEF KeysApart, Present
<1> QED
  BY <1>1, <1>2, <1>3, TableStep

\* Rows are never moved, renamed or given to another buyer.
LEMMA SoldRowsStay ==
  ASSUME IInv, Next
  PROVE  SoldRows'
<1>1. \A a \in sold : /\ a[3] \in DOMAIN jobs' /\ jobs'[a[3]].key = a[2]
                      /\ a[1] \in Agents => jobs'[a[3]].buyer = a[1]
  BY RowsKept DEF IInv, SoldRows
<1> QED
  BY <1>1, SoldStep DEF SoldRows

\* Every row added or written is booked as its status asks.
LEMMA BooksStayBalanced ==
  ASSUME IInv, Next
  PROVE  BooksBalance'
<1> USE DEF IInv
<1>0. \A i \in DOMAIN jobs : Booked(jobs[i])
  BY DEF BooksBalance, Booked
<1>1. CASE jobs' = jobs
  BY <1>1 DEF BooksBalance
<1>2. ASSUME NEW row, Grows(row)
      PROVE  \A i \in DOMAIN jobs' : Booked(jobs'[i])
  BY <1>0, <1>2, GrownTable DEF Grows
<1>3. ASSUME NEW j, NEW row, Rewrites(j, row)
      PROVE  \A i \in DOMAIN jobs' : Booked(jobs'[i])
  BY <1>0, <1>3, RewrittenTable DEF Rewrites
<1>4. (\A i \in DOMAIN jobs' : Booked(jobs'[i])) => BooksBalance'
  BY DEF BooksBalance, Booked
<1> QED
  BY <1>1, <1>2, <1>3, <1>4, TableStep

\* Every row added or written has the buyer of its payment.
LEMMA BuyersStayFit ==
  ASSUME IInv, Next
  PROVE  BuyersFit'
<1> USE DEF IInv
<1>1. CASE jobs' = jobs
  BY <1>1 DEF BuyersFit, PaidBy
<1>2. ASSUME NEW row, Grows(row)
      PROVE  \A i \in DOMAIN jobs' : PaidBy(jobs'[i])
  BY <1>2, GrownTable DEF Grows, BuyersFit
<1>3. ASSUME NEW j, NEW row, Rewrites(j, row)
      PROVE  \A i \in DOMAIN jobs' : PaidBy(jobs'[i])
  BY <1>3, RewrittenTable DEF Rewrites, BuyersFit
<1>4. (\A i \in DOMAIN jobs' : PaidBy(jobs'[i])) => BuyersFit'
  BY DEF BuyersFit, PaidBy
<1> QED
  BY <1>1, <1>2, <1>3, <1>4, TableStep

\* The row the webhook read keeps its buyer until the webhook saves it.
LEMMA ReadsStayFit ==
  ASSUME IInv, Next
  PROVE  ReadsFit'
<1> USE DEF IInv
<1> DEFINE Reads(q) == q.order.route = "bridge" /\ q.row # 0 =>
                         q.row \in DOMAIN jobs /\ jobs[q.row].buyer = q.order.buyer
<1>1. ASSUME NEW r \in Requests
      PROVE  Reads(req'[r])
  <2>1. Reads(req[r])
    BY DEF ReadsFit
  <2>2. ASSUME NEW s \in Requests, NEW q, Serves(s, q)
        PROVE  req'[r] = IF r = s THEN q ELSE req[r]
    BY <2>2 DEF Serves, TypeOK
  <2>3. ASSUME NEW s \in Requests, NEW q, Serves(s, q)
        PROVE  Reads(q)
    BY <2>3 DEF Serves
  <2> HIDE DEF Reads
  <2> QED
    BY <2>1, <2>2, <2>3, RequestStep
<1> QED
  BY <1>1, RowsKept DEF ReadsFit

\* The row a late request will find is not reclaimed before it looks.
LEMMA LateRowStays ==
  ASSUME IInv, Next, NEW r \in Requests, req[r].late
  PROVE  \E i \in DOMAIN jobs' : /\ jobs'[i].status # "deleted"
                                 /\ jobs'[i].key = req[r].order.key
                                 /\ jobs'[i].buyer = req[r].order.buyer
                                 /\ req[r].order.key # NoKey
<1> USE DEF IInv
<1>1. ~At(r, "done")
  BY DEF LateFinds, At
<1>2. PICK i \in DOMAIN jobs : /\ Present(i) /\ jobs[i].key = req[r].order.key
                               /\ jobs[i].buyer = req[r].order.buyer
                               /\ req[r].order.key # NoKey
  BY DEF LateFinds, OwnRows, KeyRows
<1>3. CASE jobs' = jobs
  BY <1>2, <1>3 DEF Present
<1>4. ASSUME NEW row, Grows(row)
      PROVE  i \in DOMAIN jobs' /\ jobs'[i] = jobs[i]
  BY <1>4, GrownTable
<1>5. ASSUME NEW j, NEW row, Rewrites(j, row)
      PROVE  /\ i \in DOMAIN jobs' /\ jobs'[i].key = jobs[i].key
             /\ jobs'[i].buyer = jobs[i].buyer /\ jobs'[i].status # "deleted"
  <2>1. row.key = jobs[j].key /\ row.buyer = jobs[j].buyer /\ (j = i => row.status # "deleted")
    BY <1>1, <1>2, <1>5 DEF Rewrites
  <2> QED
    BY <1>2, <1>5, <2>1, RewrittenTable DEF Present
<1> QED
  BY <1>2, <1>3, <1>4, <1>5, TableStep DEF Present

\* A late request is still at its lookup, with a row to find.
LEMMA LateStillFinds ==
  ASSUME IInv, Next
  PROVE  LateFinds'
<1> USE DEF IInv
<1> DEFINE Finds(b, k) == \E i \in DOMAIN jobs' : /\ jobs'[i].status # "deleted"
                                                  /\ jobs'[i].key = k /\ jobs'[i].buyer = b
                                                  /\ k # NoKey
<1>1. ASSUME NEW r \in Requests, req'[r].late
      PROVE  /\ req'[r].step = "lookup" /\ req'[r].order.route # "bridge" /\ ~req'[r].paid
             /\ Finds(req'[r].order.buyer, req'[r].order.key)
  <2>1. CASE req'[r] = req[r]
    <3>1. req[r].late
      BY <1>1, <2>1
    <3>2. req[r].step = "lookup" /\ req[r].order.route # "bridge" /\ ~req[r].paid
      BY <3>1 DEF LateFinds, At
    <3>3. Finds(req[r].order.buyer, req[r].order.key)
      BY <3>1, LateRowStays
    <3> QED
      BY <2>1, <3>2, <3>3
  <2>2. ASSUME NEW q, Serves(r, q)
        PROVE  /\ req'[r].step = "lookup" /\ req'[r].order.route # "bridge" /\ ~req'[r].paid
               /\ Finds(req'[r].order.buyer, req'[r].order.key)
    <3>1. req'[r] = q
      BY <2>2 DEF Serves, TypeOK
    <3>2. /\ q.step = "lookup" /\ q.order.route # "bridge" /\ ~q.paid
          /\ jobs' = jobs /\ OwnRows(q.order.buyer, q.order.key) # {}
      BY <1>1, <2>2, <3>1 DEF Serves
    <3>3. Finds(q.order.buyer, q.order.key)
      BY <3>2 DEF OwnRows, KeyRows, Present
    <3> HIDE DEF Finds
    <3> QED
      BY <3>1, <3>2, <3>3
  <2>3. ASSUME NEW s \in Requests, NEW q, Serves(s, q), s # r
        PROVE  req'[r] = req[r]
    BY <2>3 DEF Serves, TypeOK
  <2> HIDE DEF Finds
  <2> QED
    BY <2>1, <2>2, <2>3, RequestStep
<1> QED
  BY <1>1 DEF LateFinds, At, OwnRows, KeyRows, Present

\* No other handler gets to the save.
LEMMA StillSavesBridge ==
  ASSUME IInv, Next
  PROVE  SavesBridge'
BY RequestStep DEF IInv, SavesBridge, At, Serves, TypeOK

\* The inductive invariant of the purchases.
THEOREM Inductive == Spec => []IInv
<1>1. Init => IInv
  <2> SUFFICES ASSUME Init PROVE IInv
    OBVIOUS
  <2>1. jobs = <<>> /\ DOMAIN jobs = {} /\ jobs \in Seq(Job)
    BY DEF Init
  <2>2. /\ req \in [Requests -> Request]
        /\ \A r \in Requests : ~req[r].late /\ req[r].step = "done" /\ req[r].row = 0
    BY IdleIsRequest DEF Init
  <2> QED
    BY <2>1, <2>2 DEF Init, IInv, TypeOK, KeysApart, SoldRows, LateFinds, BooksBalance,
                      SavesBridge, BuyersFit, ReadsFit, At
<1>2. IInv /\ [Next]_vars => IInv'
  <2> SUFFICES ASSUME IInv, [Next]_vars PROVE IInv'
    OBVIOUS
  <2>1. CASE Next
    BY <2>1, TypesKept, KeysStayApart, SoldRowsStay, LateStillFinds, BooksStayBalanced,
       StillSavesBridge, BuyersStayFit, ReadsStayFit DEF IInv
  <2>2. CASE UNCHANGED vars
    BY <2>2 DEF vars, IInv, TypeOK, KeysApart, SoldRows, LateFinds, BooksBalance, SavesBridge,
                BuyersFit, ReadsFit, At, Present, OwnRows, KeyRows
  <2> QED
    BY <2>1, <2>2
<1> QED
  BY <1>1, <1>2, PTL DEF Spec

\* Every variable keeps its type, whichever handler writes it.
THEOREM TypeCorrect == Spec => []TypeOK
<1>1. IInv => TypeOK
  BY DEF IInv
<1> QED
  BY <1>1, Inductive, PTL

\* The 201 answers to requests of one buyer with one key name one job of that
\* buyer, unless the earlier had been reclaimed (the partial unique index of
\* tls_commerce_jobs, and the answer cached by the transaction that inserts).
THEOREM KeysBuyOnce == Spec => []OneJobPerKey
<1>1. IInv => OneJobPerKey
  <2> SUFFICES ASSUME IInv, NEW a \in sold, NEW b \in sold,
                      a[1] = b[1], a[2] = b[2], a[3] < b[3],
                      jobs[a[3]].buyer = a[1], jobs[b[3]].buyer = b[1]
               PROVE  ~Present(a[3])
    BY DEF OneJobPerKey
  <2>1. a[2] \in Keys
    BY DEF IInv, TypeOK
  <2>2. /\ a[3] \in DOMAIN jobs /\ jobs[a[3]].key = a[2]
        /\ b[3] \in DOMAIN jobs /\ jobs[b[3]].key = b[2]
    BY DEF IInv, SoldRows
  <2> QED
    BY <2>1, <2>2, NoKeyAssumption DEF IInv, KeysApart
<1> QED
  BY <1>1, Inductive, PTL

\* A 201 answer to an agent names a job that agent bought: the service route looks
\* up and reads again by buyer, and the webhook leaves a row with its buyer.
THEOREM AgentsAnswered == Spec => []AgentsGetTheirOwn
<1>1. IInv => AgentsGetTheirOwn
  BY DEF IInv, SoldRows, AgentsGetTheirOwn
<1> QED
  BY <1>1, Inductive, PTL

\* A request whose buyer had bought a job with its key when it arrived moves no
\* money: its lookup finds the row, which is not reclaimed while the key is in use.
THEOREM RetriesAreFree == Spec => []RetryIsFree
<1>1. IInv => RetryIsFree
  BY DEF IInv, LateFinds, RetryIsFree
<1> QED
  BY <1>1, Inductive, PTL

\* What is completed is booked, and until the webhook writes a row nothing is
\* booked twice or for a job that is neither completed nor an instant bid.
THEOREM BooksAreBalanced == Spec => []BooksBalance
<1>1. IInv => BooksBalance
  BY DEF IInv
<1> QED
  BY <1>1, Inductive, PTL
=============================================================================
