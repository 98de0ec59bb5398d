-------------------------- MODULE ReconcilerProofs --------------------------
(***************************************************************************)
(* Theorems about the payment reconciler.                                  *)
(*                                                                         *)
(* Calls work from copies of records that were loaded long ago.  The       *)
(* inductive invariant says what stays true of every copy, wherever it is: *)
(* in a batch, in the queue, in a call or in the table.  A second one says *)
(* that the queue and the calls of a process never hold a record twice.    *)
(***************************************************************************)
EXTENDS Reconciler, SumLemmas, SequenceTheorems

-----------------------------------------------------------------------------
(* Filtering a sequence.                                                   *)

\* g solves the recursion of Kept up to n.
KeptUpTo(seq, S, n, g) ==
  g = [m \in 0 .. n |-> IF m = 0 THEN <<>>
                        ELSE IF seq[m] \in S THEN Append(g[m - 1], seq[m]) ELSE g[m - 1]]

\* The recursion of Kept has a solution.
LEMMA KeptExists ==
  ASSUME NEW seq, NEW S, NEW n \in Nat
  PROVE  \E g : KeptUpTo(seq, S, n, g)
<1> DEFINE P == {m \in Nat : \E g : KeptUpTo(seq, S, m, g)}
<1>1. 0 \in P
  <2>1. KeptUpTo(seq, S, 0, [m \in 0 .. 0 |-> <<>>])
    BY DEF KeptUpTo
  <2> QED BY <2>1
<1>2. ASSUME NEW m \in Nat, m \in P PROVE m + 1 \in P
  <2>1. PICK g : KeptUpTo(seq, S, m, g)
    BY <1>2
  <2> DEFINE next == IF seq[m + 1] \in S THEN Append(g[m], seq[m + 1]) ELSE g[m]
             h == [k \in 0 .. (m + 1) |-> IF k = m + 1 THEN next ELSE g[k]]
  <2>2. \A k \in 0 .. m : h[k] = g[k] /\ h[m + 1] = next
    <3> HIDE DEF next
    <3> QED OBVIOUS
  <2>3. \A k \in 0 .. m : g[k] = IF k = 0 THEN <<>>
                                ELSE IF seq[k] \in S THEN Append(g[k - 1], seq[k]) ELSE g[k - 1]
    BY <2>1 DEF KeptUpTo
  <2>4. \A k \in 0 .. (m + 1) : h[k] = IF k = 0 THEN <<>>
          ELSE IF seq[k] \in S THEN Append(h[k - 1], seq[k]) ELSE h[k - 1]
    <3> HIDE DEF h
    <3> SUFFICES ASSUME NEW k \in 0 .. (m + 1)
                 PROVE  h[k] = IF k = 0 THEN <<>>
                               ELSE IF seq[k] \in S THEN Append(h[k - 1], seq[k]) ELSE h[k - 1]
      OBVIOUS
    <3>1. CASE k = m + 1
      BY <2>2, <3>1
    <3>2. CASE k \in 0 .. m
      <4>1. h[k] = g[k] /\ (k # 0 => h[k - 1] = g[k - 1])
        BY <2>2, <3>2
      <4> HIDE DEF next
      <4> QED BY <2>3, <3>2, <4>1
    <3> QED BY <3>1, <3>2
  <2>5. KeptUpTo(seq, S, m + 1, h)
    <3>1. h = [k \in 0 .. (m + 1) |-> h[k]]
      <4> HIDE DEF next
      <4> QED OBVIOUS
    <3> HIDE DEF h
    <3> QED BY <2>4, <3>1 DEF KeptUpTo
  <2>6. \E k : KeptUpTo(seq, S, m + 1, k)
    <3> HIDE DEF h
    <3> QED BY <2>5
  <2> HIDE DEF h
  <2> QED BY <2>6
<1>3. Nat \subseteq P
  <2> HIDE DEF P
  <2> QED BY <1>1, <1>2, NatSetInduction
<1> QED BY <1>3

\* h names, for each element of q, its place in seq: q has elements of seq that
\* are in S, in the order of seq.
Places(seq, S, q, n, h) ==
  /\ h \in [1 .. Len(q) -> 1 .. n]
  /\ \A i \in 1 .. Len(q) : q[i] = seq[h[i]] /\ seq[h[i]] \in S
  /\ \A i, j \in 1 .. Len(q) : i < j => h[i] < h[j]

\* Filtering keeps elements of the sequence that are in the set, each once, in
\* their order.
LEMMA KeptPlaces ==
  ASSUME NEW D, NEW seq \in Seq(D), NEW S
  PROVE  /\ Kept(seq, S) \in Seq(D)
         /\ \E h : Places(seq, S, Kept(seq, S), Len(seq), h)
<1> DEFINE kept == CHOOSE g : KeptUpTo(seq, S, Len(seq), g)
<1>1. Len(seq) \in Nat /\ \A i \in 1 .. Len(seq) : seq[i] \in D
  OBVIOUS
<1>2. KeptUpTo(seq, S, Len(seq), kept)
  BY <1>1, KeptExists
<1>3. Kept(seq, S) = kept[Len(seq)]
  BY DEF Kept, KeptUpTo
<1> HIDE DEF kept
<1>4. \A m \in 0 .. Len(seq) :
        kept[m] = IF m = 0 THEN <<>>
                  ELSE IF seq[m] \in S THEN Append(kept[m - 1], seq[m]) ELSE kept[m - 1]
  BY <1>1, <1>2 DEF KeptUpTo
<1> DEFINE P == {m \in Nat : m <= Len(seq) =>
                   kept[m] \in Seq(D) /\ \E h : Places(seq, S, kept[m], m, h)}
<1>5. 0 \in P
  <2>1. kept[0] = <<>>
    BY <1>1, <1>4
  <2>2. Places(seq, S, <<>>, 0, <<>>)
    BY DEF Places
  <2>3. kept[0] \in Seq(D)
    BY <2>1
  <2>4. \E h : Places(seq, S, kept[0], 0, h)
    BY <2>1, <2>2
  <2> QED BY <2>3, <2>4
<1>6. ASSUME NEW m \in Nat, m \in P PROVE m + 1 \in P
  <2> SUFFICES ASSUME m + 1 <= Len(seq)
               PROVE  kept[m + 1] \in Seq(D) /\ \E h : Places(seq, S, kept[m + 1], m + 1, h)
    OBVIOUS
  <2> DEFINE q == kept[m]
             e == seq[m + 1]
  <2>1. q \in Seq(D) /\ \E h : Places(seq, S, q, m, h)
    BY <1>1, <1>6
  <2>2. PICK h : Places(seq, S, q, m, h)
    BY <2>1
  <2>3. e \in D /\ kept[m + 1] = IF e \in S THEN Append(q, e) ELSE q
    BY <1>1, <1>4
  <2> HIDE DEF q
  <2>4. CASE e \notin S
    <3>1. Places(seq, S, q, m + 1, h)
      BY <2>2 DEF Places
    <3> QED BY <2>1, <2>3, <2>4, <3>1
  <2>5. CASE e \in S
    <3> DEFINE r == Append(q, e)
               k == [i \in 1 .. (Len(q) + 1) |-> IF i = Len(q) + 1 THEN m + 1 ELSE h[i]]
    <3>1. /\ r \in Seq(D) /\ Len(q) \in Nat /\ Len(r) = Len(q) + 1 /\ r[Len(q) + 1] = e
          /\ \A i \in 1 .. Len(q) : r[i] = q[i]
      BY <2>1, <2>3
    <3>2. k[Len(q) + 1] = m + 1 /\ \A i \in 1 .. Len(q) : k[i] = h[i] /\ h[i] \in 1 .. m
      BY <2>2, <3>1 DEF Places
    <3>3. k \in [1 .. Len(r) -> 1 .. (m + 1)]
      <4>1. ASSUME NEW i \in 1 .. (Len(q) + 1) PROVE k[i] \in 1 .. (m + 1)
        <5> HIDE DEF r, k
        <5>1. i = Len(q) + 1 \/ i \in 1 .. Len(q)
          BY <3>1
        <5> QED BY <3>2, <5>1
      <4>2. k \in [1 .. (Len(q) + 1) -> 1 .. (m + 1)]
        BY <4>1
      <4> HIDE DEF r, k
      <4> QED BY <3>1, <4>2
    <3> HIDE DEF r, k
    <3>4. Places(seq, S, r, m + 1, k)
      <4>1. \A i \in 1 .. Len(q) : q[i] = seq[h[i]] /\ seq[h[i]] \in S
        BY <2>2 DEF Places
      <4>2. \A i \in 1 .. Len(r) : r[i] = seq[k[i]] /\ seq[k[i]] \in S
        <5> SUFFICES ASSUME NEW i \in 1 .. Len(r) PROVE r[i] = seq[k[i]] /\ seq[k[i]] \in S
          OBVIOUS
        <5>1. CASE i = Len(q) + 1
          BY <2>5, <3>1, <3>2, <5>1
        <5>2. CASE i \in 1 .. Len(q)
          BY <3>1, <3>2, <4>1, <5>2
        <5> QED BY <3>1, <5>1, <5>2
      <4>3. \A i, j \in 1 .. Len(q) : i < j => h[i] < h[j]
        BY <2>2 DEF Places
      <4>4. \A i, j \in 1 .. Len(r) : i < j => k[i] < k[j]
        <5> SUFFICES ASSUME NEW i \in 1 .. Len(r), NEW j \in 1 .. Len(r), i < j PROVE k[i] < k[j]
          OBVIOUS
        <5>1. i \in 1 .. Len(q)
          BY <3>1
        <5>2. CASE j = Len(q) + 1
          BY <3>2, <5>1, <5>2
        <5>3. CASE j \in 1 .. Len(q)
          BY <3>2, <4>3, <5>1, <5>3
        <5> QED BY <3>1, <5>2, <5>3
      <4> QED BY <3>3, <4>2, <4>4 DEF Places
    <3>5. kept[m + 1] = r
      BY <2>3, <2>5 DEF r
    <3> QED BY <3>1, <3>4, <3>5
  <2> QED BY <2>4, <2>5
<1>7. Nat \subseteq P
  <2> HIDE DEF P
  <2> QED BY <1>5, <1>6, NatSetInduction
<1> QED BY <1>1, <1>3, <1>7

-----------------------------------------------------------------------------
(* The inductive invariants.                                                *)

\* What a copy r of the record of t may say, given what the network knows of t
\* and how often it was asked.
GoodRec(t) ==
  {r \in Record :
     /\ r.landed # Null => r.landed = chain[t].ledger
     /\ r.status \in {"CONFIRMING", "CONFIRMED"} =>
          chain[t].status = "confirmed" /\ r.landed # Null
     /\ r.status = "CONFIRMED" => ledger >= chain[t].ledger + Depth
     /\ r.status = "FAILED" => chain[t].status = "failed"
     /\ r.polls <= asked[t]
     /\ r.status = "NOT_FOUND" => asked[t] >= Threshold}

Registered == {t \in Txs : rec[t].status # "absent"}

\* Batches and queues hold copies of active records, calls what became of them.
GoodItem ==
  {x \in Item : /\ x.tx \in Registered /\ x.rec \in GoodRec(x.tx)
                /\ x.rec.status \in ActiveStates}
GoodCall ==
  {c \in Calls : /\ c.tx \in Registered /\ c.rec \in GoodRec(c.tx) /\ c.ledger <= ledger
                 /\ c.rec.status # "absent"
                 /\ c.pc = "evaluate" => c.rec.status \in ActiveStates
                 /\ c.pc \in {"repair", "mark"} => c.rec.status \in TerminalStates}

\* The memory of a process whose batches and queue hold elements of I and whose
\* calls are elements of C, with ledgers up to now.
Ticking(I, now) == [pc : {"idle", "load", "queue"}, ledger : 0 .. now, batch : Seq(I)]
Memory(I, C, now) ==
  [tick : [Ticks -> Ticking(I, now)], queue : Seq(I),
   active : {S \in SUBSET Txs : IsFiniteSet(S)}, calls : Seq(C)]

WorldOK ==
  /\ ledger \in 0 .. MaxLedger
  /\ chain \in [Txs -> [status : {"not_found", "confirmed", "failed"}, ledger : 0 .. MaxLedger]]
  /\ \A t \in Txs : /\ chain[t].status = "not_found" <=> chain[t].ledger = Null
                    /\ chain[t].ledger <= ledger

TablesOK ==
  /\ row \in [Txs -> RowStatuses] /\ rec \in [Txs -> Record] /\ expired \subseteq Txs
  /\ asked \in [Txs -> 0 .. Threshold] /\ order \in Seq(Registered)
  /\ \A t \in Txs : /\ rec[t] \in GoodRec(t)
                    /\ row[t] = "payment_failed" => chain[t].status = "failed"
                    /\ row[t] = "payment_not_found" => asked[t] >= Threshold

ProcOK == proc \in [Servers -> Memory(GoodItem, GoodCall, ledger)]

BridgeOK ==
  /\ bridge \in [Txs -> {"none", "pending", "completed"}]
  /\ \A t \in Txs : bridge[t] # "none" => Source[t] = "commerce_job"

IndInv == WorldOK /\ TablesOK /\ BridgeOK /\ ProcOK

\* No two elements of q are of the same transaction.
NoTwice(q) == \A i, j \in 1 .. Len(q) : q[i].tx = q[j].tx => i = j
TxsOf(q) == {q[i].tx : i \in 1 .. Len(q)}

OnceOK(p) ==
  /\ NoTwice(p.queue) /\ NoTwice(p.calls)
  /\ p.active = TxsOf(p.calls) /\ p.active \cap TxsOf(p.queue) = {}
  /\ Len(p.calls) <= Limit

MemoryOnce(p) == OnceOK(p) /\ \A k \in Ticks : NoTwice(p.tick[k].batch)
OrderOnce == \A i, j \in 1 .. Len(order) : order[i] = order[j] => i = j

OnceInv == OrderOnce /\ \A s \in Servers : MemoryOnce(proc[s])

-----------------------------------------------------------------------------
(* The work queue.                                                         *)

\* What the first n values of f are is finite, and n if none occurs twice.
LEMMA FirstValues ==
  ASSUME NEW f, NEW n \in Nat
  PROVE  /\ IsFiniteSet({f[i] : i \in 1 .. n})
         /\ (\A i, j \in 1 .. n : f[i] = f[j] => i = j) => Cardinality({f[i] : i \in 1 .. n}) = n
<1> DEFINE T == {f[i] : i \in 1 .. n}
           g == [i \in 1 .. n |-> f[i]]
<1>1. g \in Surjection(1 .. n, T)
  BY DEF Surjection
<1>2. IsFiniteSet(1 .. n) /\ Cardinality(1 .. n) = n
  BY FS_Interval
<1>3. IsFiniteSet(T) /\ (Cardinality(T) = Cardinality(1 .. n) <=> g \in Injection(1 .. n, T))
  BY <1>1, <1>2, FS_Surjection
<1>4. ASSUME \A i, j \in 1 .. n : f[i] = f[j] => i = j PROVE g \in Injection(1 .. n, T)
  BY <1>1, <1>4 DEF Surjection, Injection, IsInjective
<1> QED BY <1>2, <1>3, <1>4

\* What drainQueue() does when it starts the first k records of the queue.
Started(q, k, now) ==
  [i \in 1 .. k |-> [tx |-> q[i].tx, rec |-> q[i].rec, ledger |-> now, pc |-> "evaluate"]]
Begun(p, k, now) ==
  [p EXCEPT !.queue = SubSeq(p.queue, k + 1, Len(p.queue)),
            !.active = @ \cup {p.queue[i].tx : i \in 1 .. k},
            !.calls = @ \o Started(p.queue, k, now)]

\* drainQueue() starts some records from the front, and no more than there is
\* room for.
LEMMA DrainBegins ==
  ASSUME NEW D, NEW p, p.queue \in Seq(D), IsFiniteSet(p.active), NEW now
  PROVE  \E k \in 0 .. Len(p.queue) :
           /\ k = 0 \/ Cardinality(p.active) + k <= Limit
           /\ Drain(p, now) = Begun(p, k, now)
<1> DEFINE room == IF Cardinality(p.active) < Limit THEN Limit - Cardinality(p.active) ELSE 0
           k == IF room < Len(p.queue) THEN room ELSE Len(p.queue)
           started == SubSeq(p.queue, 1, k)
<1>1. Cardinality(p.active) \in Nat /\ Limit \in Nat /\ Len(p.queue) \in Nat
  BY FS_CardinalityType, ConfigAssumption
<1>2. k \in 0 .. Len(p.queue) /\ (k = 0 \/ Cardinality(p.active) + k <= Limit)
  BY <1>1
<1>3. Drain(p, now) =
        [p EXCEPT !.queue = SubSeq(p.queue, k + 1, Len(p.queue)),
                  !.active = @ \cup {started[i].tx : i \in 1 .. k},
                  !.calls = @ \o [i \in 1 .. k |-> [tx |-> started[i].tx, rec |-> started[i].rec,
                                                    ledger |-> now, pc |-> "evaluate"]]]
  BY DEF Drain
<1> HIDE DEF k
<1>4. \A i \in 1 .. k : p.queue[i] \in D
  BY <1>2
<1>5. \A i \in 1 .. k : started[i] = p.queue[i]
  <2>1. \A i \in 1 .. (k - 1 + 1) : started[i] = p.queue[1 + i - 1]
    BY <1>2, <1>4, SubSeqProperties
  <2> HIDE DEF started
  <2> QED BY <1>2, <2>1
<1> HIDE DEF started
<1>6. {started[i].tx : i \in 1 .. k} = {p.queue[i].tx : i \in 1 .. k}
  BY <1>5
<1>7. [i \in 1 .. k |-> [tx |-> started[i].tx, rec |-> started[i].rec,
                         ledger |-> now, pc |-> "evaluate"]] = Started(p.queue, k, now)
  BY <1>5 DEF Started
<1>8. Drain(p, now) = Begun(p, k, now)
  BY <1>3, <1>6, <1>7, Zenon DEF Begun
<1> QED BY <1>2, <1>8

\* The memory keeps its shape when the queue is drained.
LEMMA DrainMemory ==
  ASSUME NEW I, NEW C, NEW high, NEW p \in Memory(I, C, high), NEW now,
         \A x \in I : /\ x.tx \in Txs
                      /\ [tx |-> x.tx, rec |-> x.rec, ledger |-> now, pc |-> "evaluate"] \in C
  PROVE  Drain(p, now) \in Memory(I, C, high)
<1>1. /\ p.queue \in Seq(I) /\ IsFiniteSet(p.active) /\ p.active \subseteq Txs
      /\ p.calls \in Seq(C) /\ Len(p.queue) \in Nat
  BY DEF Memory
<1>2. PICK k \in 0 .. Len(p.queue) : Drain(p, now) = Begun(p, k, now)
  BY <1>1, DrainBegins
<1>3. k \in Nat /\ \A i \in 1 .. k : p.queue[i] \in I
  BY <1>1
<1> DEFINE q == SubSeq(p.queue, k + 1, Len(p.queue))
           new == {p.queue[i].tx : i \in 1 .. k}
<1>4. q \in Seq(I)
  <2>1. \A i \in (k + 1) .. Len(p.queue) : p.queue[i] \in I
    BY <1>1, <1>3
  <2> QED BY <1>1, <1>3, <2>1, SubSeqProperties
<1>5. new \subseteq Txs
  BY <1>3
<1>6. IsFiniteSet(p.active \cup new)
  <2> DEFINE f == [i \in 1 .. k |-> p.queue[i].tx]
  <2>1. IsFiniteSet({f[i] : i \in 1 .. k})
    BY <1>3, FirstValues
  <2>2. {f[i] : i \in 1 .. k} = new
    OBVIOUS
  <2>3. IsFiniteSet(new)
    BY <2>1, <2>2, Zenon
  <2> HIDE DEF new
  <2> QED BY <1>1, <2>3, FS_Union
<1>7. Started(p.queue, k, now) \in Seq(C)
  BY <1>3 DEF Started
<1>8. p.calls \o Started(p.queue, k, now) \in Seq(C)
  BY <1>1, <1>7, ConcatProperties
<1> HIDE DEF q, new
<1>9. Begun(p, k, now) = [p EXCEPT !.queue = q, !.active = p.active \cup new,
                                   !.calls = p.calls \o Started(p.queue, k, now)]
  BY DEF Begun, Memory, q, new
<1> QED BY <1>1, <1>2, <1>4, <1>5, <1>6, <1>8, <1>9 DEF Memory

\* A filtered sequence is one of the elements that pass the filter.
LEMMA KeptType ==
  ASSUME NEW D, NEW seq \in Seq(D), NEW S
  PROVE  Kept(seq, S) \in Seq(D \cap S)
<1> DEFINE q == Kept(seq, S)
<1>1. q \in Seq(D) /\ \E h : Places(seq, S, q, Len(seq), h)
  BY KeptPlaces
<1> HIDE DEF q
<1>2. \A i \in 1 .. Len(q) : q[i] \in D /\ q[i] \in S
  BY <1>1 DEF Places
<1> QED BY <1>1, <1>2 DEF q

-----------------------------------------------------------------------------
(* What the copies say stays true.                                         *)

\* The network forgets nothing, and polls are only counted up.
Grows ==
  /\ ledger <= ledger'
  /\ \A t \in Txs : /\ chain[t].status # "not_found" => chain'[t] = chain[t]
                    /\ asked[t] <= asked'[t]

\* What a copy says of the network and of the polls is still true later.
LEMMA CopiesStayGood ==
  ASSUME WorldOK, WorldOK', Grows, asked \in [Txs -> 0 .. Threshold],
         asked' \in [Txs -> 0 .. Threshold]
  PROVE  \A t \in Txs : GoodRec(t) \subseteq GoodRec(t)'
<1> SUFFICES ASSUME NEW t \in Txs, NEW r \in GoodRec(t) PROVE r \in GoodRec(t)'
  OBVIOUS
<1>1. /\ ledger \in Nat /\ ledger' \in Nat /\ asked[t] \in Nat /\ asked'[t] \in Nat
      /\ chain[t].ledger \in Nat /\ Depth \in Nat /\ Threshold \in Nat
  BY BoundsAssumption, ConfigAssumption DEF WorldOK
<1>2. r \in Record /\ r.polls \in Nat
  BY <1>1 DEF GoodRec, Record
<1>3. r.landed # Null => r.landed = chain[t].ledger /\ chain'[t] = chain[t]
  BY DEF GoodRec, Grows, WorldOK
<1>4. r.status \in {"CONFIRMING", "CONFIRMED", "FAILED"} => chain'[t] = chain[t]
  BY DEF GoodRec, Grows
<1> QED BY <1>1, <1>2, <1>3, <1>4 DEF GoodRec, Grows

\* Poll a PENDING copy: the update is true of the network, and it counts the poll.
LEMMA PollIsGood ==
  ASSUME WorldOK, asked \in [Txs -> 0 .. Threshold], NEW t \in Txs, NEW r \in GoodRec(t),
         r.status = "PENDING", NEW outcome \in Answers(t),
         asked' = [asked EXCEPT ![t] = OneMore(asked[t])], UNCHANGED world
  PROVE  /\ FromPending(t, r, outcome) \in GoodRec(t)'
         /\ FromPending(t, r, outcome).status # "absent"
<1>1. /\ ledger \in Nat /\ chain[t].ledger \in 0 .. MaxLedger /\ chain[t].ledger \in Nat
      /\ Depth \in Nat /\ Threshold \in Nat \ {0} /\ asked[t] \in 0 .. Threshold
  BY BoundsAssumption, ConfigAssumption DEF WorldOK
<1>2. asked'[t] = OneMore(asked[t])
  OBVIOUS
<1>3. r \in Record /\ r.polls \in 0 .. Threshold /\ r.polls <= asked[t]
  BY <1>1 DEF GoodRec, Record
<1>4. /\ OneMore(r.polls) \in 0 .. Threshold /\ OneMore(r.polls) <= asked'[t]
      /\ GivesUp(OneMore(r.polls)) => asked'[t] >= Threshold
  BY <1>1, <1>2, <1>3 DEF OneMore, GivesUp
<1> DEFINE seen == [r EXCEPT !.polls = OneMore(r.polls)]
           landing == [seen EXCEPT !.landed = chain[t].ledger]
<1>5. seen \in GoodRec(t)' /\ seen.status = "PENDING"
  BY <1>1, <1>3, <1>4 DEF GoodRec, Record, world
<1>6. landing \in Record /\ landing.landed = chain[t].ledger /\ landing.polls <= asked'[t]
  BY <1>1, <1>3, <1>4 DEF Record
<1>7. [seen EXCEPT !.status = "EXPIRED"] \in GoodRec(t)'
  BY <1>5 DEF GoodRec, Record, TerminalStates
<1>8. outcome = "confirmed" => [landing EXCEPT !.status = "CONFIRMING"] \in GoodRec(t)'
  BY <1>1, <1>3, <1>4, <1>6 DEF GoodRec, Record, Answers, WorldOK, world, ActiveStates, Null
<1>9. outcome = "failed" => [landing EXCEPT !.status = "FAILED"] \in GoodRec(t)'
  BY <1>1, <1>3, <1>4, <1>6 DEF GoodRec, Record, Answers, WorldOK, world, TerminalStates, Null
<1>10. GivesUp(seen.polls) => [seen EXCEPT !.status = "NOT_FOUND"] \in GoodRec(t)'
  <2>1. GivesUp(seen.polls) => asked'[t] >= Threshold
    BY <1>3, <1>4 DEF Record
  <2> QED BY <1>5, <2>1 DEF GoodRec, Record, TerminalStates
<1>11. /\ [seen EXCEPT !.status = "EXPIRED"].status # "absent"
       /\ [landing EXCEPT !.status = "CONFIRMING"].status # "absent"
       /\ [landing EXCEPT !.status = "FAILED"].status # "absent"
       /\ [seen EXCEPT !.status = "NOT_FOUND"].status # "absent"
  BY <1>3, <1>6 DEF Record
<1>12. FromPending(t, r, outcome) =
         CASE t \in expired -> [seen EXCEPT !.status = "EXPIRED"]
           [] t \notin expired /\ outcome = "confirmed" ->
                [landing EXCEPT !.status = "CONFIRMING"]
           [] t \notin expired /\ outcome = "failed" -> [landing EXCEPT !.status = "FAILED"]
           [] t \notin expired /\ outcome = "not_found" /\ GivesUp(seen.polls) ->
                [seen EXCEPT !.status = "NOT_FOUND"]
           [] OTHER -> seen
  BY DEF FromPending
<1> HIDE DEF seen, landing
<1> QED BY <1>5, <1>7, <1>8, <1>9, <1>10, <1>11, <1>12

\* Evaluate a CONFIRMING copy against an old ledger: what was deep enough then
\* is deep enough now.
LEMMA DepthIsGood ==
  ASSUME WorldOK, NEW t \in Txs, NEW r \in GoodRec(t), r.status = "CONFIRMING",
         NEW now \in 0 .. ledger
  PROVE  /\ FromConfirming(t, r, now) \in GoodRec(t)
         /\ FromConfirming(t, r, now).status # "absent"
<1>1. ledger \in Nat /\ chain[t].ledger \in Nat /\ Depth \in Nat /\ now \in Nat /\ now <= ledger
  BY BoundsAssumption, ConfigAssumption DEF WorldOK
<1>2. r \in Record /\ r.landed = chain[t].ledger /\ chain[t].status = "confirmed"
  BY DEF GoodRec
<1>3. [r EXCEPT !.status = "EXPIRED"] \in GoodRec(t)
  BY <1>2 DEF GoodRec, Record, TerminalStates
<1>4. Deep(r.landed, now) => [r EXCEPT !.status = "CONFIRMED"] \in GoodRec(t)
  BY <1>1, <1>2 DEF GoodRec, Record, TerminalStates, Deep
<1>5. /\ [r EXCEPT !.status = "EXPIRED"].status # "absent"
      /\ [r EXCEPT !.status = "CONFIRMED"].status # "absent"
  BY <1>2 DEF Record
<1> QED BY <1>3, <1>4, <1>5 DEF FromConfirming

\* The network only moves on, and only polls are counted.
LEMMA WorldStep ==
  ASSUME IndInv, [Next]_vars
  PROVE  /\ WorldOK' /\ Grows /\ asked' \in [Txs -> 0 .. Threshold]
         /\ Registered \subseteq Registered'
<1>1. /\ ledger \in Nat /\ MaxLedger \in Nat /\ Threshold \in Nat \ {0} /\ WorldOK
      /\ asked \in [Txs -> 0 .. Threshold] /\ rec \in [Txs -> Record]
  BY BoundsAssumption, ConfigAssumption DEF IndInv, WorldOK, TablesOK
<1>2. CASE CloseLedger
  <2>1. ledger' = ledger + 1 /\ ledger < MaxLedger /\ UNCHANGED <<asked, rec>>
    BY <1>2 DEF CloseLedger
  <2>2. PICK S \in SUBSET {t \in Txs : chain[t].status = "not_found"} :
          \E how \in [S -> {"confirmed", "failed"}] :
            chain' = [t \in Txs |-> IF t \in S
                        THEN [status |-> how[t], ledger |-> ledger + 1] ELSE chain[t]]
    BY <1>2 DEF CloseLedger
  <2>3. PICK how \in [S -> {"confirmed", "failed"}] :
          chain' = [t \in Txs |-> IF t \in S
                      THEN [status |-> how[t], ledger |-> ledger + 1] ELSE chain[t]]
    BY <2>2
  <2>4. \A t \in S : chain[t].status = "not_found" /\ how[t] \in {"confirmed", "failed"}
    BY <2>3
  <2>5. WorldOK'
    BY <1>1, <2>1, <2>3, <2>4 DEF WorldOK, Null
  <2>6. \A t \in Txs : chain[t].status # "not_found" => chain'[t] = chain[t]
    BY <2>3, <2>4
  <2> QED BY <1>1, <2>1, <2>5, <2>6 DEF Grows, Registered
<1>3. ASSUME UNCHANGED <<world, asked>>,
             \A t \in Txs : rec[t].status # "absent" => rec'[t].status # "absent"
      PROVE  /\ WorldOK' /\ Grows /\ asked' \in [Txs -> 0 .. Threshold]
             /\ Registered \subseteq Registered'
  BY <1>1, <1>3 DEF WorldOK, Grows, world, Registered
<1>4. ASSUME NEW t \in Txs, Routes(t) \/ Expire(t)
      PROVE  /\ UNCHANGED <<world, asked>>
             /\ \A u \in Txs : rec[u].status # "absent" => rec'[u].status # "absent"
  <2>1. ASSUME Register(t)
        PROVE \A u \in Txs : rec[u].status # "absent" => rec'[u].status # "absent"
    BY <1>1, <2>1 DEF Register, NoRecord, NewRecord
  <2> QED BY <1>4, <2>1 DEF Routes, Create, Register, CompleteJob, CancelJob, BridgeRead,
                          BridgeSave, Expire
<1>5. ASSUME NEW s \in Servers, Crash(s) \/ \E k \in Ticks : Tick(s, k)
      PROVE  UNCHANGED <<world, asked, rec>>
  BY <1>5 DEF Crash, Tick, TickLedger, TickLoad, TickQueue
<1>6. ASSUME NEW s \in Servers, NEW t \in Txs, Persist(s, t) \/ Repair(s, t) \/ Mark(s, t) \/ WriteFails(s, t)
      PROVE  /\ UNCHANGED <<world, asked>>
             /\ \A u \in Txs : rec[u].status # "absent" => rec'[u].status # "absent"
  <2>1. \A i \in 1 .. Len(proc[s].calls) : Call(s, i) \in GoodCall
    BY DEF IndInv, ProcOK, Memory, Call
  <2>2. ASSUME Persist(s, t)
        PROVE  \A u \in Txs : rec[u].status # "absent" => rec'[u].status # "absent"
    <3>1. PICK i \in CallsAt(s, t, "persist") :
            rec' = [rec EXCEPT ![t] = [Call(s, i).rec EXCEPT !.repaired = rec[t].repaired]]
      BY <2>2 DEF Persist
    <3>2. Call(s, i) \in GoodCall
      BY <2>1 DEF CallsAt
    <3>3. Call(s, i).rec \in Record /\ Call(s, i).rec.status # "absent"
      BY <3>2 DEF GoodCall, Calls
    <3>4. [Call(s, i).rec EXCEPT !.repaired = rec[t].repaired].status # "absent"
      BY <3>3 DEF Record
    <3> QED BY <1>1, <3>1, <3>4
  <2>3. ASSUME Mark(s, t)
        PROVE  \A u \in Txs : rec[u].status # "absent" => rec'[u].status # "absent"
    BY <1>1, <2>3 DEF Mark, Record
  <2>4. Repair(s, t) \/ WriteFails(s, t) => UNCHANGED rec
    BY DEF Repair, WriteFails
  <2>5. UNCHANGED <<world, asked>>
    BY <1>6 DEF Persist, Repair, Mark, WriteFails
  <2> QED BY <1>6, <2>2, <2>3, <2>4, <2>5
<1>7. ASSUME NEW s \in Servers, NEW t \in Txs, Evaluate(s, t)
      PROVE  /\ WorldOK' /\ Grows /\ asked' \in [Txs -> 0 .. Threshold]
             /\ Registered \subseteq Registered'
  <2>1. /\ UNCHANGED <<world, rec>>
        /\ asked' = [asked EXCEPT ![t] = OneMore(asked[t])] \/ UNCHANGED asked
    BY <1>7 DEF Evaluate
  <2>2. OneMore(asked[t]) \in 0 .. Threshold /\ OneMore(asked[t]) >= asked[t]
    BY <1>1 DEF OneMore
  <2>3. asked' \in [Txs -> 0 .. Threshold] /\ \A u \in Txs : asked[u] <= asked'[u]
    BY <1>1, <2>1, <2>2
  <2> QED BY <1>1, <2>1, <2>3 DEF WorldOK, Grows, world, Registered
<1>8. CASE UNCHANGED vars
  BY <1>1, <1>8 DEF vars, WorldOK, Grows, Registered
<1>9. CASE Next
  BY <1>2, <1>3, <1>4, <1>5, <1>6, <1>7, <1>9 DEF Next, Process
<1> QED BY <1>8, <1>9

\* Hence whatever a process holds stays what it is said to be.
LEMMA MemoryGrows ==
  ASSUME IndInv, [Next]_vars
  PROVE  /\ \A t \in Txs : GoodRec(t) \subseteq GoodRec(t)'
         /\ GoodItem \subseteq GoodItem' /\ GoodCall \subseteq GoodCall'
         /\ Memory(GoodItem, GoodCall, ledger) \subseteq Memory(GoodItem, GoodCall, ledger)'
<1>1. /\ WorldOK /\ WorldOK' /\ Grows /\ Registered \subseteq Registered'
      /\ \A t \in Txs : GoodRec(t) \subseteq GoodRec(t)'
      /\ ledger \in Nat /\ ledger' \in Nat /\ ledger <= ledger'
  <2>1. WorldOK /\ WorldOK' /\ Grows /\ Registered \subseteq Registered'
        /\ asked \in [Txs -> 0 .. Threshold] /\ asked' \in [Txs -> 0 .. Threshold]
    BY WorldStep DEF IndInv, TablesOK
  <2>2. \A t \in Txs : GoodRec(t) \subseteq GoodRec(t)'
    BY <2>1, CopiesStayGood
  <2>3. ledger \in Nat /\ ledger' \in Nat /\ ledger <= ledger'
    BY <2>1, BoundsAssumption DEF WorldOK, Grows
  <2> QED BY <2>1, <2>2, <2>3
<1>2. GoodItem \subseteq GoodItem'
  <2> SUFFICES ASSUME NEW x \in GoodItem PROVE x \in GoodItem'
    OBVIOUS
  <2>1. /\ x \in Item /\ x.tx \in Registered' /\ x.tx \in Txs /\ x.rec \in GoodRec(x.tx)
        /\ x.rec.status \in ActiveStates
    BY <1>1 DEF GoodItem, Item
  <2>2. x.rec \in GoodRec(x.tx)'
    BY <1>1, <2>1
  <2> QED BY <2>1, <2>2 DEF GoodItem
<1>3. GoodCall \subseteq GoodCall'
  <2> SUFFICES ASSUME NEW c \in GoodCall PROVE c \in GoodCall'
    OBVIOUS
  <2>1. c \in Calls /\ c.tx \in Registered' /\ c.tx \in Txs /\ c.rec \in GoodRec(c.tx)
    BY <1>1 DEF GoodCall, Calls
  <2>2. c.rec \in GoodRec(c.tx)'
    BY <1>1, <2>1
  <2>3. c.ledger <= ledger'
    <3>1. c.ledger \in Nat /\ c.ledger <= ledger
      BY BoundsAssumption DEF GoodCall, Calls
    <3> QED BY <1>1, <3>1
  <2> QED BY <2>1, <2>2, <2>3 DEF GoodCall
<1>4. Memory(GoodItem, GoodCall, ledger) \subseteq Memory(GoodItem, GoodCall, ledger)'
  <2>1. 0 .. ledger \subseteq 0 .. ledger'
    BY <1>1
  <2>2. Ticking(GoodItem, ledger) \subseteq Ticking(GoodItem', ledger')
    BY <1>2, <2>1, SeqMonotonic DEF Ticking
  <2>3. [Ticks -> Ticking(GoodItem, ledger)] \subseteq [Ticks -> Ticking(GoodItem', ledger')]
    BY <2>2
  <2>4. Seq(GoodItem) \subseteq Seq(GoodItem') /\ Seq(GoodCall) \subseteq Seq(GoodCall')
    BY <1>2, <1>3, SeqMonotonic
  <2> QED BY <2>3, <2>4 DEF Memory
<1> QED BY <1>1, <1>2, <1>3, <1>4

\* A write of the record puts it at the end of the order.
LEMMA TouchType ==
  ASSUME NEW t \in Txs, order \in Seq(Registered), Registered \subseteq Registered',
         t \in Registered', Touch(t)
  PROVE  order' \in Seq(Registered')
<1>1. Kept(order, Txs \ {t}) \in Seq(Registered \cap (Txs \ {t}))
  BY KeptType
<1>2. Kept(order, Txs \ {t}) \in Seq(Registered')
  BY <1>1, SeqMonotonic
<1> QED BY <1>2 DEF Touch

\* The verdict of a repair is a status of the row.
LEMMA RepairedType ==
  ASSUME NEW t \in Txs, row \in [Txs -> RowStatuses], NEW status \in TerminalStates
  PROVE  /\ Repaired(t, status) \in RowStatuses
         /\ Repaired(t, status) = "payment_failed" /\ row[t] # "payment_failed" =>
              status = "FAILED"
         /\ Repaired(t, status) = "payment_not_found" /\ row[t] # "payment_not_found" =>
              status = "NOT_FOUND"
BY DEF Repaired, Verdict, RowStatuses, TerminalStates

\* The tables say nothing of a payment that the network contradicts.
LEMMA TablesStep ==
  ASSUME IndInv, [Next]_vars
  PROVE  TablesOK'
<1>1. /\ WorldOK /\ WorldOK' /\ Grows /\ TablesOK /\ Registered \subseteq Registered'
      /\ asked' \in [Txs -> 0 .. Threshold] /\ asked \in [Txs -> 0 .. Threshold]
      /\ Threshold \in Nat /\ \A t \in Txs : GoodRec(t) \subseteq GoodRec(t)'
      /\ row \in [Txs -> RowStatuses] /\ rec \in [Txs -> Record] /\ expired \subseteq Txs
      /\ order \in Seq(Registered)
  BY WorldStep, MemoryGrows, ConfigAssumption DEF IndInv, TablesOK
<1>2. \A s \in Servers : \A i \in 1 .. Len(proc[s].calls) : Call(s, i) \in GoodCall
  BY DEF IndInv, ProcOK, Memory, Call
<1>3. \A t \in Txs : rec[t] \in GoodRec(t)'
  BY <1>1 DEF TablesOK
<1>4. \A t \in Txs : /\ row[t] = "payment_failed" => chain'[t].status = "failed"
                     /\ row[t] = "payment_not_found" => asked'[t] >= Threshold
  <2> SUFFICES ASSUME NEW t \in Txs
               PROVE  /\ row[t] = "payment_failed" => chain'[t].status = "failed"
                      /\ row[t] = "payment_not_found" => asked'[t] >= Threshold
    OBVIOUS
  <2>1. /\ row[t] = "payment_failed" => chain[t].status = "failed"
        /\ row[t] = "payment_not_found" => asked[t] >= Threshold
    BY <1>1 DEF TablesOK
  <2>2. /\ chain[t].status = "failed" => chain'[t] = chain[t]
        /\ asked[t] <= asked'[t]
    BY <1>1 DEF Grows
  <2>3. asked[t] \in Nat /\ asked'[t] \in Nat
    BY <1>1
  <2> QED BY <1>1, <2>1, <2>2, <2>3
<1>5. ASSUME UNCHANGED <<rec, row>>, expired' \subseteq Txs, UNCHANGED order PROVE TablesOK'
  <2>1. order \in Seq(Registered')
    BY <1>1, SeqMonotonic
  <2> QED BY <1>1, <1>3, <1>4, <1>5, <2>1 DEF TablesOK
<1>6. ASSUME NEW t \in Txs, Create(t) \/ CompleteJob(t) \/ CancelJob(t) \/ BridgeSave(t)
      PROVE  TablesOK'
  <2>1. /\ UNCHANGED <<rec, expired, order>>
        /\ \E v \in RowStatuses \ {"payment_failed", "payment_not_found"} :
             row' = [row EXCEPT ![t] = v]
    BY <1>6 DEF Create, CompleteJob, CancelJob, BridgeSave, RowStatuses, Waiting, IndInv, BridgeOK
  <2>2. PICK v \in RowStatuses \ {"payment_failed", "payment_not_found"} :
          row' = [row EXCEPT ![t] = v]
    BY <2>1
  <2>3. order' \in Seq(Registered')
    BY <1>1, <2>1, SeqMonotonic
  <2> QED BY <1>1, <1>3, <1>4, <2>1, <2>2, <2>3 DEF TablesOK
<1>7. ASSUME NEW t \in Txs, Register(t) PROVE TablesOK'
  <2>1. rec' = [rec EXCEPT ![t] = NewRecord] /\ order' = Append(order, t) /\ UNCHANGED <<row, expired>>
    BY <1>7 DEF Register
  <2>2. NewRecord \in GoodRec(t)' /\ NewRecord \in Record /\ NewRecord.status # "absent"
    <3>1. /\ NewRecord.status = "PENDING" /\ NewRecord.landed = Null /\ NewRecord.polls = 0
      BY DEF NewRecord, NoRecord
    <3>2. NewRecord \in Record
      <4>1. 0 \in 0 .. MaxLedger /\ 0 \in 0 .. Threshold /\ FALSE \in BOOLEAN
        BY <1>1, BoundsAssumption
      <4>2. NoRecord \in Record
        BY <4>1, Zenon DEF NoRecord, Record, Null
      <4> QED BY <4>2 DEF NewRecord, Record, ActiveStates
    <3>3. asked'[t] \in Nat
      BY <1>1
    <3> QED BY <3>1, <3>2, <3>3 DEF GoodRec
  <2>3. rec' \in [Txs -> Record] /\ \A u \in Txs : rec'[u] \in GoodRec(u)'
    BY <1>1, <1>3, <2>1, <2>2
  <2>4. t \in Registered'
    BY <1>1, <2>1, <2>2 DEF Registered
  <2>5. order' \in Seq(Registered')
    BY <1>1, <2>1, <2>4, SeqMonotonic, AppendProperties
  <2> QED BY <1>1, <1>4, <2>1, <2>3, <2>5 DEF TablesOK
<1>8. ASSUME NEW s \in Servers, NEW t \in Txs, Persist(s, t) PROVE TablesOK'
  <2>1. PICK i \in CallsAt(s, t, "persist") :
          rec' = [rec EXCEPT ![t] = [Call(s, i).rec EXCEPT !.repaired = rec[t].repaired]]
    BY <1>8 DEF Persist
  <2>2. Touch(t) /\ UNCHANGED <<row, expired>>
    BY <1>8 DEF Persist
  <2> DEFINE c == Call(s, i)
             r == [c.rec EXCEPT !.repaired = rec[t].repaired]
  <2>3. c \in GoodCall /\ c.tx = t
    BY <1>2, <2>1 DEF CallsAt
  <2>4. c.rec \in GoodRec(t)' /\ c.rec.status # "absent" /\ t \in Registered'
    BY <1>1, <2>3 DEF GoodCall
  <2>5. r \in Record /\ r.status = c.rec.status /\ r.landed = c.rec.landed /\ r.polls = c.rec.polls
    BY <1>1, <2>4 DEF GoodRec, Record
  <2>6. r \in GoodRec(t)'
    BY <2>4, <2>5 DEF GoodRec
  <2> HIDE DEF r, c
  <2>7. rec' \in [Txs -> Record] /\ \A u \in Txs : rec'[u] \in GoodRec(u)'
    BY <1>1, <1>3, <2>1, <2>5, <2>6 DEF r, c
  <2>8. order' \in Seq(Registered')
    BY <1>1, <2>2, <2>4, TouchType
  <2> QED BY <1>1, <1>4, <2>2, <2>7, <2>8 DEF TablesOK
<1>9. ASSUME NEW s \in Servers, NEW t \in Txs, Mark(s, t) PROVE TablesOK'
  <2>1. /\ rec' = [rec EXCEPT ![t].repaired = TRUE] /\ Touch(t) /\ UNCHANGED <<row, expired>>
        /\ \E i \in CallsAt(s, t, "mark") : TRUE
    BY <1>9 DEF Mark
  <2>2. PICK i \in CallsAt(s, t, "mark") : TRUE
    BY <2>1
  <2>3. t \in Registered'
    BY <1>1, <1>2, <2>2 DEF CallsAt, GoodCall
  <2> DEFINE r == [rec[t] EXCEPT !.repaired = TRUE]
  <2>4. r \in GoodRec(t)' /\ r \in Record
    BY <1>1, <1>3 DEF GoodRec, Record
  <2>5. rec' = [rec EXCEPT ![t] = r]
    BY <2>1
  <2> HIDE DEF r
  <2>6. rec' \in [Txs -> Record] /\ \A u \in Txs : rec'[u] \in GoodRec(u)'
    BY <1>1, <1>3, <2>4, <2>5
  <2>7. order' \in Seq(Registered')
    BY <1>1, <2>1, <2>3, TouchType
  <2> QED BY <1>1, <1>4, <2>1, <2>6, <2>7 DEF TablesOK
<1>10. ASSUME NEW s \in Servers, NEW t \in Txs, Repair(s, t) PROVE TablesOK'
  <2>1. PICK i \in CallsAt(s, t, "repair") :
          row' = [row EXCEPT ![t] = Repaired(t, Call(s, i).rec.status)]
    BY <1>10 DEF Repair
  <2>2. UNCHANGED <<rec, order, expired>>
    BY <1>10 DEF Repair
  <2> DEFINE status == Call(s, i).rec.status
  <2>3. Call(s, i) \in GoodCall /\ Call(s, i).tx = t /\ Call(s, i).pc = "repair"
    BY <1>2, <2>1 DEF CallsAt
  <2>4. status \in TerminalStates /\ Call(s, i).rec \in GoodRec(t)'
    BY <1>1, <2>3 DEF GoodCall
  <2>5. /\ status = "FAILED" => chain'[t].status = "failed"
        /\ status = "NOT_FOUND" => asked'[t] >= Threshold
    BY <2>4 DEF GoodRec
  <2> HIDE DEF status
  <2>6. /\ Repaired(t, status) \in RowStatuses
        /\ Repaired(t, status) = "payment_failed" => chain'[t].status = "failed"
        /\ Repaired(t, status) = "payment_not_found" => asked'[t] >= Threshold
    BY <1>1, <1>4, <2>4, <2>5, RepairedType
  <2>7. row' = [row EXCEPT ![t] = Repaired(t, status)]
    BY <2>1 DEF status
  <2>8. order' \in Seq(Registered')
    BY <1>1, <2>2, SeqMonotonic
  <2> QED BY <1>1, <1>3, <1>4, <2>2, <2>6, <2>7, <2>8 DEF TablesOK
<1>11. ASSUME NEW t \in Txs, Expire(t) \/ BridgeRead(t) PROVE TablesOK'
  BY <1>1, <1>5, <1>11 DEF Expire, BridgeRead
<1>12. ASSUME NEW s \in Servers,
              Crash(s) \/ (\E k \in Ticks : Tick(s, k)) \/ (\E t \in Txs : Evaluate(s, t) \/ WriteFails(s, t))
       PROVE  TablesOK'
  <2>1. UNCHANGED <<rec, row, expired, order>>
    BY <1>12 DEF Crash, Tick, TickLedger, TickLoad, TickQueue, Evaluate, WriteFails
  <2> QED BY <1>1, <1>5, <2>1
<1>13. CASE CloseLedger
  BY <1>1, <1>5, <1>13 DEF CloseLedger
<1>14. CASE UNCHANGED vars
  BY <1>1, <1>5, <1>14 DEF vars
<1>15. CASE Next
  BY <1>6, <1>7, <1>8, <1>9, <1>10, <1>11, <1>12, <1>13, <1>15 DEF Next, Routes, Process
<1> QED BY <1>14, <1>15

\* A call that starts from a queued copy, with a ledger that closed.
LEMMA StartIsGood ==
  ASSUME WorldOK, NEW x \in GoodItem, NEW now \in 0 .. ledger
  PROVE  /\ x.tx \in Txs
         /\ [tx |-> x.tx, rec |-> x.rec, ledger |-> now, pc |-> "evaluate"] \in GoodCall
<1>1. now \in 0 .. MaxLedger /\ now <= ledger
  BY BoundsAssumption DEF WorldOK
<1>2. /\ x.tx \in Txs /\ x.tx \in Registered /\ x.rec \in Record /\ x.rec \in GoodRec(x.tx)
      /\ x.rec.status \in ActiveStates
  BY DEF GoodItem, Item
<1>3. x.rec.status # "absent"
  BY <1>2 DEF ActiveStates
<1> QED BY <1>1, <1>2, <1>3 DEF GoodCall, Calls

\* Taking one call out of the sequence.
LEMMA WithoutType ==
  ASSUME NEW C, NEW q \in Seq(C), NEW i \in 1 .. Len(q)
  PROVE  /\ SubSeq(q, 1, i - 1) \o SubSeq(q, i + 1, Len(q)) \in Seq(C)
         /\ Len(SubSeq(q, 1, i - 1) \o SubSeq(q, i + 1, Len(q))) = Len(q) - 1
         /\ \A j \in 1 .. Len(q) - 1 :
              (SubSeq(q, 1, i - 1) \o SubSeq(q, i + 1, Len(q)))[j] =
                IF j < i THEN q[j] ELSE q[j + 1]
<1> DEFINE a == SubSeq(q, 1, i - 1)
           b == SubSeq(q, i + 1, Len(q))
<1>1. Len(q) \in Nat /\ i \in Nat /\ 1 <= i /\ i <= Len(q) /\ \A j \in 1 .. Len(q) : q[j] \in C
  OBVIOUS
<1>2. /\ a \in Seq(C) /\ Len(a) = i - 1
      /\ \A j \in 1 .. i - 1 - 1 + 1 : a[j] = q[1 + j - 1]
  <2>1. \A j \in 1 .. (i - 1) : q[j] \in C
    BY <1>1
  <2> HIDE DEF a
  <2> QED BY <1>1, <2>1, SubSeqProperties DEF a
<1>3. /\ b \in Seq(C) /\ Len(b) = Len(q) - i
      /\ \A j \in 1 .. Len(q) - (i + 1) + 1 : b[j] = q[i + 1 + j - 1]
  <2>1. \A j \in (i + 1) .. Len(q) : q[j] \in C
    BY <1>1
  <2> HIDE DEF b
  <2> QED BY <1>1, <2>1, SubSeqProperties DEF b
<1> HIDE DEF a, b
<1>4. /\ a \o b \in Seq(C) /\ Len(a \o b) = Len(a) + Len(b)
      /\ \A j \in 1 .. Len(a) + Len(b) : (a \o b)[j] = IF j <= Len(a) THEN a[j] ELSE b[j - Len(a)]
  BY <1>2, <1>3, ConcatProperties
<1>5. Len(a \o b) = Len(q) - 1
  BY <1>1, <1>2, <1>3, <1>4
<1>6. ASSUME NEW j \in 1 .. Len(q) - 1
      PROVE  (a \o b)[j] = IF j < i THEN q[j] ELSE q[j + 1]
  <2>1. (a \o b)[j] = IF j <= i - 1 THEN a[j] ELSE b[j - (i - 1)]
    BY <1>1, <1>2, <1>3, <1>4
  <2>2. CASE j < i
    <3>1. j \in 1 .. i - 1 - 1 + 1 /\ 1 + j - 1 = j /\ j <= i - 1
      BY <1>1, <2>2
    <3>2. a[j] = q[1 + j - 1]
      BY <1>2, <3>1
    <3> QED BY <2>1, <2>2, <3>1, <3>2
  <2>3. CASE ~(j < i)
    <3>1. j - (i - 1) \in 1 .. Len(q) - (i + 1) + 1 /\ ~(j <= i - 1)
      BY <1>1, <2>3
    <3>2. b[j - (i - 1)] = q[i + 1 + (j - (i - 1)) - 1]
      BY <1>3, <3>1
    <3>3. i + 1 + (j - (i - 1)) - 1 = j + 1
      BY <1>1
    <3> QED BY <2>1, <2>3, <3>1, <3>2, <3>3
  <2> QED BY <2>2, <2>3
<1> QED BY <1>4, <1>5, <1>6 DEF a, b

\* What the memory of process s is after its call i ended, before it drains.
Ended(s, i) ==
  [proc[s] EXCEPT
     !.calls = SubSeq(@, 1, i - 1) \o SubSeq(@, i + 1, Len(@)),
     !.active = @ \ {Call(s, i).tx}]

\* When a call ends the memory keeps its shape.
LEMMA FinishMemory ==
  ASSUME WorldOK, ProcOK, NEW s \in Servers, NEW i \in 1 .. Len(proc[s].calls)
  PROVE  /\ Ended(s, i) \in Memory(GoodItem, GoodCall, ledger)
         /\ Drain(Ended(s, i), Call(s, i).ledger) \in Memory(GoodItem, GoodCall, ledger)
         /\ Finish(s, i) <=> SetProc(s, Drain(Ended(s, i), Call(s, i).ledger))
<1> DEFINE p == proc[s]
           calls == SubSeq(p.calls, 1, i - 1) \o SubSeq(p.calls, i + 1, Len(p.calls))
           active == p.active \ {Call(s, i).tx}
<1>1. p \in Memory(GoodItem, GoodCall, ledger)
  BY DEF ProcOK
<1>2. /\ p.calls \in Seq(GoodCall) /\ IsFiniteSet(p.active) /\ p.active \subseteq Txs
      /\ Call(s, i) \in GoodCall
  BY <1>1 DEF Memory, Call
<1>3. calls \in Seq(GoodCall)
  <2> HIDE DEF p
  <2> QED BY <1>2, WithoutType DEF p
<1>4. active \in {S \in SUBSET Txs : IsFiniteSet(S)}
  <2>1. active \in SUBSET p.active
    OBVIOUS
  <2>2. IsFiniteSet(active)
    BY <1>2, <2>1, FS_Subset
  <2> QED BY <1>2, <2>2
<1>5. Ended(s, i) = [p EXCEPT !.calls = calls, !.active = active]
  BY <1>1 DEF Ended, Memory
<1> HIDE DEF calls, active
<1>6. Ended(s, i) \in Memory(GoodItem, GoodCall, ledger)
  BY <1>1, <1>3, <1>4, <1>5 DEF Memory
<1>7. Call(s, i).ledger \in 0 .. ledger
  BY <1>2, BoundsAssumption DEF GoodCall, Calls, WorldOK
<1>8. Drain(Ended(s, i), Call(s, i).ledger) \in Memory(GoodItem, GoodCall, ledger)
  <2>1. \A x \in GoodItem :
          /\ x.tx \in Txs
          /\ [tx |-> x.tx, rec |-> x.rec, ledger |-> Call(s, i).ledger, pc |-> "evaluate"]
               \in GoodCall
    BY <1>7, StartIsGood
  <2> QED BY <1>6, <2>1, DrainMemory
<1>9. Finish(s, i) <=> SetProc(s, Drain(Ended(s, i), Call(s, i).ledger))
  BY DEF Finish, Ended, Call
<1> QED BY <1>6, <1>8, <1>9

\* A call that goes on leaves the rest of the memory alone.
LEMMA ContinueMemory ==
  ASSUME NEW I, NEW C, NEW now, NEW p \in Memory(I, C, now), NEW i \in 1 .. Len(p.calls), NEW c \in C
  PROVE  [p EXCEPT !.calls[i] = c] \in Memory(I, C, now)
<1>1. p.calls \in Seq(C)
  BY DEF Memory
<1>2. [p.calls EXCEPT ![i] = c] \in Seq(C)
  BY <1>1, ExceptSeq
<1>3. [p EXCEPT !.calls[i] = c] = [p EXCEPT !.calls = [p.calls EXCEPT ![i] = c]]
  BY DEF Memory
<1> HIDE DEF Memory
<1> QED BY <1>2, <1>3 DEF Memory

\* The batch of a tick holds copies of active records.
LEMMA BatchIsGood ==
  ASSUME TablesOK, NEW n \in Nat, n <= Len(Kept(order, Loadable))
  PROVE  [i \in 1 .. n |-> [tx |-> Kept(order, Loadable)[i], rec |-> rec[Kept(order, Loadable)[i]]]]
           \in Seq(GoodItem)
<1> DEFINE found == Kept(order, Loadable)
<1>1. found \in Seq(Registered \cap Loadable)
  BY KeptType DEF TablesOK
<1> HIDE DEF found
<1>2. ASSUME NEW i \in 1 .. n PROVE [tx |-> found[i], rec |-> rec[found[i]]] \in GoodItem
  <2>1. found[i] \in Registered \cap Loadable
    BY <1>1 DEF found
  <2>2. /\ found[i] \in Txs /\ rec[found[i]] \in GoodRec(found[i]) /\ rec[found[i]] \in Record
        /\ rec[found[i]].status \in ActiveStates
    BY <2>1 DEF Loadable, TablesOK
  <2> QED BY <2>1, <2>2 DEF GoodItem, Item
<1> DEFINE batch == [i \in 1 .. n |-> [tx |-> found[i], rec |-> rec[found[i]]]]
<1>3. batch \in Seq(GoodItem)
  <2>1. batch \in [1 .. n -> GoodItem]
    BY <1>2
  <2> HIDE DEF batch
  <2> QED BY <2>1
<1> QED BY <1>3 DEF found

\* The sets that say what a process may hold, named for the proofs.
Held == Memory(GoodItem, GoodCall, ledger)

\* Ticks load, queue and start copies that are good.
LEMMA TickHeld ==
  ASSUME IndInv, NEW s \in Servers, NEW k \in Ticks, Tick(s, k)
  PROVE  \E p \in Held : SetProc(s, p)
<1> DEFINE m == proc[s]
<1>1. /\ m \in Held /\ WorldOK /\ TablesOK /\ ProcOK /\ ledger \in Nat /\ BatchSize \in Nat
      /\ m.tick[k] \in Ticking(GoodItem, ledger) /\ m.tick \in [Ticks -> Ticking(GoodItem, ledger)]
      /\ m.queue \in Seq(GoodItem)
  BY BoundsAssumption, ConfigAssumption DEF IndInv, ProcOK, Held, Memory, WorldOK
<1> HIDE DEF m
<1>2. ASSUME NEW t \in Ticking(GoodItem, ledger) PROVE [m EXCEPT !.tick[k] = t] \in Held
  <2>1. [m.tick EXCEPT ![k] = t] \in [Ticks -> Ticking(GoodItem, ledger)]
    BY <1>1, <1>2
  <2>2. [m EXCEPT !.tick[k] = t] = [m EXCEPT !.tick = [m.tick EXCEPT ![k] = t]]
    BY <1>1 DEF Held, Memory
  <2> QED BY <1>1, <2>1, <2>2 DEF Held, Memory
<1>3. NoTick \in Ticking(GoodItem, ledger)
  <2>1. << >> \in Seq(GoodItem) /\ Null \in 0 .. ledger
    BY <1>1 DEF Null
  <2> QED BY <2>1, Zenon DEF NoTick, Ticking
<1>4. ASSUME TickLedger(s, k) PROVE \E p \in Held : SetProc(s, p)
  <2>1. [NoTick EXCEPT !.pc = "load", !.ledger = ledger] \in Ticking(GoodItem, ledger)
    <3>1. ledger \in 0 .. ledger
      BY <1>1
    <3> HIDE DEF Held
    <3> QED BY <1>3, <3>1 DEF Ticking
  <2>2. SetProc(s, [m EXCEPT !.tick[k] = [NoTick EXCEPT !.pc = "load", !.ledger = ledger]])
    BY <1>4 DEF TickLedger, m
  <2> QED BY <1>2, <2>1, <2>2
<1>5. ASSUME TickLoad(s, k) PROVE \E p \in Held : SetProc(s, p)
  <2> DEFINE found == Kept(order, Loadable)
             n == IF Len(found) < BatchSize THEN Len(found) ELSE BatchSize
             batch == [i \in 1 .. n |-> [tx |-> found[i], rec |-> rec[found[i]]]]
             t == IF n = 0 THEN NoTick ELSE [m.tick[k] EXCEPT !.pc = "queue", !.batch = batch]
  <2>1. found \in Seq(Registered \cap Loadable)
    BY <1>1, KeptType DEF TablesOK
  <2>2. n \in Nat /\ n <= Len(found)
    <3> HIDE DEF found
    <3> QED BY <1>1, <2>1
  <2>3. batch \in Seq(GoodItem)
    <3> HIDE DEF n
    <3> QED BY <1>1, <2>2, BatchIsGood
  <2>4. SetProc(s, [m EXCEPT !.tick[k] = t])
    BY <1>5 DEF TickLoad, m
  <2> HIDE DEF batch, n
  <2>5. t \in Ticking(GoodItem, ledger)
    BY <1>1, <1>3, <2>3 DEF Ticking
  <2> HIDE DEF t
  <2> QED BY <1>2, <2>4, <2>5
<1>6. ASSUME TickQueue(s, k) PROVE \E p \in Held : SetProc(s, p)
  <2> DEFINE batch == m.tick[k].batch
             new == {batch[i] : i \in {j \in 1 .. Len(batch) : IsNew(m, batch[j].tx)}}
             p == [m EXCEPT !.queue = m.queue \o Kept(batch, new), !.tick[k] = NoTick]
             q == [[m EXCEPT !.tick[k] = NoTick] EXCEPT !.queue = m.queue \o Kept(batch, new)]
  <2>1. SetProc(s, Drain([m EXCEPT !.queue = @ \o Kept(batch, new), !.tick[k] = NoTick],
                         m.tick[k].ledger))
    BY <1>6 DEF TickQueue, m
  <2>2. batch \in Seq(GoodItem) /\ m.tick[k].ledger \in 0 .. ledger
    BY <1>1 DEF Ticking
  <2> HIDE DEF batch, new
  <2>3. m.queue \o Kept(batch, new) \in Seq(GoodItem)
    <3>1. Kept(batch, new) \in Seq(GoodItem)
      BY <2>2, KeptPlaces
    <3> QED BY <1>1, <3>1, ConcatProperties
  <2>4. [m EXCEPT !.tick[k] = NoTick] \in Held
    BY <1>2, <1>3
  <2>5. [m EXCEPT !.queue = @ \o Kept(batch, new), !.tick[k] = NoTick] = q
    BY <1>1 DEF Held, Memory
  <2>6. q \in Held
    BY <2>3, <2>4 DEF Held, Memory
  <2> HIDE DEF q
  <2>7. \A x \in GoodItem :
          /\ x.tx \in Txs
          /\ [tx |-> x.tx, rec |-> x.rec, ledger |-> m.tick[k].ledger, pc |-> "evaluate"]
               \in GoodCall
    BY <1>1, <2>2, StartIsGood
  <2>8. Drain(q, m.tick[k].ledger) \in Held
    BY <2>6, <2>7, DrainMemory DEF Held
  <2>9. SetProc(s, Drain(q, m.tick[k].ledger))
    BY <2>1, <2>5, Zenon
  <2> QED BY <2>8, <2>9
<1> QED BY <1>4, <1>5, <1>6 DEF Tick

\* Calls poll, write, repair and end with copies that are good.
LEMMA CallHeld ==
  ASSUME IndInv, [Next]_vars, NEW s \in Servers, NEW t \in Txs, Process(s, t) \/ WriteFails(s, t)
  PROVE  \E p \in Held' : SetProc(s, p)
<1> DEFINE m == proc[s]
<1>1. /\ m \in Held /\ m \in Held' /\ WorldOK /\ TablesOK /\ ProcOK /\ Held \subseteq Held'
      /\ GoodCall \subseteq GoodCall' /\ asked \in [Txs -> 0 .. Threshold]
      /\ GoodRec(t) \subseteq GoodRec(t)'
      /\ \A i \in 1 .. Len(m.calls) : Call(s, i) \in GoodCall
  <2>1. Held \subseteq Held' /\ GoodCall \subseteq GoodCall' /\ GoodRec(t) \subseteq GoodRec(t)'
    BY MemoryGrows DEF Held
  <2>2. m \in Held /\ WorldOK /\ TablesOK /\ ProcOK /\ asked \in [Txs -> 0 .. Threshold]
    BY DEF IndInv, ProcOK, Held, TablesOK
  <2>3. \A i \in 1 .. Len(m.calls) : Call(s, i) \in GoodCall
    BY <2>2 DEF Held, Memory, Call
  <2> QED BY <2>1, <2>2, <2>3
<1> HIDE DEF m
<1>2. ASSUME NEW i \in 1 .. Len(m.calls), NEW c \in GoodCall', Continue(s, i, c)
      PROVE  \E p \in Held' : SetProc(s, p)
  <2>1. SetProc(s, [m EXCEPT !.calls[i] = c])
    BY <1>2 DEF Continue, m
  <2>2. [m EXCEPT !.calls[i] = c] \in Held'
    <3>1. m \in Memory(GoodItem', GoodCall', ledger')
      BY <1>1 DEF Held, Memory, Ticking
    <3>2. [m EXCEPT !.calls[i] = c] \in Memory(GoodItem', GoodCall', ledger')
      BY <1>2, <3>1, ContinueMemory
    <3> QED BY <3>2 DEF Held, Memory, Ticking
  <2> QED BY <2>1, <2>2
<1>3. ASSUME NEW i \in 1 .. Len(m.calls), Finish(s, i)
      PROVE  \E p \in Held' : SetProc(s, p)
  <2>1. SetProc(s, Drain(Ended(s, i), Call(s, i).ledger))
    BY <1>1, <1>3, FinishMemory DEF m
  <2>2. Drain(Ended(s, i), Call(s, i).ledger) \in Held
    BY <1>1, FinishMemory DEF m, Held
  <2> QED BY <1>1, <2>1, <2>2
<1>4. \A pc : \A i \in CallsAt(s, t, pc) :
        /\ i \in 1 .. Len(m.calls) /\ Call(s, i) \in GoodCall
        /\ Call(s, i).tx = t /\ Call(s, i).pc = pc
  BY <1>1 DEF CallsAt, m
<1>5. ASSUME NEW c \in GoodCall, c.tx = t, NEW r \in GoodRec(t)', r.status # "absent"
      PROVE  [c EXCEPT !.rec = r, !.pc = "persist"] \in GoodCall'
  <2>1. c \in GoodCall' /\ c \in Calls
    BY <1>1 DEF GoodCall
  <2>2. r \in Record
    BY DEF GoodRec
  <2>3. [c EXCEPT !.rec = r, !.pc = "persist"] \in Calls
    BY <2>1, <2>2 DEF Calls
  <2>4. /\ [c EXCEPT !.rec = r, !.pc = "persist"].tx = t
        /\ [c EXCEPT !.rec = r, !.pc = "persist"].rec = r
        /\ [c EXCEPT !.rec = r, !.pc = "persist"].pc = "persist"
        /\ [c EXCEPT !.rec = r, !.pc = "persist"].ledger = c.ledger
    BY <1>5, <2>1 DEF Calls
  <2>5. t \in Registered' /\ c.ledger <= ledger'
    BY <1>5, <2>1 DEF GoodCall
  <2> DEFINE d == [c EXCEPT !.rec = r, !.pc = "persist"]
  <2> HIDE DEF d
  <2>6. /\ d \in Calls /\ d.tx = t /\ d.rec = r /\ d.pc = "persist" /\ d.ledger = c.ledger
    BY <2>3, <2>4 DEF d
  <2>7. d \in GoodCall'
    BY <1>5, <2>5, <2>6 DEF GoodCall
  <2> QED BY <2>7 DEF d
<1>6. ASSUME NEW c \in GoodCall, c.rec.status \in TerminalStates, NEW pc \in {"repair", "mark"}
      PROVE  [c EXCEPT !.pc = pc] \in GoodCall'
  <2>1. c \in GoodCall' /\ c \in Calls
    BY <1>1 DEF GoodCall
  <2> DEFINE d == [c EXCEPT !.pc = pc]
  <2>2. d \in Calls /\ d.tx = c.tx /\ d.rec = c.rec /\ d.pc = pc /\ d.ledger = c.ledger
    BY <2>1 DEF Calls
  <2> HIDE DEF d
  <2>3. d \in GoodCall'
    BY <1>6, <2>1, <2>2 DEF GoodCall
  <2> QED BY <2>3 DEF d
<1>7. ASSUME Evaluate(s, t) PROVE \E p \in Held' : SetProc(s, p)
  <2>1. PICK i \in CallsAt(s, t, "evaluate") :
          \/ /\ Call(s, i).rec.status = "PENDING"
             /\ \E outcome \in Answers(t) :
                  Continue(s, i, [Call(s, i) EXCEPT
                                    !.rec = FromPending(t, Call(s, i).rec, outcome), !.pc = "persist"])
             /\ asked' = [asked EXCEPT ![t] = OneMore(asked[t])]
          \/ /\ Call(s, i).rec.status = "CONFIRMING"
             /\ Continue(s, i, [Call(s, i) EXCEPT
                                  !.rec = FromConfirming(t, Call(s, i).rec, Call(s, i).ledger),
                                  !.pc = "persist"])
    BY <1>7 DEF Evaluate
  <2>2. UNCHANGED world
    BY <1>7 DEF Evaluate
  <2> DEFINE c == Call(s, i)
  <2>3. c \in GoodCall /\ c.tx = t /\ i \in 1 .. Len(m.calls)
    BY <1>4, <2>1
  <2>4. c.rec \in GoodRec(t) /\ c.ledger \in 0 .. ledger
    BY <1>1, <2>3, BoundsAssumption DEF GoodCall, Calls, WorldOK
  <2> HIDE DEF c
  <2>5. CASE c.rec.status = "PENDING"
    <3>1. PICK outcome \in Answers(t) :
            Continue(s, i, [c EXCEPT !.rec = FromPending(t, c.rec, outcome), !.pc = "persist"])
      BY <2>1, <2>5 DEF c
    <3>2. asked' = [asked EXCEPT ![t] = OneMore(asked[t])]
      BY <2>1, <2>5 DEF c
    <3>3. /\ FromPending(t, c.rec, outcome) \in GoodRec(t)'
          /\ FromPending(t, c.rec, outcome).status # "absent"
      BY <1>1, <2>2, <2>4, <2>5, <3>2, PollIsGood
    <3>4. [c EXCEPT !.rec = FromPending(t, c.rec, outcome), !.pc = "persist"] \in GoodCall'
      BY <1>5, <2>3, <3>3
    <3> QED BY <1>2, <2>3, <3>1, <3>4
  <2>6. CASE c.rec.status = "CONFIRMING"
    <3>1. Continue(s, i, [c EXCEPT !.rec = FromConfirming(t, c.rec, c.ledger), !.pc = "persist"])
      BY <2>1, <2>6 DEF c
    <3>2. /\ FromConfirming(t, c.rec, c.ledger) \in GoodRec(t)'
          /\ FromConfirming(t, c.rec, c.ledger).status # "absent"
      BY <1>1, <2>4, <2>6, DepthIsGood
    <3>3. [c EXCEPT !.rec = FromConfirming(t, c.rec, c.ledger), !.pc = "persist"] \in GoodCall'
      BY <1>5, <2>3, <3>2
    <3> QED BY <1>2, <2>3, <3>1, <3>3
  <2> QED BY <2>1, <2>5, <2>6 DEF c
<1>8. ASSUME Persist(s, t) PROVE \E p \in Held' : SetProc(s, p)
  <2>1. PICK i \in CallsAt(s, t, "persist") :
          IF NeedsRepair(Call(s, i).rec) THEN Continue(s, i, [Call(s, i) EXCEPT !.pc = "repair"])
                                         ELSE Finish(s, i)
    BY <1>8 DEF Persist
  <2>2. Call(s, i) \in GoodCall /\ i \in 1 .. Len(m.calls)
    BY <1>4, <2>1
  <2>3. CASE NeedsRepair(Call(s, i).rec)
    <3>1. [Call(s, i) EXCEPT !.pc = "repair"] \in GoodCall'
      BY <1>6, <2>2, <2>3 DEF NeedsRepair
    <3> QED BY <1>2, <2>1, <2>2, <2>3, <3>1
  <2>4. CASE ~NeedsRepair(Call(s, i).rec)
    BY <1>3, <2>1, <2>2, <2>4
  <2> QED BY <2>3, <2>4
<1>9. ASSUME Repair(s, t) PROVE \E p \in Held' : SetProc(s, p)
  <2>1. PICK i \in CallsAt(s, t, "repair") : Continue(s, i, [Call(s, i) EXCEPT !.pc = "mark"])
    BY <1>9 DEF Repair
  <2>2. Call(s, i) \in GoodCall /\ i \in 1 .. Len(m.calls) /\ Call(s, i).pc = "repair"
    BY <1>4, <2>1
  <2>3. Call(s, i).rec.status \in TerminalStates
    BY <2>2 DEF GoodCall
  <2>4. [Call(s, i) EXCEPT !.pc = "mark"] \in GoodCall'
    BY <1>6, <2>2, <2>3
  <2> QED BY <1>2, <2>1, <2>2, <2>4
<1>10. ASSUME Mark(s, t) PROVE \E p \in Held' : SetProc(s, p)
  <2>1. PICK i \in CallsAt(s, t, "mark") : Finish(s, i)
    BY <1>10 DEF Mark
  <2> QED BY <1>3, <1>4, <2>1
<1>11. ASSUME WriteFails(s, t) PROVE \E p \in Held' : SetProc(s, p)
  <2>1. PICK i \in CallsAt(s, t, "persist") \cup CallsAt(s, t, "repair") \cup CallsAt(s, t, "mark") :
          Finish(s, i)
    BY <1>11 DEF WriteFails
  <2> QED BY <1>3, <1>4, <2>1
<1> QED BY <1>7, <1>8, <1>9, <1>10, <1>11 DEF Process

\* A process that is started again holds nothing.
LEMMA FreshHeld ==
  ASSUME ledger \in Nat
  PROVE  Fresh \in Held
<1>1. << >> \in Seq(GoodItem) /\ << >> \in Seq(GoodCall) /\ Null \in 0 .. ledger
      /\ {} \in {S \in SUBSET Txs : IsFiniteSet(S)}
  BY FS_EmptySet DEF Null
<1>2. NoTick \in Ticking(GoodItem, ledger)
  BY <1>1, Zenon DEF NoTick, Ticking
<1>3. [k \in Ticks |-> NoTick] \in [Ticks -> Ticking(GoodItem, ledger)]
  BY <1>2
<1> QED BY <1>1, <1>3, Zenon DEF Fresh, Held, Memory

\* The memory of every process is as described after every step.
LEMMA ProcStep ==
  ASSUME IndInv, [Next]_vars
  PROVE  ProcOK'
<1> SUFFICES proc' \in [Servers -> Held']
  BY DEF ProcOK, Held
<1>1. /\ proc \in [Servers -> Held] /\ proc \in [Servers -> Held'] /\ Held \subseteq Held'
      /\ ledger \in Nat
  BY MemoryGrows, BoundsAssumption DEF IndInv, ProcOK, Held, WorldOK
<1>2. ASSUME NEW s \in Servers, NEW p \in Held', SetProc(s, p) PROVE proc' \in [Servers -> Held']
  BY <1>1, <1>2 DEF SetProc
<1>3. ASSUME UNCHANGED proc PROVE proc' \in [Servers -> Held']
  BY <1>1, <1>3
<1>4. ASSUME NEW s \in Servers, Crash(s) PROVE proc' \in [Servers -> Held']
  BY <1>1, <1>2, <1>4, FreshHeld DEF Crash
<1>5. ASSUME NEW s \in Servers, NEW k \in Ticks, Tick(s, k) PROVE proc' \in [Servers -> Held']
  BY <1>1, <1>2, <1>5, TickHeld
<1>6. ASSUME NEW s \in Servers, NEW t \in Txs, Process(s, t) \/ WriteFails(s, t)
      PROVE  proc' \in [Servers -> Held']
  BY <1>2, <1>6, CallHeld
<1>7. ASSUME CloseLedger \/ \E t \in Txs : Routes(t) \/ Expire(t) PROVE UNCHANGED proc
  BY <1>7 DEF CloseLedger, Routes, Create, Register, CompleteJob, CancelJob, BridgeRead,
                       BridgeSave, Expire
<1>8. CASE UNCHANGED vars
  BY <1>3, <1>8 DEF vars
<1>9. CASE Next
  BY <1>3, <1>4, <1>5, <1>6, <1>7, <1>9 DEF Next
<1> QED BY <1>8, <1>9

\* Nothing has been registered, queued or closed at the start.
LEMMA InitInd == Init => IndInv
<1> SUFFICES ASSUME Init PROVE IndInv
  OBVIOUS
<1>1. /\ ledger = 0 /\ chain = [t \in Txs |-> [status |-> "not_found", ledger |-> Null]]
      /\ row = [t \in Txs |-> "absent"] /\ rec = [t \in Txs |-> NoRecord] /\ order = <<>>
      /\ expired = {} /\ asked = [t \in Txs |-> 0] /\ proc = [s \in Servers |-> Fresh]
  BY DEF Init
<1>2. 0 \in 0 .. MaxLedger /\ 0 \in 0 .. Threshold /\ FALSE \in BOOLEAN
  BY BoundsAssumption, ConfigAssumption
<1>3. WorldOK
  BY <1>1, <1>2 DEF WorldOK, Null
<1>4. TablesOK
  <2>1. NoRecord \in Record
    BY <1>2, Zenon DEF NoRecord, Record, Null
  <2>2. NoRecord.status = "absent" /\ NoRecord.landed = Null /\ NoRecord.polls = 0
    BY DEF NoRecord
  <2>3. \A t \in Txs : NoRecord \in GoodRec(t)
    BY <1>1, <2>1, <2>2 DEF GoodRec
  <2>4. << >> \in Seq(Registered)
    OBVIOUS
  <2> QED BY <1>1, <1>2, <2>1, <2>3, <2>4 DEF TablesOK, RowStatuses, Waiting
<1>5. ProcOK
  <2>1. Fresh \in Held
    BY <1>1, FreshHeld
  <2> QED BY <1>1, <2>1 DEF ProcOK, Held
<1>6. BridgeOK
  BY DEF Init, BridgeOK
<1> QED BY <1>3, <1>4, <1>5, <1>6 DEF IndInv

\* Only jobs are read by the webhook.
LEMMA BridgeStep ==
  ASSUME BridgeOK, [Next]_vars
  PROVE  BridgeOK'
<1>1. ASSUME NEW t \in Txs, BridgeRead(t) \/ BridgeSave(t) PROVE BridgeOK'
  BY <1>1 DEF BridgeRead, BridgeSave, BridgeOK
<1>2. ASSUME NEW t \in Txs,
             Create(t) \/ Register(t) \/ CompleteJob(t) \/ CancelJob(t) \/ Expire(t)
      PROVE  UNCHANGED bridge
  BY <1>2 DEF Create, Register, CompleteJob, CancelJob, Expire
<1>3. ASSUME NEW s \in Servers, Crash(s) \/ \E k \in Ticks : Tick(s, k) PROVE UNCHANGED bridge
  BY <1>3 DEF Crash, Tick, TickLedger, TickLoad, TickQueue
<1>4. ASSUME NEW s \in Servers, NEW t \in Txs, Process(s, t) \/ WriteFails(s, t)
      PROVE  UNCHANGED bridge
  BY <1>4 DEF Process, Evaluate, Persist, Repair, Mark, WriteFails
<1>5. CloseLedger \/ UNCHANGED vars => UNCHANGED bridge
  BY DEF CloseLedger, vars
<1>6. UNCHANGED bridge => BridgeOK'
  BY DEF BridgeOK
<1> QED BY <1>1, <1>2, <1>3, <1>4, <1>5, <1>6 DEF Next, Routes

\* What the tables, the batches, the queues and the calls of the reconciler say
\* of a payment is true of the ledger, in every reachable state (scheduler.ts,
\* state-machine.ts, repair.ts).
THEOREM Invariance == Spec => []IndInv
<1>1. IndInv /\ [Next]_vars => IndInv'
  BY WorldStep, TablesStep, BridgeStep, ProcStep DEF IndInv
<1> QED BY <1>1, InitInd, PTL DEF Spec

\* Every table, batch, queue and call keeps its type.
THEOREM TypeCorrect == Spec => []TypeOK
<1>1. IndInv => TypeOK
  <2> SUFFICES ASSUME IndInv PROVE TypeOK
    OBVIOUS
  <2>1. /\ order \in Seq(Txs)
    <3>1. Registered \subseteq Txs /\ order \in Seq(Registered)
      BY DEF Registered, IndInv, TablesOK
    <3> QED BY <3>1, SeqMonotonic
  <2>2. ASSUME NEW s \in Servers
        PROVE  /\ \A k \in Ticks : /\ proc[s].tick[k].pc \in {"idle", "load", "queue"}
                                   /\ proc[s].tick[k].batch \in Seq(Item)
               /\ proc[s].queue \in Seq(Item) /\ proc[s].active \subseteq Txs
               /\ proc[s].calls \in Seq(Calls)
    <3>1. GoodItem \subseteq Item /\ GoodCall \subseteq Calls
      BY DEF GoodItem, GoodCall
    <3>2. Seq(GoodItem) \subseteq Seq(Item) /\ Seq(GoodCall) \subseteq Seq(Calls)
      BY <3>1, SeqMonotonic
    <3>3. proc[s] \in Memory(GoodItem, GoodCall, ledger)
      BY DEF IndInv, ProcOK
    <3> QED BY <3>2, <3>3 DEF Memory, Ticking
  <2> QED BY <2>1, <2>2 DEF TypeOK, IndInv, WorldOK, TablesOK, BridgeOK
<1> QED BY <1>1, Invariance, PTL

\* Whatever stale copies the calls work from, no record and no job claims a
\* finality that the ledger does not have (state-machine.ts, repair.ts).
THEOREM FinalityCorrect == Spec => []FinalityIsTrue
<1>1. IndInv => FinalityIsTrue
  BY DEF IndInv, TablesOK, GoodRec, FinalityIsTrue
<1> QED BY <1>1, Invariance, PTL

\* A job is given up only after Threshold polls, failed ones included, whichever
\* processes counted them and however they overwrote each other's pollCount
\* (state-machine.ts).
THEOREM GivenUpCorrect == Spec => []GivenUpAfterPolls
<1>1. IndInv => GivenUpAfterPolls
  BY DEF IndInv, TablesOK, GoodRec, GivenUpAfterPolls
<1> QED BY <1>1, Invariance, PTL

\* The first of the agent's result, a pause and the repair decides a row for all of
\* them: every later UPDATE of theirs finds it no longer pending.  Only a webhook
\* delivery that had read a job moves it after that, to the status it meant to save
\* (repair.ts, result/route.ts, status/route.ts, cross-chain-webhook/route.ts).
THEOREM SettledCorrect == Spec => SettledOnce
<1> DEFINE Saved(t) == /\ Source[t] = "commerce_job"
                       /\ bridge[t] # "none" /\ row'[t] = bridge[t] /\ bridge'[t] = "none"
           Settled == \A t \in Txs : row[t] \notin Waiting /\ row'[t] # row[t] => Saved(t)
<1>1. IndInv /\ [Next]_vars => [Settled]_vars
  <2> SUFFICES ASSUME IndInv, [Next]_vars PROVE Settled
    OBVIOUS
  <2>1. /\ row \in [Txs -> RowStatuses] /\ bridge \in [Txs -> {"none", "pending", "completed"}]
        /\ \A t \in Txs : bridge[t] # "none" => Source[t] = "commerce_job"
    BY DEF IndInv, TablesOK, BridgeOK
  <2>2. ASSUME NEW t \in Txs, Create(t) \/ CompleteJob(t) \/ CancelJob(t) PROVE Settled
    BY <2>1, <2>2 DEF Create, CompleteJob, CancelJob, Waiting
  <2>3. ASSUME NEW s \in Servers, NEW t \in Txs, Repair(s, t) PROVE Settled
    <3>1. PICK status : row' = [row EXCEPT ![t] = Repaired(t, status)]
      BY <2>3 DEF Repair
    <3> QED BY <2>1, <3>1 DEF Repaired, Waiting
  <2>4. ASSUME UNCHANGED row PROVE Settled
    BY <2>4
  <2>5. \A t \in Txs : Register(t) \/ BridgeRead(t) \/ Expire(t) => UNCHANGED row
    BY DEF Register, BridgeRead, Expire
  <2>6. \A s \in Servers : Crash(s) \/ (\E k \in Ticks : Tick(s, k)) => UNCHANGED row
    BY DEF Crash, Tick, TickLedger, TickLoad, TickQueue
  <2>7. \A s \in Servers, t \in Txs :
          Evaluate(s, t) \/ Persist(s, t) \/ Mark(s, t) \/ WriteFails(s, t) => UNCHANGED row
    BY DEF Evaluate, Persist, Mark, WriteFails
  <2>8. CloseLedger \/ UNCHANGED vars => UNCHANGED row
    BY DEF CloseLedger, vars
  <2>11. ASSUME NEW t \in Txs, BridgeSave(t) PROVE Settled
    <3>1. Saved(t)
      BY <2>1, <2>11 DEF BridgeSave
    <3>2. \A u \in Txs \ {t} : row'[u] = row[u]
      BY <2>1, <2>11 DEF BridgeSave
    <3> HIDE DEF Saved
    <3> QED BY <3>1, <3>2
  <2> HIDE DEF Settled
  <2>9. ASSUME NEW t \in Txs, Routes(t) \/ Expire(t) PROVE Settled
    BY <2>2, <2>4, <2>5, <2>9, <2>11 DEF Routes
  <2>10. ASSUME NEW s \in Servers, NEW t \in Txs, Process(s, t) \/ WriteFails(s, t) PROVE Settled
    BY <2>3, <2>4, <2>7, <2>10 DEF Process
  <2> QED BY <2>4, <2>6, <2>8, <2>9, <2>10 DEF Next
<1> QED BY <1>1, Invariance, PTL DEF Spec, SettledOnce

-----------------------------------------------------------------------------
(* No record twice.                                                        *)

\* A sequence without repetition keeps that when it is filtered.
LEMMA KeptOnce ==
  ASSUME NEW D, NEW seq \in Seq(D), NEW S
  PROVE  /\ (\A i, j \in 1 .. Len(seq) : seq[i] = seq[j] => i = j) =>
              \A i, j \in 1 .. Len(Kept(seq, S)) : Kept(seq, S)[i] = Kept(seq, S)[j] => i = j
         /\ NoTwice(seq) => NoTwice(Kept(seq, S))
<1> DEFINE q == Kept(seq, S)
<1>1. q \in Seq(D) /\ \E h : Places(seq, S, q, Len(seq), h)
  BY KeptPlaces
<1> HIDE DEF q
<1>2. PICK h : Places(seq, S, q, Len(seq), h)
  BY <1>1
<1>3. /\ Len(q) \in Nat /\ Len(seq) \in Nat
      /\ \A i \in 1 .. Len(q) : h[i] \in 1 .. Len(seq) /\ q[i] = seq[h[i]]
      /\ \A i, j \in 1 .. Len(q) : i < j => h[i] < h[j]
  BY <1>1, <1>2 DEF Places
<1>4. \A i, j \in 1 .. Len(q) : h[i] = h[j] => i = j
  <2> SUFFICES ASSUME NEW i \in 1 .. Len(q), NEW j \in 1 .. Len(q), i # j PROVE h[i] # h[j]
    OBVIOUS
  <2>1. /\ i < j => h[i] < h[j]
        /\ j < i => h[j] < h[i]
        /\ h[i] \in Int /\ h[j] \in Int /\ i \in Int /\ j \in Int
    BY <1>3
  <2> QED BY <2>1
<1>5. (\A i, j \in 1 .. Len(seq) : seq[i] = seq[j] => i = j) =>
         \A i, j \in 1 .. Len(q) : q[i] = q[j] => i = j
  BY <1>3, <1>4
<1>6. NoTwice(seq) => NoTwice(q)
  BY <1>3, <1>4 DEF NoTwice
<1> QED BY <1>5, <1>6 DEF q

\* Draining starts records that no call works on, and only into free room.
LEMMA DrainOnce ==
  ASSUME NEW I, NEW C, NEW high, NEW p \in Memory(I, C, high), NEW now, OnceOK(p)
  PROVE  OnceOK(Drain(p, now))
<1>1. /\ p.queue \in Seq(I) /\ IsFiniteSet(p.active) /\ p.calls \in Seq(C)
      /\ Len(p.queue) \in Nat /\ Len(p.calls) \in Nat
  BY DEF Memory
<1>2. PICK k \in 0 .. Len(p.queue) : /\ k = 0 \/ Cardinality(p.active) + k <= Limit
                                     /\ Drain(p, now) = Begun(p, k, now)
  BY <1>1, DrainBegins
<1>3. Cardinality(p.active) = Len(p.calls)
  <2> DEFINE f == [i \in 1 .. Len(p.calls) |-> p.calls[i].tx]
  <2>1. \A i, j \in 1 .. Len(p.calls) : f[i] = f[j] => i = j
    BY DEF OnceOK, NoTwice
  <2>2. Cardinality({f[i] : i \in 1 .. Len(p.calls)}) = Len(p.calls)
    <3> HIDE DEF f
    <3> QED BY <1>1, <2>1, FirstValues
  <2>3. {f[i] : i \in 1 .. Len(p.calls)} = p.active
    BY DEF OnceOK, TxsOf
  <2> QED BY <2>2, <2>3, Zenon
<1> DEFINE q == SubSeq(p.queue, k + 1, Len(p.queue))
           new == Started(p.queue, k, now)
           calls == p.calls \o new
           d == Begun(p, k, now)
<1>4. d.queue = q /\ d.calls = calls /\ d.active = p.active \cup {p.queue[i].tx : i \in 1 .. k}
  BY DEF Begun, Memory
<1>5. Len(q) = Len(p.queue) - k /\ \A j \in 1 .. Len(q) : q[j] = p.queue[k + j]
  <2>1. \A i \in k + 1 .. Len(p.queue) : p.queue[i] \in I
    BY <1>1
  <2>2. /\ Len(q) = IF k + 1 <= Len(p.queue) THEN Len(p.queue) - (k + 1) + 1 ELSE 0
        /\ \A j \in 1 .. Len(p.queue) - (k + 1) + 1 : q[j] = p.queue[k + 1 + j - 1]
    <3> HIDE DEF q
    <3> QED BY <1>1, <2>1, SubSeqProperties DEF q
  <2> HIDE DEF q
  <2>3. Len(q) = Len(p.queue) - k
    BY <1>1, <2>2
  <2>4. ASSUME NEW j \in 1 .. Len(q) PROVE q[j] = p.queue[k + j]
    <3>1. j \in 1 .. Len(p.queue) - (k + 1) + 1 /\ k + 1 + j - 1 = k + j
      BY <1>1, <2>3
    <3> QED BY <2>2, <3>1
  <2> QED BY <2>3, <2>4
<1>6. /\ Len(calls) = Len(p.calls) + k
      /\ \A j \in 1 .. Len(calls) :
           calls[j].tx = IF j <= Len(p.calls) THEN p.calls[j].tx ELSE p.queue[j - Len(p.calls)].tx
  <2>1. new \in Seq({new[i] : i \in 1 .. k}) /\ Len(new) = k
    BY <1>1 DEF Started
  <2>2. \A i \in 1 .. k : new[i].tx = p.queue[i].tx
    BY DEF Started
  <2> HIDE DEF new
  <2> DEFINE X == C \cup {new[i] : i \in 1 .. k}
  <2>3. p.calls \in Seq(X) /\ new \in Seq(X)
    BY <1>1, <2>1, SeqMonotonic
  <2> HIDE DEF X
  <2>4. /\ Len(calls) = Len(p.calls) + Len(new)
        /\ \A j \in 1 .. Len(p.calls) + Len(new) :
             calls[j] = IF j <= Len(p.calls) THEN p.calls[j] ELSE new[j - Len(p.calls)]
    BY <2>3, ConcatProperties
  <2> HIDE DEF calls
  <2>5. ASSUME NEW j \in 1 .. Len(calls)
        PROVE  calls[j].tx = IF j <= Len(p.calls) THEN p.calls[j].tx
                             ELSE p.queue[j - Len(p.calls)].tx
    <3>1. calls[j] = IF j <= Len(p.calls) THEN p.calls[j] ELSE new[j - Len(p.calls)]
      BY <2>4
    <3>2. j <= Len(p.calls) \/ j - Len(p.calls) \in 1 .. k
      BY <1>1, <2>1, <2>4
    <3> QED BY <2>2, <3>1, <3>2
  <2> QED BY <2>1, <2>4, <2>5
<1> HIDE DEF q, calls, d
<1>7. /\ \A i, j \in 1 .. Len(p.queue) : p.queue[i].tx = p.queue[j].tx => i = j
      /\ \A i, j \in 1 .. Len(p.calls) : p.calls[i].tx = p.calls[j].tx => i = j
      /\ p.active = {p.calls[i].tx : i \in 1 .. Len(p.calls)}
      /\ \A i \in 1 .. Len(p.queue) : p.queue[i].tx \notin p.active
      /\ Len(p.calls) <= Limit
  <2>1. /\ p.active = {p.calls[i].tx : i \in 1 .. Len(p.calls)} /\ Len(p.calls) <= Limit
        /\ p.active \cap {p.queue[i].tx : i \in 1 .. Len(p.queue)} = {}
    BY Zenon DEF OnceOK, TxsOf
  <2>2. \A i \in 1 .. Len(p.queue) : p.queue[i].tx \notin p.active
    BY <2>1
  <2>3. /\ \A i, j \in 1 .. Len(p.queue) : p.queue[i].tx = p.queue[j].tx => i = j
        /\ \A i, j \in 1 .. Len(p.calls) : p.calls[i].tx = p.calls[j].tx => i = j
    BY DEF OnceOK, NoTwice
  <2> QED BY <2>1, <2>2, <2>3
<1>8. NoTwice(q)
  <2> SUFFICES ASSUME NEW i \in 1 .. Len(q), NEW j \in 1 .. Len(q), q[i].tx = q[j].tx PROVE i = j
    BY DEF NoTwice
  <2>1. k + i \in 1 .. Len(p.queue) /\ k + j \in 1 .. Len(p.queue)
    BY <1>1, <1>5
  <2>2. k + i = k + j
    BY <1>5, <1>7, <2>1
  <2> QED BY <2>2
<1>9. NoTwice(calls)
  <2> SUFFICES ASSUME NEW i \in 1 .. Len(calls), NEW j \in 1 .. Len(calls),
                      calls[i].tx = calls[j].tx
               PROVE  i = j
    BY DEF NoTwice
  <2>1. \A u \in 1 .. Len(calls) : u \in 1 .. Len(p.calls) \/ u - Len(p.calls) \in 1 .. k
    BY <1>1, <1>6
  <2>2. \A u \in 1 .. k : u \in 1 .. Len(p.queue)
    BY <1>1
  <2>3. \A u \in 1 .. Len(p.calls), v \in 1 .. Len(p.queue) : p.calls[u].tx # p.queue[v].tx
    BY <1>7
  <2>4. \A u \in 1 .. Len(p.calls) : u <= Len(p.calls)
    BY <1>1
  <2>5. \A u \in 1 .. Len(calls) : u - Len(p.calls) \in 1 .. k => ~(u <= Len(p.calls))
    BY <1>1, <1>6
  <2>6. CASE i \in 1 .. Len(p.calls) /\ j \in 1 .. Len(p.calls)
    BY <1>6, <1>7, <2>4, <2>6
  <2>7. CASE i \in 1 .. Len(p.calls) /\ j - Len(p.calls) \in 1 .. k
    BY <1>6, <2>2, <2>3, <2>4, <2>5, <2>7
  <2>8. CASE i - Len(p.calls) \in 1 .. k /\ j \in 1 .. Len(p.calls)
    BY <1>6, <2>2, <2>3, <2>4, <2>5, <2>8
  <2>9. CASE i - Len(p.calls) \in 1 .. k /\ j - Len(p.calls) \in 1 .. k
    <3> DEFINE u == i - Len(p.calls)
               v == j - Len(p.calls)
    <3>1. ~(i <= Len(p.calls)) /\ ~(j <= Len(p.calls))
      BY <2>5, <2>9
    <3>2. calls[i].tx = p.queue[u].tx /\ calls[j].tx = p.queue[v].tx
      BY <1>6, <3>1
    <3>3. u \in 1 .. Len(p.queue) /\ v \in 1 .. Len(p.queue)
      BY <2>2, <2>9
    <3>4. p.queue[u].tx = p.queue[v].tx
      BY <3>2
    <3>5. u = v
      <4> HIDE DEF u, v
      <4> QED BY <1>7, <3>3, <3>4
    <3> QED BY <1>1, <1>6, <3>5
  <2> QED BY <2>1, <2>6, <2>7, <2>8, <2>9
<1>10. d.active = TxsOf(calls)
  <2>1. \A t \in d.active : \E j \in 1 .. Len(calls) : calls[j].tx = t
    <3>1. ASSUME NEW i \in 1 .. Len(p.calls) PROVE \E j \in 1 .. Len(calls) : calls[j].tx = p.calls[i].tx
      <4>1. i \in 1 .. Len(calls) /\ i <= Len(p.calls)
        BY <1>1, <1>6
      <4> QED BY <1>6, <4>1
    <3>2. ASSUME NEW i \in 1 .. k PROVE \E j \in 1 .. Len(calls) : calls[j].tx = p.queue[i].tx
      <4>1. /\ Len(p.calls) + i \in 1 .. Len(calls) /\ ~(Len(p.calls) + i <= Len(p.calls))
            /\ Len(p.calls) + i - Len(p.calls) = i
        BY <1>1, <1>6
      <4>2. calls[Len(p.calls) + i].tx = p.queue[i].tx
        BY <1>6, <4>1
      <4> QED BY <4>1, <4>2
    <3> SUFFICES ASSUME NEW t \in d.active PROVE \E j \in 1 .. Len(calls) : calls[j].tx = t
      OBVIOUS
    <3>3. (\E i \in 1 .. Len(p.calls) : t = p.calls[i].tx) \/ \E i \in 1 .. k : t = p.queue[i].tx
      BY <1>4, <1>7
    <3> QED BY <3>1, <3>2, <3>3
  <2>2. \A j \in 1 .. Len(calls) : calls[j].tx \in d.active
    <3> SUFFICES ASSUME NEW j \in 1 .. Len(calls) PROVE calls[j].tx \in d.active
      OBVIOUS
    <3>1. CASE j \in 1 .. Len(p.calls)
      <4>1. j <= Len(p.calls)
        BY <1>1, <3>1
      <4>2. calls[j].tx = p.calls[j].tx
        BY <1>6, <4>1
      <4>3. p.calls[j].tx \in p.active
        BY <1>7, <3>1
      <4> QED BY <1>4, <4>2, <4>3
    <3>2. CASE j - Len(p.calls) \in 1 .. k /\ ~(j <= Len(p.calls))
      <4>1. calls[j].tx = p.queue[j - Len(p.calls)].tx
        BY <1>6, <3>2
      <4>2. calls[j].tx \in {p.queue[i].tx : i \in 1 .. k}
        BY <3>2, <4>1
      <4> QED BY <1>4, <4>2
    <3> QED BY <1>1, <1>6, <3>1, <3>2
  <2> QED BY <2>1, <2>2 DEF TxsOf
<1>11. d.active \cap TxsOf(q) = {}
  <2> SUFFICES ASSUME NEW j \in 1 .. Len(q) PROVE q[j].tx \notin d.active
    BY DEF TxsOf
  <2>1. k + j \in 1 .. Len(p.queue) /\ q[j] = p.queue[k + j] /\ k + j \notin 1 .. k
    BY <1>1, <1>5
  <2>2. p.queue[k + j].tx \notin {p.queue[i].tx : i \in 1 .. k}
    <3>1. \A i \in 1 .. k : i \in 1 .. Len(p.queue) /\ i # k + j
      BY <1>1, <2>1
    <3> QED BY <1>7, <2>1, <3>1
  <2> QED BY <1>4, <1>7, <2>1, <2>2
<1>12. Len(calls) <= Limit
  BY <1>1, <1>2, <1>3, <1>6, <1>7
<1>13. OnceOK(d)
  BY <1>4, <1>8, <1>9, <1>10, <1>11, <1>12 DEF OnceOK
<1> QED BY <1>2, <1>13 DEF d

\* Draining leaves the ticks alone.
LEMMA DrainMemoryOnce ==
  ASSUME NEW I, NEW C, NEW high, NEW p \in Memory(I, C, high), NEW now, MemoryOnce(p)
  PROVE  MemoryOnce(Drain(p, now))
<1>1. p.queue \in Seq(I) /\ IsFiniteSet(p.active)
  BY DEF Memory
<1>2. PICK k \in 0 .. Len(p.queue) : Drain(p, now) = Begun(p, k, now)
  BY <1>1, DrainBegins
<1>3. Begun(p, k, now).tick = p.tick
  BY DEF Begun, Memory
<1>4. Drain(p, now).tick = p.tick
  BY <1>2, <1>3, Zenon
<1>5. OnceOK(Drain(p, now))
  BY DrainOnce DEF MemoryOnce
<1> QED BY <1>4, <1>5, Zenon DEF MemoryOnce

\* A call that ends takes its transaction with it, and only that one.
LEMMA EndedOnce ==
  ASSUME NEW s \in Servers, proc[s] \in Held, NEW i \in 1 .. Len(proc[s].calls), MemoryOnce(proc[s])
  PROVE  MemoryOnce(Ended(s, i))
<1> DEFINE m == proc[s]
           calls == SubSeq(m.calls, 1, i - 1) \o SubSeq(m.calls, i + 1, Len(m.calls))
           e == Ended(s, i)
<1>1. m.calls \in Seq(GoodCall) /\ Len(m.calls) \in Nat /\ i \in Nat /\ i <= Len(m.calls) /\ 1 <= i
  BY DEF Held, Memory
<1>2. /\ e.calls = calls /\ e.active = m.active \ {m.calls[i].tx} /\ e.queue = m.queue
      /\ e.tick = m.tick
  BY DEF Ended, Held, Memory, Call
<1> HIDE DEF e, m
<1>3. /\ Len(calls) = Len(m.calls) - 1
      /\ \A j \in 1 .. Len(m.calls) - 1 : calls[j] = IF j < i THEN m.calls[j] ELSE m.calls[j + 1]
  BY <1>1, WithoutType DEF m
<1> HIDE DEF calls
<1> DEFINE old(j) == IF j < i THEN j ELSE j + 1
<1>4. \A j \in 1 .. Len(calls) : /\ old(j) \in 1 .. Len(m.calls) /\ old(j) # i
                                 /\ calls[j] = m.calls[old(j)]
  BY <1>1, <1>3
<1>5. \A j, k \in 1 .. Len(calls) : old(j) = old(k) => j = k
  BY <1>1, <1>3
<1>6. \A j \in 1 .. Len(m.calls) : j # i => \E k \in 1 .. Len(calls) : old(k) = j
  <2> SUFFICES ASSUME NEW j \in 1 .. Len(m.calls), j # i PROVE \E k \in 1 .. Len(calls) : old(k) = j
    OBVIOUS
  <2>1. CASE j < i
    <3>1. j \in 1 .. Len(calls) /\ old(j) = j
      BY <1>1, <1>3, <2>1
    <3> QED BY <3>1
  <2>2. CASE j > i
    <3>1. j - 1 \in 1 .. Len(calls) /\ old(j - 1) = j
      BY <1>1, <1>3, <2>2
    <3> HIDE DEF old
    <3> QED BY <3>1
  <2> QED BY <1>1, <2>1, <2>2
<1> HIDE DEF old
<1>7. OnceOK(m)
  BY DEF MemoryOnce, m
<1>8. \A j, k \in 1 .. Len(m.calls) : m.calls[j].tx = m.calls[k].tx => j = k
  BY <1>7 DEF OnceOK, NoTwice
<1>9. NoTwice(calls)
  BY <1>4, <1>5, <1>8 DEF NoTwice
<1>10. m.active = {m.calls[j].tx : j \in 1 .. Len(m.calls)}
  BY <1>7, Zenon DEF OnceOK, TxsOf
<1>11. e.active = TxsOf(calls)
  <2>1. ASSUME NEW t \in e.active PROVE t \in TxsOf(calls)
    <3>1. PICK j \in 1 .. Len(m.calls) : t = m.calls[j].tx
      BY <1>2, <1>10, <2>1
    <3>2. j # i
      BY <1>2, <2>1, <3>1
    <3>3. PICK k \in 1 .. Len(calls) : old(k) = j
      BY <1>6, <3>2
    <3>4. calls[k].tx = t
      BY <1>4, <3>1, <3>3
    <3> QED BY <3>4 DEF TxsOf
  <2>2. ASSUME NEW j \in 1 .. Len(calls) PROVE calls[j].tx \in e.active
    <3>1. calls[j] = m.calls[old(j)] /\ old(j) \in 1 .. Len(m.calls) /\ old(j) # i
      BY <1>4
    <3>2. calls[j].tx \in m.active /\ calls[j].tx # m.calls[i].tx
      <4>1. i \in 1 .. Len(m.calls)
        BY <1>1
      <4>2. m.calls[old(j)].tx # m.calls[i].tx
        BY <1>8, <3>1, <4>1
      <4> QED BY <1>10, <3>1, <4>2
    <3> QED BY <1>2, <3>2
  <2> QED BY <2>1, <2>2 DEF TxsOf
<1>12. e.active \cap TxsOf(e.queue) = {}
  <2>1. m.active \cap TxsOf(m.queue) = {}
    BY <1>7 DEF OnceOK
  <2>2. e.active \subseteq m.active
    BY <1>2
  <2> QED BY <1>2, <2>1, <2>2
<1>13. Len(calls) <= Limit /\ NoTwice(m.queue)
  BY <1>1, <1>3, <1>7, ConfigAssumption DEF OnceOK
<1>14. OnceOK(e)
  BY <1>2, <1>9, <1>11, <1>12, <1>13, Zenon DEF OnceOK
<1>15. \A k \in Ticks : NoTwice(e.tick[k].batch)
  BY <1>2, Zenon DEF MemoryOnce, m
<1> QED BY <1>14, <1>15 DEF MemoryOnce, e

\* The new records of a batch are neither queued nor in progress.
LEMMA QueueOnce ==
  ASSUME NEW p \in Held, MemoryOnce(p), NEW batch \in Seq(GoodItem), NoTwice(batch),
         NEW new, new = {batch[i] : i \in {j \in 1 .. Len(batch) : IsNew(p, batch[j].tx)}}
  PROVE  OnceOK([p EXCEPT !.queue = p.queue \o Kept(batch, new)])
<1> DEFINE kept == Kept(batch, new)
           q == p.queue \o kept
           e == [p EXCEPT !.queue = q]
<1>1. p.queue \in Seq(GoodItem) /\ Len(p.queue) \in Nat
  BY DEF Held, Memory
<1>2. kept \in Seq(GoodItem \cap new) /\ kept \in Seq(GoodItem) /\ NoTwice(kept)
  BY KeptType, KeptPlaces, KeptOnce
<1> HIDE DEF kept
<1>3. Len(kept) \in Nat /\ \A j \in 1 .. Len(kept) : kept[j].tx \notin p.active \cup Queued(p)
  <2>1. Len(kept) \in Nat /\ \A j \in 1 .. Len(kept) : kept[j] \in new
    BY <1>2
  <2>2. \A x \in new : IsNew(p, x.tx)
    OBVIOUS
  <2> QED BY <2>1, <2>2 DEF IsNew
<1>4. /\ Len(q) = Len(p.queue) + Len(kept)
      /\ \A j \in 1 .. Len(p.queue) + Len(kept) :
           q[j] = IF j <= Len(p.queue) THEN p.queue[j] ELSE kept[j - Len(p.queue)]
  BY <1>1, <1>2, ConcatProperties
<1>5. e.queue = q /\ e.calls = p.calls /\ e.active = p.active
  BY DEF Held, Memory
<1> HIDE DEF q, e
<1>6. /\ NoTwice(p.queue) /\ NoTwice(p.calls) /\ p.active = TxsOf(p.calls)
      /\ p.active \cap TxsOf(p.queue) = {} /\ Len(p.calls) <= Limit
  BY DEF MemoryOnce, OnceOK
<1>7. \A j \in 1 .. Len(p.queue) : p.queue[j].tx \in Queued(p) /\ p.queue[j].tx \notin p.active
  <2>1. Queued(p) = TxsOf(p.queue)
    BY DEF Queued, TxsOf
  <2>2. \A j \in 1 .. Len(p.queue) : p.queue[j].tx \in TxsOf(p.queue)
    BY DEF TxsOf
  <2> QED BY <1>6, <2>1, <2>2
<1>8. \A j \in 1 .. Len(q) :
        \/ j \in 1 .. Len(p.queue) /\ q[j] = p.queue[j]
        \/ j - Len(p.queue) \in 1 .. Len(kept) /\ q[j] = kept[j - Len(p.queue)]
  BY <1>1, <1>3, <1>4
<1>9. NoTwice(q)
  <2> SUFFICES ASSUME NEW i \in 1 .. Len(q), NEW j \in 1 .. Len(q), q[i].tx = q[j].tx PROVE i = j
    BY DEF NoTwice
  <2>1. CASE i \in 1 .. Len(p.queue) /\ q[i] = p.queue[i] /\ j \in 1 .. Len(p.queue) /\ q[j] = p.queue[j]
    BY <1>6, <2>1 DEF NoTwice
  <2>2. CASE /\ i - Len(p.queue) \in 1 .. Len(kept) /\ q[i] = kept[i - Len(p.queue)]
             /\ j - Len(p.queue) \in 1 .. Len(kept) /\ q[j] = kept[j - Len(p.queue)]
    <3>1. i - Len(p.queue) = j - Len(p.queue)
      BY <1>2, <2>2 DEF NoTwice
    <3> QED BY <1>1, <1>3, <1>4, <3>1
  <2>3. CASE /\ i \in 1 .. Len(p.queue) /\ q[i] = p.queue[i]
             /\ j - Len(p.queue) \in 1 .. Len(kept) /\ q[j] = kept[j - Len(p.queue)]
    BY <1>3, <1>7, <2>3
  <2>4. CASE /\ j \in 1 .. Len(p.queue) /\ q[j] = p.queue[j]
             /\ i - Len(p.queue) \in 1 .. Len(kept) /\ q[i] = kept[i - Len(p.queue)]
    BY <1>3, <1>7, <2>4
  <2> QED BY <1>8, <2>1, <2>2, <2>3, <2>4
<1>10. p.active \cap TxsOf(q) = {}
  <2>1. \A j \in 1 .. Len(q) : q[j].tx \notin p.active
    BY <1>3, <1>7, <1>8
  <2> QED BY <2>1 DEF TxsOf
<1>11. OnceOK(e)
  BY <1>5, <1>6, <1>9, <1>10, Zenon DEF OnceOK
<1> QED BY <1>11 DEF e, q, kept

\* A transaction is in the order once, and again at its end when it is written.
LEMMA OrderStep ==
  ASSUME IndInv, OrderOnce, [Next]_vars
  PROVE  OrderOnce'
<1>1. order \in Seq(Registered) /\ Len(order) \in Nat
  BY DEF IndInv, TablesOK
<1>2. ASSUME NEW q \in Seq(Registered), \A i, j \in 1 .. Len(q) : q[i] = q[j] => i = j,
             NEW t, \A i \in 1 .. Len(q) : q[i] # t, order' = Append(q, t)
      PROVE  OrderOnce'
  <2>1. /\ Len(q) \in Nat /\ Len(order') = Len(q) + 1 /\ order'[Len(q) + 1] = t
        /\ \A i \in 1 .. Len(q) : order'[i] = q[i]
    <3>1. q \in Seq(Registered \cup {t}) /\ t \in Registered \cup {t}
      BY SeqMonotonic
    <3> QED BY <1>2, <3>1, AppendProperties
  <2> SUFFICES ASSUME NEW i \in 1 .. Len(order'), NEW j \in 1 .. Len(order'), order'[i] = order'[j]
               PROVE  i = j
    BY DEF OrderOnce
  <2>2. (i \in 1 .. Len(q) \/ i = Len(q) + 1) /\ (j \in 1 .. Len(q) \/ j = Len(q) + 1)
    BY <2>1
  <2> QED BY <1>2, <2>1, <2>2
<1>3. ASSUME NEW t \in Txs, Register(t) PROVE OrderOnce'
  <2>1. t \notin Registered /\ order' = Append(order, t)
    BY <1>3 DEF Register, Registered, NoRecord
  <2>2. \A i \in 1 .. Len(order) : order[i] # t
    BY <1>1, <2>1
  <2> QED BY <1>1, <1>2, <2>1, <2>2 DEF OrderOnce
<1>4. ASSUME NEW t \in Txs, Touch(t) PROVE OrderOnce'
  <2> DEFINE q == Kept(order, Txs \ {t})
  <2>1. q \in Seq(Registered \cap (Txs \ {t}))
    BY <1>1, KeptType
  <2>2. \A i, j \in 1 .. Len(q) : q[i] = q[j] => i = j
    BY <1>1, KeptOnce DEF OrderOnce
  <2>3. order' = Append(q, t)
    BY <1>4 DEF Touch
  <2> HIDE DEF q
  <2>4. q \in Seq(Registered) /\ \A i \in 1 .. Len(q) : q[i] # t
    BY <2>1, SeqMonotonic
  <2> QED BY <1>2, <2>2, <2>3, <2>4
<1>5. ASSUME UNCHANGED order PROVE OrderOnce'
  BY <1>5 DEF OrderOnce
<1>6. ASSUME NEW t \in Txs, Routes(t) \/ Expire(t) PROVE OrderOnce'
  BY <1>3, <1>5, <1>6 DEF Routes, Create, CompleteJob, CancelJob, BridgeRead, BridgeSave, Expire
<1>7. ASSUME NEW s \in Servers, Crash(s) \/ \E k \in Ticks : Tick(s, k) PROVE OrderOnce'
  BY <1>5, <1>7 DEF Crash, Tick, TickLedger, TickLoad, TickQueue
<1>8. ASSUME NEW s \in Servers, NEW t \in Txs, Process(s, t) \/ WriteFails(s, t) PROVE OrderOnce'
  <2>1. Persist(s, t) \/ Mark(s, t) => Touch(t)
    BY DEF Persist, Mark
  <2>2. Evaluate(s, t) \/ Repair(s, t) \/ WriteFails(s, t) => UNCHANGED order
    BY DEF Evaluate, Repair, WriteFails
  <2> QED BY <1>4, <1>5, <1>8, <2>1, <2>2 DEF Process
<1>9. CASE UNCHANGED vars
  BY <1>5, <1>9 DEF vars
<1>10. CASE Next
  BY <1>5, <1>6, <1>7, <1>8, <1>10 DEF Next, CloseLedger
<1> QED BY <1>9, <1>10

\* Ticks that overlap queue no record twice.
LEMMA TickOnce ==
  ASSUME IndInv, OnceInv, NEW s \in Servers, NEW k \in Ticks, Tick(s, k)
  PROVE  \E p : SetProc(s, p) /\ MemoryOnce(p)
<1> DEFINE m == proc[s]
<1>1. /\ m \in Held /\ MemoryOnce(m) /\ OnceOK(m) /\ TablesOK /\ WorldOK /\ ledger \in Nat
      /\ m.tick[k] \in Ticking(GoodItem, ledger) /\ BatchSize \in Nat
      /\ m.tick \in [Ticks -> Ticking(GoodItem, ledger)]
  BY BoundsAssumption, ConfigAssumption
     DEF IndInv, ProcOK, Held, Memory, WorldOK, OnceInv, MemoryOnce
<1> HIDE DEF m
<1>2. ASSUME NEW t, NoTwice(t.batch) PROVE MemoryOnce([m EXCEPT !.tick[k] = t])
  <2> DEFINE e == [m EXCEPT !.tick[k] = t]
  <2>1. /\ e.queue = m.queue /\ e.calls = m.calls /\ e.active = m.active
        /\ \A j \in Ticks : e.tick[j] = IF j = k THEN t ELSE m.tick[j]
    BY <1>1 DEF Held, Memory
  <2> HIDE DEF e
  <2>2. OnceOK(e)
    BY <1>1, <2>1, Zenon DEF OnceOK
  <2>3. \A j \in Ticks : NoTwice(e.tick[j].batch)
    BY <1>1, <1>2, <2>1 DEF MemoryOnce
  <2> QED BY <2>2, <2>3 DEF MemoryOnce, e
<1>3. NoTwice(<< >>) /\ NoTick.batch = << >> /\ NoTwice(NoTick.batch)
  BY DEF NoTwice, NoTick
<1>4. ASSUME TickLedger(s, k) PROVE \E p : SetProc(s, p) /\ MemoryOnce(p)
  <2> DEFINE t == [NoTick EXCEPT !.pc = "load", !.ledger = ledger]
  <2>1. SetProc(s, [m EXCEPT !.tick[k] = t])
    BY <1>4 DEF TickLedger, m
  <2>2. t.batch = << >>
    BY DEF NoTick
  <2> HIDE DEF t
  <2> QED BY <1>2, <1>3, <2>1, <2>2
<1>5. ASSUME TickLoad(s, k) PROVE \E p : SetProc(s, p) /\ MemoryOnce(p)
  <2> DEFINE found == Kept(order, Loadable)
             n == IF Len(found) < BatchSize THEN Len(found) ELSE BatchSize
             batch == [i \in 1 .. n |-> [tx |-> found[i], rec |-> rec[found[i]]]]
             t == IF n = 0 THEN NoTick ELSE [m.tick[k] EXCEPT !.pc = "queue", !.batch = batch]
  <2>1. found \in Seq(Registered \cap Loadable) /\ order \in Seq(Registered)
    BY <1>1, KeptType DEF TablesOK
  <2>2. \A i, j \in 1 .. Len(found) : found[i] = found[j] => i = j
    BY <2>1, KeptOnce DEF OnceInv, OrderOnce
  <2>3. SetProc(s, [m EXCEPT !.tick[k] = t])
    BY <1>5 DEF TickLoad, m
  <2> HIDE DEF found
  <2>4. n \in Nat /\ n <= Len(found) /\ Len(found) \in Nat
    BY <1>1, <2>1
  <2> HIDE DEF n
  <2>5. Len(batch) = n /\ \A i \in 1 .. n : batch[i].tx = found[i]
    BY <2>4
  <2> HIDE DEF batch
  <2>6. NoTwice(batch)
    BY <2>2, <2>4, <2>5 DEF NoTwice
  <2>7. t.batch = << >> \/ t.batch = batch
    BY <1>1, <1>3 DEF Ticking
  <2>8. NoTwice(t.batch)
    BY <1>3, <2>6, <2>7, Zenon
  <2> HIDE DEF t
  <2> QED BY <1>2, <2>3, <2>8
<1>6. ASSUME TickQueue(s, k) PROVE \E p : SetProc(s, p) /\ MemoryOnce(p)
  <2> DEFINE batch == m.tick[k].batch
             new == {batch[i] : i \in {j \in 1 .. Len(batch) : IsNew(m, batch[j].tx)}}
             idle == [m EXCEPT !.tick[k] = NoTick]
             e == [m EXCEPT !.queue = m.queue \o Kept(batch, new)]
             q == [idle EXCEPT !.queue = m.queue \o Kept(batch, new)]
  <2>1. SetProc(s, Drain([m EXCEPT !.queue = @ \o Kept(batch, new), !.tick[k] = NoTick],
                         m.tick[k].ledger))
    BY <1>6 DEF TickQueue, m
  <2>2. batch \in Seq(GoodItem) /\ NoTwice(batch) /\ m.queue \in Seq(GoodItem)
    BY <1>1 DEF Ticking, MemoryOnce, Held, Memory
  <2>3. OnceOK(e)
    BY <1>1, <2>2, QueueOnce
  <2> HIDE DEF batch, new
  <2>4. [m EXCEPT !.queue = @ \o Kept(batch, new), !.tick[k] = NoTick] = q
    BY <1>1 DEF Held, Memory
  <2>5. m.queue \o Kept(batch, new) \in Seq(GoodItem)
    <3>1. Kept(batch, new) \in Seq(GoodItem)
      BY <2>2, KeptPlaces
    <3> QED BY <2>2, <3>1, ConcatProperties
  <2>6. NoTick \in Ticking(GoodItem, ledger)
    <3>1. << >> \in Seq(GoodItem) /\ Null \in 0 .. ledger
      BY <1>1 DEF Null
    <3> QED BY <3>1, Zenon DEF NoTick, Ticking
  <2>7. q \in Held
    <3>1. [m.tick EXCEPT ![k] = NoTick] \in [Ticks -> Ticking(GoodItem, ledger)]
      BY <1>1, <2>6
    <3>2. q = [m EXCEPT !.queue = m.queue \o Kept(batch, new),
                        !.tick = [m.tick EXCEPT ![k] = NoTick]]
      BY <1>1 DEF Held, Memory
    <3> HIDE DEF q
    <3> QED BY <1>1, <2>5, <3>1, <3>2 DEF Held, Memory
  <2>8. MemoryOnce(idle)
    BY <1>2, <1>3
  <2>9. /\ q.queue = e.queue /\ q.calls = e.calls /\ q.active = e.active /\ q.tick = idle.tick
    BY <1>1 DEF Held, Memory
  <2> HIDE DEF q, e, idle
  <2>10. OnceOK(q) /\ \A j \in Ticks : NoTwice(q.tick[j].batch)
    <3>1. OnceOK(q)
      BY <2>3, <2>9, Zenon DEF OnceOK
    <3>2. \A j \in Ticks : NoTwice(q.tick[j].batch)
      BY <2>8, <2>9, Zenon DEF MemoryOnce
    <3> QED BY <3>1, <3>2
  <2>11. MemoryOnce(Drain(q, m.tick[k].ledger))
    BY <2>7, <2>10, DrainMemoryOnce DEF Held, MemoryOnce
  <2>12. SetProc(s, Drain(q, m.tick[k].ledger))
    BY <2>1, <2>4, Zenon
  <2> QED BY <2>11, <2>12
<1> QED BY <1>4, <1>5, <1>6 DEF Tick

\* A call keeps its transaction until it ends.
LEMMA CallOnce ==
  ASSUME IndInv, OnceInv, NEW s \in Servers, NEW t \in Txs, Process(s, t) \/ WriteFails(s, t)
  PROVE  \E p : SetProc(s, p) /\ MemoryOnce(p)
<1> DEFINE m == proc[s]
<1>1. m \in Held /\ MemoryOnce(m) /\ OnceOK(m) /\ WorldOK /\ ProcOK /\ m.calls \in Seq(GoodCall)
  BY DEF IndInv, ProcOK, Held, Memory, OnceInv, MemoryOnce
<1>2. ASSUME NEW i \in 1 .. Len(m.calls), NEW c, c.tx = Call(s, i).tx, Continue(s, i, c)
      PROVE  \E p : SetProc(s, p) /\ MemoryOnce(p)
  <2>1. SetProc(s, [m EXCEPT !.calls[i] = c]) /\ c.tx = m.calls[i].tx
    BY <1>2 DEF Continue, Call
  <2> HIDE DEF m
  <2> DEFINE e == [m EXCEPT !.calls[i] = c]
  <2>2. /\ e.queue = m.queue /\ e.active = m.active /\ e.tick = m.tick
        /\ e.calls = [m.calls EXCEPT ![i] = c]
    BY <1>1 DEF Held, Memory
  <2> HIDE DEF e
  <2>3. Len(e.calls) = Len(m.calls) /\ \A j \in 1 .. Len(m.calls) : e.calls[j].tx = m.calls[j].tx
    BY <1>1, <2>1, <2>2
  <2>4. TxsOf(e.calls) = TxsOf(m.calls)
    BY <2>3 DEF TxsOf
  <2>5. NoTwice(e.calls)
    BY <1>1, <2>3 DEF OnceOK, NoTwice
  <2>6. /\ NoTwice(m.queue) /\ m.active = TxsOf(m.calls) /\ m.active \cap TxsOf(m.queue) = {}
        /\ Len(m.calls) <= Limit
    BY <1>1 DEF OnceOK
  <2>7. /\ NoTwice(e.queue) /\ e.active = TxsOf(e.calls) /\ e.active \cap TxsOf(e.queue) = {}
        /\ Len(e.calls) <= Limit
    BY <2>2, <2>3, <2>4, <2>6, Zenon
  <2>8. OnceOK(e)
    BY <2>5, <2>7 DEF OnceOK
  <2>9. \A k \in Ticks : NoTwice(e.tick[k].batch)
    BY <1>1, <2>2, Zenon DEF MemoryOnce
  <2> QED BY <2>1, <2>8, <2>9 DEF e, MemoryOnce
<1>3. ASSUME NEW i \in 1 .. Len(m.calls), Finish(s, i)
      PROVE  \E p : SetProc(s, p) /\ MemoryOnce(p)
  <2>1. SetProc(s, Drain(Ended(s, i), Call(s, i).ledger))
    BY <1>1, <1>3, FinishMemory
  <2>2. Ended(s, i) \in Held /\ MemoryOnce(Ended(s, i))
    BY <1>1, FinishMemory, EndedOnce DEF Held
  <2>3. MemoryOnce(Drain(Ended(s, i), Call(s, i).ledger))
    BY <2>2, DrainMemoryOnce DEF Held
  <2> QED BY <2>1, <2>3
<1> HIDE DEF m
<1>4. \A pc : \A i \in CallsAt(s, t, pc) : i \in 1 .. Len(m.calls) /\ Call(s, i) \in Calls
  BY <1>1 DEF CallsAt, m, Call, GoodCall
<1>5. ASSUME Evaluate(s, t) PROVE \E p : SetProc(s, p) /\ MemoryOnce(p)
  <2>1. PICK i \in CallsAt(s, t, "evaluate") :
          \E r : Continue(s, i, [Call(s, i) EXCEPT !.rec = r, !.pc = "persist"])
    BY <1>5 DEF Evaluate
  <2>2. PICK r : Continue(s, i, [Call(s, i) EXCEPT !.rec = r, !.pc = "persist"])
    BY <2>1
  <2>3. [Call(s, i) EXCEPT !.rec = r, !.pc = "persist"].tx = Call(s, i).tx
    BY <1>4 DEF Calls
  <2> QED BY <1>2, <1>4, <2>2, <2>3
<1>6. ASSUME Persist(s, t) PROVE \E p : SetProc(s, p) /\ MemoryOnce(p)
  <2>1. PICK i \in CallsAt(s, t, "persist") :
          Continue(s, i, [Call(s, i) EXCEPT !.pc = "repair"]) \/ Finish(s, i)
    BY <1>6 DEF Persist
  <2>2. [Call(s, i) EXCEPT !.pc = "repair"].tx = Call(s, i).tx
    BY <1>4 DEF Calls
  <2> QED BY <1>2, <1>3, <1>4, <2>1, <2>2
<1>7. ASSUME Repair(s, t) PROVE \E p : SetProc(s, p) /\ MemoryOnce(p)
  <2>1. PICK i \in CallsAt(s, t, "repair") : Continue(s, i, [Call(s, i) EXCEPT !.pc = "mark"])
    BY <1>7 DEF Repair
  <2>2. [Call(s, i) EXCEPT !.pc = "mark"].tx = Call(s, i).tx
    BY <1>4 DEF Calls
  <2> QED BY <1>2, <1>4, <2>1, <2>2
<1>8. ASSUME Mark(s, t) PROVE \E p : SetProc(s, p) /\ MemoryOnce(p)
  <2>1. PICK i \in CallsAt(s, t, "mark") : Finish(s, i)
    BY <1>8 DEF Mark
  <2> QED BY <1>3, <1>4, <2>1
<1>9. ASSUME WriteFails(s, t) PROVE \E p : SetProc(s, p) /\ MemoryOnce(p)
  <2>1. PICK i \in CallsAt(s, t, "persist") \cup CallsAt(s, t, "repair") \cup CallsAt(s, t, "mark") :
          Finish(s, i)
    BY <1>9 DEF WriteFails
  <2> QED BY <1>3, <1>4, <2>1
<1> QED BY <1>5, <1>6, <1>7, <1>8, <1>9 DEF Process

\* A process that holds nothing holds nothing twice.
LEMMA FreshOnce == MemoryOnce(Fresh)
<1>1. /\ Fresh.queue = << >> /\ Fresh.calls = << >> /\ Fresh.active = {}
      /\ \A k \in Ticks : Fresh.tick[k].batch = << >>
  BY DEF Fresh, NoTick
<1>2. NoTwice(<< >>) /\ TxsOf(<< >>) = {} /\ Len(<< >>) <= Limit
  BY ConfigAssumption DEF NoTwice, TxsOf
<1>3. OnceOK(Fresh)
  BY <1>1, <1>2, Zenon DEF OnceOK
<1>4. \A k \in Ticks : NoTwice(Fresh.tick[k].batch)
  BY <1>1, <1>2, Zenon
<1> QED BY <1>3, <1>4 DEF MemoryOnce

\* The order, the batches, the queues and the calls hold no record twice, after
\* every step.
LEMMA OnceStep ==
  ASSUME IndInv, OnceInv, [Next]_vars
  PROVE  OnceInv'
<1>1. OrderOnce'
  BY OrderStep DEF OnceInv
<1> SUFFICES \A s \in Servers : MemoryOnce(proc'[s])
  BY <1>1 DEF OnceInv, MemoryOnce, OnceOK, NoTwice, TxsOf
<1>2. proc \in [Servers -> Held] /\ \A s \in Servers : MemoryOnce(proc[s])
  BY DEF IndInv, ProcOK, Held, OnceInv
<1>3. ASSUME NEW s \in Servers, NEW p, SetProc(s, p), MemoryOnce(p)
      PROVE  \A u \in Servers : MemoryOnce(proc'[u])
  <2> SUFFICES ASSUME NEW u \in Servers PROVE MemoryOnce(proc'[u])
    OBVIOUS
  <2>1. proc'[u] = IF u = s THEN p ELSE proc[u]
    BY <1>2, <1>3 DEF SetProc
  <2>2. proc'[u] = p \/ proc'[u] = proc[u]
    BY <2>1
  <2> QED BY <1>2, <1>3, <2>2, Zenon
<1>4. ASSUME UNCHANGED proc PROVE \A u \in Servers : MemoryOnce(proc'[u])
  BY <1>2, <1>4, Zenon
<1>5. ASSUME NEW s \in Servers, Crash(s) PROVE \A u \in Servers : MemoryOnce(proc'[u])
  BY <1>3, <1>5, FreshOnce DEF Crash
<1>6. ASSUME NEW s \in Servers, NEW k \in Ticks, Tick(s, k)
      PROVE  \A u \in Servers : MemoryOnce(proc'[u])
  BY <1>3, <1>6, TickOnce
<1>7. ASSUME NEW s \in Servers, NEW t \in Txs, Process(s, t) \/ WriteFails(s, t)
      PROVE  \A u \in Servers : MemoryOnce(proc'[u])
  BY <1>3, <1>7, CallOnce
<1>8. ASSUME CloseLedger \/ \E t \in Txs : Routes(t) \/ Expire(t) PROVE UNCHANGED proc
  BY <1>8 DEF CloseLedger, Routes, Create, Register, CompleteJob, CancelJob, BridgeRead,
                       BridgeSave, Expire
<1>9. CASE UNCHANGED vars
  BY <1>4, <1>9 DEF vars
<1>10. CASE Next
  BY <1>4, <1>5, <1>6, <1>7, <1>8, <1>10 DEF Next
<1> QED BY <1>9, <1>10

\* Neither the batches that overlapping ticks load, nor the queue, nor the calls
\* of a process ever hold a record twice (scheduler.ts).
THEOREM OnceInvariance == Spec => []OnceInv
<1>1. Init => OnceInv
  <2> SUFFICES ASSUME Init PROVE OnceInv
    OBVIOUS
  <2>1. OrderOnce
    BY DEF Init, OrderOnce
  <2>2. \A s \in Servers : MemoryOnce(proc[s])
    <3>1. \A s \in Servers : proc[s] = Fresh
      BY DEF Init
    <3> QED BY <3>1, FreshOnce, Zenon
  <2> QED BY <2>1, <2>2 DEF OnceInv
<1>2. IndInv /\ OnceInv /\ [Next]_vars => OnceInv'
  BY OnceStep
<1> QED BY <1>1, <1>2, Invariance, PTL DEF Spec

\* However ticks overlap, a process works on a record once at a time, on none
\* that is also queued, and on no more records than the limit allows
\* (activeIds, queuedIds and drainQueue() of scheduler.ts).
THEOREM OneCallCorrect == Spec => []OneCallPerRecord
<1>1. OnceInv => OneCallPerRecord
  <2> SUFFICES ASSUME OnceInv, NEW s \in Servers
               PROVE  LET p == proc[s] IN
                        /\ Len(p.calls) <= Limit
                        /\ \A i, j \in 1 .. Len(p.calls) : p.calls[i].tx = p.calls[j].tx => i = j
                        /\ p.active = {p.calls[i].tx : i \in 1 .. Len(p.calls)}
                        /\ p.active \cap Queued(p) = {}
    BY DEF OneCallPerRecord
  <2>1. OnceOK(proc[s])
    BY DEF OnceInv, MemoryOnce
  <2> QED BY <2>1, Zenon DEF OnceOK, NoTwice, TxsOf, Queued
<1> QED BY <1>1, OnceInvariance, PTL
=============================================================================
