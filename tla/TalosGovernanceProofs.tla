----------------------- MODULE TalosGovernanceProofs -----------------------
(***************************************************************************)
(* Theorems about the governance contract.                                 *)
(*                                                                         *)
(* The contract reads voting power of the past out of checkpoints, by a    *)
(* binary search, and keeps the total supply by adding differences.  The   *)
(* lemmas show what the search computes on checkpoints whose ledgers rise, *)
(* the inductive invariant that every history of the contract keeps them   *)
(* rising and none of them in the future.                                  *)
(***************************************************************************)
EXTENDS TalosGovernance, SumLemmas

-----------------------------------------------------------------------------
(* The binary search.                                                      *)

\* Checkpoints are recorded in the order of their ledgers, one per ledger.
Rising(ck) == \A j, k \in 1..Len(ck) : j < k => ck[j].ledger < ck[k].ledger

\* k is the last of the checkpoints ck at or before l.
IsLast(ck, l, k) ==
  /\ k \in 1..Len(ck) /\ ck[k].ledger <= l
  /\ \A m \in 1..Len(ck) : m > k => ck[m].ledger > l

Windows(ck) == (1..Len(ck)) \X (1..Len(ck))
Middle(w) == w[2] - (w[2] - w[1]) \div 2

\* g solves the recursion of the binary search on a set D of windows.
SearchOn(ck, l, D, g) ==
  g = [w \in D |->
        IF w[1] >= w[2] THEN ck[w[1]].votes
        ELSE IF ck[Middle(w)].ledger = l THEN ck[Middle(w)].votes
        ELSE IF ck[Middle(w)].ledger < l THEN g[<<Middle(w), w[2]>>]
        ELSE g[<<w[1], Middle(w) - 1>>]]

\* The middle of a window of more than one checkpoint is in its upper part,
\* so both of the windows the search continues with are shorter.
LEMMA MiddleInside ==
  ASSUME NEW a \in Nat, NEW b \in Nat, a < b
  PROVE  LET m == b - (b - a) \div 2 IN m \in Nat /\ a < m /\ m <= b
<1>1. (b - a) \div 2 \in Int /\ 0 <= (b - a) \div 2 /\ (b - a) \div 2 < b - a
  OBVIOUS
<1> QED BY <1>1

\* A set of positive naturals with an upper bound has a largest element.
LEMMA LargestExists ==
  ASSUME NEW n \in Nat, NEW S \in SUBSET (1..n), S # {}
  PROVE  \E k \in S : \A m \in S : m <= k
<1> DEFINE P == {i \in Nat : \A T \in SUBSET (1..i) : T # {} => \E k \in T : \A m \in T : m <= k}
<1>1. 0 \in P
  <2>1. \A T \in SUBSET (1..0) : T = {}
    OBVIOUS
  <2> QED BY <2>1
<1>2. ASSUME NEW i \in Nat, i \in P PROVE i + 1 \in P
  <2> SUFFICES ASSUME NEW T \in SUBSET (1..(i + 1)), T # {}
               PROVE  \E k \in T : \A m \in T : m <= k
    OBVIOUS
  <2>1. CASE i + 1 \in T
    BY <2>1
  <2>2. CASE i + 1 \notin T
    <3>1. T \in SUBSET (1..i)
      BY <2>2
    <3> QED BY <3>1, <1>2
  <2> QED BY <2>1, <2>2
<1>3. Nat \subseteq P
  <2> HIDE DEF P
  <2> QED BY <1>1, <1>2, NatSetInduction
<1> QED BY <1>3

\* The recursion of the binary search has a solution.
LEMMA SearchExists ==
  ASSUME NEW ck, Len(ck) \in Nat, NEW l
  PROVE  \E g : SearchOn(ck, l, Windows(ck), g)
<1> DEFINE D(n) == {w \in Windows(ck) : w[2] - w[1] <= n}
           P == {n \in Nat : \E g : SearchOn(ck, l, D(n), g)}
           Body(g, w) == IF w[1] >= w[2] THEN ck[w[1]].votes
                         ELSE IF ck[Middle(w)].ledger = l THEN ck[Middle(w)].votes
                         ELSE IF ck[Middle(w)].ledger < l THEN g[<<Middle(w), w[2]>>]
                         ELSE g[<<w[1], Middle(w) - 1>>]
<1>1. ASSUME NEW n \in Nat, NEW w \in D(n + 1), w[1] < w[2]
      PROVE  <<Middle(w), w[2]>> \in D(n) /\ <<w[1], Middle(w) - 1>> \in D(n)
  <2>1. w[1] \in 1..Len(ck) /\ w[2] \in 1..Len(ck) /\ w[2] - w[1] <= n + 1
    BY DEF Windows
  <2>2. Middle(w) \in Nat /\ w[1] < Middle(w) /\ Middle(w) <= w[2]
    BY <1>1, <2>1, MiddleInside DEF Middle
  <2> QED BY <2>1, <2>2 DEF Windows
<1>2. 0 \in P
  <2> DEFINE g == [w \in D(0) |-> ck[w[1]].votes]
  <2>1. \A w \in D(0) : w[1] >= w[2]
    BY DEF Windows
  <2>2. SearchOn(ck, l, D(0), g)
    <3> HIDE DEF D
    <3> QED BY <2>1 DEF SearchOn
  <2>3. \E k : SearchOn(ck, l, D(0), k)
    <3> HIDE DEF D, g
    <3> QED BY <2>2
  <2> QED BY <2>3
<1>3. ASSUME NEW n \in Nat, n \in P PROVE n + 1 \in P
  <2>1. PICK g : SearchOn(ck, l, D(n), g)
    BY <1>3
  <2> DEFINE h == [w \in D(n + 1) |-> Body(g, w)]
  <2>2. \A w \in D(n) : w \in D(n + 1) /\ h[w] = g[w]
    <3>1. \A w \in D(n) : w \in D(n + 1)
      BY DEF Windows
    <3>2. \A w \in D(n) : g[w] = Body(g, w)
      <4> HIDE DEF D
      <4> QED BY <2>1 DEF SearchOn
    <3> HIDE DEF D, Body
    <3> QED BY <3>1, <3>2
  <2>3. \A w \in D(n + 1) : Body(h, w) = Body(g, w)
    <3> SUFFICES ASSUME NEW w \in D(n + 1) PROVE Body(h, w) = Body(g, w)
      OBVIOUS
    <3>1. w[1] \in Nat /\ w[2] \in Nat
      BY DEF Windows
    <3>2. CASE w[1] >= w[2]
      BY <3>2
    <3>3. CASE w[1] < w[2]
      <4>1. <<Middle(w), w[2]>> \in D(n) /\ <<w[1], Middle(w) - 1>> \in D(n)
        BY <1>1, <3>3
      <4>2. h[<<Middle(w), w[2]>>] = g[<<Middle(w), w[2]>>]
            /\ h[<<w[1], Middle(w) - 1>>] = g[<<w[1], Middle(w) - 1>>]
        <5> HIDE DEF h, D
        <5> QED BY <2>2, <4>1
      <4> HIDE DEF h
      <4> QED BY <4>2
    <3> QED BY <3>1, <3>2, <3>3
  <2>4. h = [w \in D(n + 1) |-> Body(h, w)]
    <3>1. \A w \in D(n + 1) : h[w] = Body(h, w)
      <4>1. \A w \in D(n + 1) : h[w] = Body(g, w)
        <5> HIDE DEF Body, D
        <5> QED OBVIOUS
      <4> HIDE DEF h, Body, D
      <4> QED BY <4>1, <2>3
    <3> HIDE DEF Body, D
    <3> QED BY <3>1
  <2>5. \E k : SearchOn(ck, l, D(n + 1), k)
    <3>1. SearchOn(ck, l, D(n + 1), h)
      <4> HIDE DEF h, D
      <4> QED BY <2>4 DEF SearchOn
    <3> HIDE DEF h, D
    <3> QED BY <3>1
  <2> HIDE DEF h, D
  <2> QED BY <2>5
<1>4. Nat \subseteq P
  <2> HIDE DEF P
  <2> QED BY <1>2, <1>3, NatSetInduction
<1>5. D(Len(ck)) = Windows(ck)
  BY DEF Windows
<1> QED BY <1>4, <1>5

\* On rising checkpoints every solution of the recursion finds, in every
\* window that holds it, the last checkpoint at or before l.
LEMMA SearchFinds ==
  ASSUME NEW ck, Len(ck) \in Nat, \A k \in 1..Len(ck) : ck[k].ledger \in Int, Rising(ck),
         NEW l \in Int, NEW k, IsLast(ck, l, k),
         NEW g, SearchOn(ck, l, Windows(ck), g)
  PROVE  \A w \in Windows(ck) : w[1] <= k /\ k <= w[2] => g[w] = ck[k].votes
<1> DEFINE Holds(w) == w[1] <= k /\ k <= w[2]
           P == {n \in Nat : \A w \in Windows(ck) :
                              Holds(w) /\ w[2] - w[1] <= n => g[w] = ck[k].votes}
<1>1. \A w \in Windows(ck) : g[w] =
        IF w[1] >= w[2] THEN ck[w[1]].votes
        ELSE IF ck[Middle(w)].ledger = l THEN ck[Middle(w)].votes
        ELSE IF ck[Middle(w)].ledger < l THEN g[<<Middle(w), w[2]>>]
        ELSE g[<<w[1], Middle(w) - 1>>]
  BY DEF SearchOn
<1>2. k \in 1..Len(ck)
  BY DEF IsLast
<1>3. ASSUME NEW w \in Windows(ck), Holds(w), w[1] >= w[2] PROVE g[w] = ck[k].votes
  <2>1. w[1] = k
    BY <1>2, <1>3 DEF Windows
  <2> QED BY <1>1, <1>3, <2>1
<1>4. 0 \in P
  <2>1. ASSUME NEW w \in Windows(ck), Holds(w), w[2] - w[1] <= 0 PROVE g[w] = ck[k].votes
    <3>1. w[1] >= w[2]
      BY <2>1 DEF Windows
    <3> QED BY <1>3, <2>1, <3>1
  <2> QED BY <2>1
<1>5. ASSUME NEW n \in Nat, n \in P PROVE n + 1 \in P
  <2> SUFFICES ASSUME NEW w \in Windows(ck), Holds(w), w[2] - w[1] <= n + 1, w[1] < w[2]
               PROVE  g[w] = ck[k].votes
    <3>1. \A w \in Windows(ck) : w[1] < w[2] \/ w[1] >= w[2]
      BY DEF Windows
    <3> QED BY <1>3, <3>1
  <2> DEFINE m == Middle(w)
  <2>1. w[1] \in 1..Len(ck) /\ w[2] \in 1..Len(ck)
    BY DEF Windows
  <2>2. m \in 1..Len(ck) /\ w[1] < m /\ m <= w[2]
    BY <2>1, MiddleInside DEF Middle
  <2>3. <<m, w[2]>> \in Windows(ck) /\ (m - 1 >= w[1] => <<w[1], m - 1>> \in Windows(ck))
    BY <2>1, <2>2 DEF Windows
  <2>4. g[w] = IF ck[m].ledger = l THEN ck[m].votes
               ELSE IF ck[m].ledger < l THEN g[<<m, w[2]>>] ELSE g[<<w[1], m - 1>>]
    BY <1>1, <2>1
  <2> HIDE DEF m
  <2>5. CASE ck[m].ledger = l
    <3>1. ~(m > k)
      BY <2>2, <2>5 DEF IsLast
    <3>2. ~(m < k)
      BY <1>2, <2>2, <2>5 DEF IsLast, Rising
    <3>3. m = k
      BY <1>2, <2>2, <3>1, <3>2
    <3> QED BY <2>4, <2>5, <3>3
  <2>6. CASE ck[m].ledger < l
    <3>1. m <= k
      BY <1>2, <2>2, <2>6 DEF IsLast
    <3>2. Holds(<<m, w[2]>>) /\ w[2] - m <= n
      BY <2>1, <2>2, <3>1
    <3>3. g[<<m, w[2]>>] = ck[k].votes
      BY <1>5, <2>3, <3>2
    <3> QED BY <2>4, <2>6, <3>3
  <2>7. CASE ck[m].ledger > l
    <3>1. k < m
      BY <1>2, <2>2, <2>7 DEF IsLast, Rising
    <3>2. Holds(<<w[1], m - 1>>) /\ (m - 1) - w[1] <= n /\ m - 1 >= w[1]
      BY <1>2, <2>1, <2>2, <3>1
    <3>3. g[<<w[1], m - 1>>] = ck[k].votes
      BY <1>5, <2>3, <3>2
    <3> QED BY <2>2, <2>4, <2>7, <3>3
  <2> QED BY <2>2, <2>5, <2>6, <2>7
<1>6. Nat \subseteq P
  <2> HIDE DEF P
  <2> QED BY <1>4, <1>5, NatSetInduction
<1>7. ASSUME NEW w \in Windows(ck), Holds(w) PROVE g[w] = ck[k].votes
  <2>1. Len(ck) \in P
    BY <1>6
  <2>2. w[2] - w[1] <= Len(ck)
    BY DEF Windows
  <2> QED BY <1>7, <2>1, <2>2
<1> QED BY <1>7

\* The binary search of the contract returns the votes of the last checkpoint
\* at or before l, when there is one.
LEMMA BinarySearchFinds ==
  ASSUME NEW ck, Len(ck) \in Nat, \A k \in 1..Len(ck) : ck[k].ledger \in Int, Rising(ck),
         NEW l \in Int, NEW k, IsLast(ck, l, k)
  PROVE  BinarySearch(ck, l) = ck[k].votes
<1> DEFINE search == CHOOSE g : SearchOn(ck, l, Windows(ck), g)
<1>1. SearchOn(ck, l, Windows(ck), search)
  BY SearchExists
<1>2. BinarySearch(ck, l) = search[<<1, Len(ck)>>]
  BY DEF BinarySearch, SearchOn, Windows, Middle
<1>3. k \in 1..Len(ck)
  BY DEF IsLast
<1>4. <<1, Len(ck)>> \in Windows(ck)
  BY <1>3 DEF Windows
<1>5. \A w \in Windows(ck) : w[1] <= k /\ k <= w[2] => search[w] = ck[k].votes
  <2> HIDE DEF search
  <2> QED BY <1>1, SearchFinds
<1> HIDE DEF search
<1> QED BY <1>2, <1>3, <1>4, <1>5

\* A history of checkpoints: rising, typed, and none after the ledger n.
History(ck, n) ==
  /\ ck \in Seq(Checkpoint) /\ Rising(ck)
  /\ \A k \in 1..Len(ck) : ck[k].ledger <= n

\* The checkpoints of an account, one by one.
LEMMA CheckpointTypes ==
  ASSUME NEW ck \in Seq(Checkpoint)
  PROVE  /\ Len(ck) \in Nat /\ DOMAIN ck = 1..Len(ck)
         /\ \A k \in 1..Len(ck) : /\ ck[k] \in Checkpoint
                                  /\ ck[k].ledger \in Nat /\ ck[k].votes \in Int
<1>1. Len(ck) \in Nat /\ DOMAIN ck = 1..Len(ck) /\ \A k \in 1..Len(ck) : ck[k] \in Checkpoint
  OBVIOUS
<1>2. \A c \in Checkpoint : c.ledger \in Nat /\ c.votes \in Int
  BY DEF Checkpoint
<1> QED BY <1>1, <1>2

\* Some checkpoint at or before l makes one of them the last.
LEMMA LastExists ==
  ASSUME NEW ck \in Seq(Checkpoint), NEW l \in Int,
         NEW j \in 1..Len(ck), ck[j].ledger <= l
  PROVE  \E k \in 1..Len(ck) : IsLast(ck, l, k)
<1> DEFINE S == {k \in 1..Len(ck) : ck[k].ledger <= l}
<1>1. S \in SUBSET (1..Len(ck)) /\ S # {} /\ Len(ck) \in Nat
  BY CheckpointTypes
<1>2. PICK k \in S : \A m \in S : m <= k
  <2> HIDE DEF S
  <2> QED BY <1>1, LargestExists
<1>3. \A m \in 1..Len(ck) : m > k => ck[m].ledger > l
  <2> SUFFICES ASSUME NEW m \in 1..Len(ck), m > k, ~(ck[m].ledger > l) PROVE FALSE
    OBVIOUS
  <2>1. ck[m].ledger \in Int
    BY CheckpointTypes
  <2> QED BY <1>2, <2>1
<1> QED BY <1>2, <1>3 DEF IsLast

\* What the reference lookup returns: the votes of the last checkpoint.
LEMMA LastVotes ==
  ASSUME NEW ck \in Seq(Checkpoint), NEW l \in Int, NEW k, IsLast(ck, l, k), NEW other
  PROVE  LastAtOrBefore(ck, l, other) = ck[k].votes
<1> DEFINE S == {j \in DOMAIN ck : ck[j].ledger <= l}
<1>1. DOMAIN ck = 1..Len(ck) /\ \A j \in 1..Len(ck) : ck[j].ledger \in Int
  BY CheckpointTypes
<1>2. k \in S /\ \A m \in S : m \in Int /\ m <= k
  BY <1>1 DEF IsLast
<1>3. \A j \in S : (\A m \in S : m <= j) => j = k
  BY <1>2
<1>4. (CHOOSE j \in S : \A m \in S : m <= j) = k
  <2> HIDE DEF S
  <2> QED BY <1>2, <1>3
<1> QED BY <1>2, <1>4 DEF LastAtOrBefore

\* With no checkpoint at or before l the reference lookup returns `other'.
LEMMA NoneBefore ==
  ASSUME NEW ck \in Seq(Checkpoint), NEW l \in Int, NEW other,
         \A k \in 1..Len(ck) : ck[k].ledger > l
  PROVE  LastAtOrBefore(ck, l, other) = other
<1>1. \A k \in DOMAIN ck : ~(ck[k].ledger <= l)
  <2>1. \A k \in 1..Len(ck) : ck[k].ledger \in Int
    BY CheckpointTypes
  <2> QED BY <2>1, CheckpointTypes
<1> QED BY <1>1 DEF LastAtOrBefore

\* On a history the lookup of the contract, with its two shortcuts and its
\* binary search, is the reference lookup.
LEMMA LookUpIsLast ==
  ASSUME NEW ck \in Seq(Checkpoint), Rising(ck), NEW l \in Int, NEW other
  PROVE  LookUp(ck, l, other) = LastAtOrBefore(ck, l, other)
<1>1. Len(ck) \in Nat /\ \A k \in 1..Len(ck) : ck[k].ledger \in Int
  BY CheckpointTypes
<1>2. CASE ck = <<>>
  <2>1. \A k \in 1..Len(ck) : ck[k].ledger > l
    BY <1>2
  <2> QED BY <1>2, <2>1, NoneBefore DEF LookUp
<1>3. CASE ck # <<>> /\ ck[Len(ck)].ledger <= l
  <2>1. IsLast(ck, l, Len(ck))
    BY <1>1, <1>3 DEF IsLast
  <2> QED BY <1>3, <2>1, LastVotes DEF LookUp
<1>4. CASE ck # <<>> /\ ~(ck[Len(ck)].ledger <= l) /\ ck[1].ledger > l
  <2>1. \A k \in 1..Len(ck) : ck[k].ledger > l
    BY <1>1, <1>4 DEF Rising
  <2> QED BY <1>4, <2>1, NoneBefore DEF LookUp
<1>5. CASE ck # <<>> /\ ~(ck[Len(ck)].ledger <= l) /\ ~(ck[1].ledger > l)
  <2>1. 1 \in 1..Len(ck) /\ ck[1].ledger <= l
    BY <1>1, <1>5
  <2>2. PICK k \in 1..Len(ck) : IsLast(ck, l, k)
    BY <2>1, LastExists
  <2>3. BinarySearch(ck, l) = ck[k].votes
    BY <1>1, <2>2, BinarySearchFinds
  <2> QED BY <1>5, <2>2, <2>3, LastVotes DEF LookUp
<1> QED BY <1>2, <1>3, <1>4, <1>5

\* The reference lookup returns an integer.
LEMMA LastType ==
  ASSUME NEW ck \in Seq(Checkpoint), NEW l \in Int, NEW other \in Int
  PROVE  LastAtOrBefore(ck, l, other) \in Int
<1>1. CASE \E j \in 1..Len(ck) : ck[j].ledger <= l
  <2>1. PICK k \in 1..Len(ck) : IsLast(ck, l, k)
    BY <1>1, LastExists
  <2>2. ck[k].votes \in Int
    BY CheckpointTypes
  <2> QED BY <2>1, <2>2, LastVotes
<1>2. CASE \A j \in 1..Len(ck) : ~(ck[j].ledger <= l)
  <2>1. \A j \in 1..Len(ck) : ck[j].ledger > l
    BY <1>2, CheckpointTypes
  <2> QED BY <2>1, NoneBefore
<1> QED BY <1>1, <1>2

-----------------------------------------------------------------------------
(* Recording a checkpoint.                                                 *)

\* Record keeps a history, and changes neither the number of checkpoints
\* before the current ledger nor one of them.
LEMMA RecordHistory ==
  ASSUME NEW ck, ledger \in Nat, History(ck, ledger), NEW n \in Int
  PROVE  /\ History(Record(ck, n), ledger)
         /\ Len(Record(ck, n)) >= 1
         /\ Record(ck, n)[Len(Record(ck, n))] = [ledger |-> ledger, votes |-> n]
         /\ \A k \in 1..Len(ck) : ck[k].ledger < ledger =>
              k \in 1..(Len(Record(ck, n)) - 1) /\ Record(ck, n)[k] = ck[k]
         /\ \A k \in 1..(Len(Record(ck, n)) - 1) : k \in 1..Len(ck) /\ ck[k].ledger < ledger
<1> DEFINE e == [ledger |-> ledger, votes |-> n]
           c == Record(ck, n)
<1>1. e \in Checkpoint /\ e.ledger = ledger
  BY DEF Checkpoint
<1>2. ck \in Seq(Checkpoint) /\ Len(ck) \in Nat
  BY DEF History
<1>3. \A k \in 1..Len(ck) : ck[k] \in Checkpoint /\ ck[k].ledger \in Nat /\ ck[k].ledger <= ledger
  BY <1>2, CheckpointTypes DEF History
<1>4. CASE ck # <<>> /\ ck[Len(ck)].ledger = ledger
  <2>1. c = [ck EXCEPT ![Len(ck)] = e]
    BY <1>4 DEF Record
  <2>2. Len(ck) \in 1..Len(ck) /\ Len(c) = Len(ck) /\ c \in Seq(Checkpoint)
    BY <1>1, <1>2, <1>4, <2>1
  <2>3. c[Len(ck)] = e /\ \A k \in 1..(Len(ck) - 1) : c[k] = ck[k]
    BY <1>2, <2>1, <2>2, CheckpointTypes
  <2>4. \A k \in 1..(Len(ck) - 1) : ck[k].ledger < ledger
    BY <1>2, <1>4, <2>2 DEF History, Rising
  <2>5. Rising(c) /\ \A k \in 1..Len(c) : c[k].ledger <= ledger
    <3> HIDE DEF c, e
    <3>1. \A k \in 1..Len(c) : k = Len(ck) \/ k \in 1..(Len(ck) - 1)
      BY <1>2, <2>2
    <3>2. c[Len(ck)].ledger = ledger
      BY <1>1, <2>3
    <3>3. \A k \in 1..(Len(ck) - 1) : c[k].ledger = ck[k].ledger /\ c[k].ledger < ledger
      BY <2>3, <2>4
    <3>4. \A k \in 1..Len(c) : c[k].ledger <= ledger
      BY <1>3, <3>1, <3>2, <3>3
    <3>5. ASSUME NEW j \in 1..Len(c), NEW k \in 1..Len(c), j < k PROVE c[j].ledger < c[k].ledger
      <4>1. j \in 1..(Len(ck) - 1) /\ j \in 1..Len(ck) /\ k \in 1..Len(ck)
        BY <1>2, <2>2, <3>5
      <4>2. CASE k = Len(ck)
        BY <3>2, <3>3, <4>1, <4>2
      <4>3. CASE k # Len(ck)
        <5>1. k \in 1..(Len(ck) - 1)
          BY <3>1, <4>3
        <5>2. ck[j].ledger < ck[k].ledger
          BY <3>5, <4>1 DEF History, Rising
        <5> QED BY <3>3, <4>1, <5>1, <5>2
      <4> QED BY <4>2, <4>3
    <3> QED BY <3>4, <3>5 DEF Rising
  <2>6. \A k \in 1..Len(ck) : ck[k].ledger < ledger => k \in 1..(Len(ck) - 1)
    BY <1>3, <1>4
  <2> QED BY <1>2, <2>2, <2>3, <2>4, <2>5, <2>6 DEF History
<1>5. CASE ~(ck # <<>> /\ ck[Len(ck)].ledger = ledger)
  <2>1. c = Append(ck, e)
    BY <1>5 DEF Record
  <2>2. Len(c) = Len(ck) + 1 /\ c \in Seq(Checkpoint)
    BY <1>1, <1>2, <2>1
  <2>3. c[Len(ck) + 1] = e /\ \A k \in 1..Len(ck) : c[k] = ck[k]
    BY <1>2, <2>1
  <2>4. \A k \in 1..Len(ck) : ck[k].ledger < ledger
    <3> SUFFICES ASSUME NEW k \in 1..Len(ck) PROVE ck[k].ledger < ledger
      OBVIOUS
    <3>1. ck[Len(ck)].ledger # ledger /\ Len(ck) \in 1..Len(ck)
      BY <1>2, <1>5
    <3>2. ck[Len(ck)].ledger < ledger
      BY <1>3, <3>1
    <3>3. k = Len(ck) \/ ck[k].ledger < ck[Len(ck)].ledger
      BY <1>2 DEF History, Rising
    <3> QED BY <1>3, <3>1, <3>2, <3>3
  <2>5. Rising(c) /\ \A k \in 1..Len(c) : c[k].ledger <= ledger
    <3> HIDE DEF c, e
    <3>1. \A k \in 1..Len(c) : k = Len(ck) + 1 \/ k \in 1..Len(ck)
      BY <1>2, <2>2
    <3>2. c[Len(ck) + 1].ledger = ledger
      BY <1>1, <2>3
    <3>3. \A k \in 1..Len(ck) : c[k].ledger = ck[k].ledger /\ c[k].ledger < ledger
      BY <2>3, <2>4
    <3>4. \A k \in 1..Len(c) : c[k].ledger <= ledger
      BY <1>3, <3>1, <3>2, <3>3
    <3>5. ASSUME NEW j \in 1..Len(c), NEW k \in 1..Len(c), j < k PROVE c[j].ledger < c[k].ledger
      <4>1. j \in 1..Len(ck)
        BY <1>2, <2>2, <3>5
      <4>2. CASE k = Len(ck) + 1
        BY <3>2, <3>3, <4>1, <4>2
      <4>3. CASE k # Len(ck) + 1
        <5>1. k \in 1..Len(ck)
          BY <3>1, <4>3
        <5>2. ck[j].ledger < ck[k].ledger
          BY <3>5, <4>1, <5>1 DEF History, Rising
        <5> QED BY <3>3, <4>1, <5>1, <5>2
      <4> QED BY <4>2, <4>3
    <3> QED BY <3>4, <3>5 DEF Rising
  <2> QED BY <1>2, <2>2, <2>3, <2>4, <2>5 DEF History
<1> QED BY <1>4, <1>5

\* Recording leaves what the reference lookup returns for a closed ledger.
LEMMA RecordPast ==
  ASSUME NEW ck, ledger \in Nat, History(ck, ledger), NEW n \in Int,
         NEW l \in Int, l < ledger, NEW other
  PROVE  LastAtOrBefore(Record(ck, n), l, other) = LastAtOrBefore(ck, l, other)
<1> DEFINE c == Record(ck, n)
<1>1. /\ History(c, ledger) /\ Len(c) >= 1 /\ c[Len(c)] = [ledger |-> ledger, votes |-> n]
      /\ \A k \in 1..Len(ck) : ck[k].ledger < ledger => k \in 1..(Len(c) - 1) /\ c[k] = ck[k]
      /\ \A k \in 1..(Len(c) - 1) : k \in 1..Len(ck) /\ ck[k].ledger < ledger
  BY RecordHistory
<1>2. ck \in Seq(Checkpoint) /\ c \in Seq(Checkpoint)
  BY <1>1 DEF History
<1>3. /\ Len(c) \in Nat /\ Len(ck) \in Nat /\ c[Len(c)].ledger = ledger
      /\ \A k \in 1..Len(ck) : ck[k].ledger \in Nat
  BY <1>1, <1>2, CheckpointTypes
<1> HIDE DEF c
<1>4. CASE \E j \in 1..Len(ck) : ck[j].ledger <= l
  <2>1. PICK k \in 1..Len(ck) : IsLast(ck, l, k)
    BY <1>2, <1>4, LastExists
  <2>2. ck[k].ledger < ledger /\ ck[k].ledger <= l
    BY <1>3, <2>1 DEF IsLast
  <2>3. k \in 1..(Len(c) - 1) /\ c[k] = ck[k]
    BY <1>1, <2>2
  <2>4. \A m \in 1..Len(c) : m > k => c[m].ledger > l
    <3> SUFFICES ASSUME NEW m \in 1..Len(c), m > k PROVE c[m].ledger > l
      OBVIOUS
    <3>1. CASE m = Len(c)
      BY <1>3, <3>1
    <3>2. CASE m # Len(c)
      <4>1. m \in 1..(Len(c) - 1)
        BY <1>3, <3>2
      <4>2. m \in 1..Len(ck) /\ c[m] = ck[m]
        BY <1>1, <4>1
      <4> QED BY <2>1, <4>2 DEF IsLast
    <3> QED BY <3>1, <3>2
  <2>5. IsLast(c, l, k)
    BY <1>3, <2>2, <2>3, <2>4 DEF IsLast
  <2> QED BY <1>2, <2>1, <2>3, <2>5, LastVotes DEF c
<1>5. CASE \A j \in 1..Len(ck) : ~(ck[j].ledger <= l)
  <2>1. \A k \in 1..Len(ck) : ck[k].ledger > l
    BY <1>3, <1>5
  <2>2. \A k \in 1..Len(c) : c[k].ledger > l
    <3> SUFFICES ASSUME NEW k \in 1..Len(c) PROVE c[k].ledger > l
      OBVIOUS
    <3>1. CASE k = Len(c)
      BY <1>3, <3>1
    <3>2. CASE k # Len(c)
      <4>1. k \in 1..(Len(c) - 1)
        BY <1>3, <3>2
      <4>2. k \in 1..Len(ck) /\ c[k] = ck[k]
        BY <1>1, <4>1
      <4> QED BY <2>1, <4>2
    <3> QED BY <3>1, <3>2
  <2> QED BY <1>2, <2>1, <2>2, NoneBefore DEF c
<1> QED BY <1>4, <1>5

\* From the current ledger on a history says what was recorded last.
LEMMA LatestIsLast ==
  ASSUME NEW ck, ledger \in Nat, History(ck, ledger), NEW l \in Int, l >= ledger
  PROVE  LastAtOrBefore(ck, l, 0) = Latest(ck)
<1>1. ck \in Seq(Checkpoint)
  BY DEF History
<1>2. /\ Len(ck) \in Nat
      /\ \A k \in 1..Len(ck) : ck[k].ledger \in Nat /\ ck[k].ledger <= ledger
  BY <1>1, CheckpointTypes DEF History
<1>3. CASE ck = <<>>
  <2>1. \A k \in 1..Len(ck) : ck[k].ledger > l
    BY <1>3
  <2> QED BY <1>1, <1>3, <2>1, NoneBefore DEF Latest
<1>4. CASE ck # <<>>
  <2>1. Len(ck) \in 1..Len(ck)
    BY <1>1, <1>2, <1>4
  <2>2. ck[Len(ck)].ledger <= l
    BY <1>2, <2>1
  <2>3. IsLast(ck, l, Len(ck))
    BY <1>2, <2>1, <2>2 DEF IsLast
  <2> QED BY <1>1, <1>4, <2>3, LastVotes DEF Latest
<1> QED BY <1>3, <1>4

\* From the current ledger on a recorded history says what was recorded.
LEMMA RecordPresent ==
  ASSUME NEW ck, ledger \in Nat, History(ck, ledger), NEW n \in Int, NEW l \in Int, l >= ledger
  PROVE  LastAtOrBefore(Record(ck, n), l, 0) = n
<1> DEFINE c == Record(ck, n)
<1>1. /\ History(c, ledger) /\ Len(c) >= 1 /\ c[Len(c)] = [ledger |-> ledger, votes |-> n]
  BY RecordHistory
<1>2. c # <<>>
  BY <1>1
<1>3. Latest(c) = n
  BY <1>1, <1>2 DEF Latest
<1> HIDE DEF c
<1>4. LastAtOrBefore(c, l, 0) = Latest(c)
  BY <1>1, LatestIsLast
<1> QED BY <1>3, <1>4 DEF c

-----------------------------------------------------------------------------
(* The inductive invariant.                                                *)

\* Every account's checkpoints and the supply's are histories up to now, and
\* no proposal's snapshot is in the future.
PowerOK ==
  /\ ledger <= MaxLedger
  /\ \A a \in Accounts : History(checkpoint[a], ledger)
  /\ History(supply, ledger)
SnapshotsPast == \A i \in ProposalIds : proposal[i].snapshot <= ledger
IndInv == TypeOK /\ PowerOK /\ SnapshotsPast

\* The constants' types, as the proofs use them.
LEMMA ConstantTypes ==
  /\ NoAccount \notin Accounts /\ Delegators \subseteq Accounts /\ IsFiniteSet(Accounts)
  /\ Balances \subseteq Int /\ Cached \subseteq Nat /\ CachedLedgers \subseteq Ledgers
  /\ PauseDurations \subseteq Nat /\ Pausable \subseteq Domains /\ Governable \subseteq Taloses
  /\ InitConfigs \subseteq Config /\ Configs \subseteq Config /\ Actions \subseteq Action
  /\ DefaultOffset \in Nat /\ MaxLedger \in Nat /\ MaxLedger > 0
  /\ \E x \in Actions : x.kind = "none"
BY AccountAssumption, InputAssumption, BoundAssumption, ActionAssumption DEF Ledgers, Domains

\* An unused slot is a proposal.
LEMMA NoProposalType == NoProposal \in Proposal
<1>1. (CHOOSE x \in Actions : x.kind = "none") \in Actions
  BY ActionAssumption
<1> QED BY <1>1 DEF NoProposal, Proposal, Statuses

\* The empty sequence is a history.
LEMMA EmptyHistory == ASSUME NEW n PROVE History(<<>>, n)
BY DEF History, Rising

\* The initial state satisfies the inductive invariant.
LEMMA InitInd == Init => IndInv
<1> SUFFICES ASSUME Init PROVE IndInv
  OBVIOUS
<1>1. TypeOK
  <2>1. NoConfig \in Config
    BY DEF NoConfig, Config, NoOffset, NoBps
  <2>2. NoVote \in Vote
    BY DEF NoVote, Vote
  <2>3. NotPaused \in [paused : BOOLEAN, expires : Nat]
    BY DEF NotPaused
  <2>4. <<>> \in Seq(Checkpoint)
    OBVIOUS
  <2>5. /\ proposal \in [ProposalIds -> Proposal] /\ vote \in [ProposalIds -> [Accounts -> Vote]]
        /\ checkpoint \in [Accounts -> Seq(Checkpoint)] /\ supply \in Seq(Checkpoint)
        /\ pause \in [Domains -> [paused : BOOLEAN, expires : Nat]] /\ config \in Config
    BY <2>1, <2>2, <2>3, <2>4, NoProposalType DEF Init
  <2>6. /\ admin \in Accounts \cup {NoAccount} /\ pendingAdmin \in Accounts \cup {NoAccount}
        /\ registrySet \in BOOLEAN /\ quorumReached \subseteq ProposalIds
    BY DEF Init
  <2>8. cached \in [Ledgers -> [Accounts -> Int]] /\ delegation \in [Accounts -> Accounts]
    BY DEF Init
  <2>7. /\ active \in [Taloses -> BOOLEAN] /\ controller \in [Taloses -> BOOLEAN]
        /\ ledger \in Nat /\ transfers \in Nat /\ dispatched \in [ProposalIds -> Nat]
    BY DEF Init
  <2> QED BY <2>5, <2>6, <2>7, <2>8 DEF TypeOK
<1>2. PowerOK
  BY EmptyHistory, ConstantTypes DEF Init, PowerOK
<1>3. SnapshotsPast
  BY DEF Init, SnapshotsPast, NoProposal
<1> QED BY <1>1, <1>2, <1>3 DEF IndInv

\* The weight of a vote is an integer, and so is what a lookup of the supply
\* returns.
LEMMA PowerTypes ==
  ASSUME IndInv, NEW l \in Ledgers
  PROVE  /\ \A a \in Accounts : GetPastVotes(a, l) = LastAtOrBefore(checkpoint[a], l, cached[l][a])
         /\ \A a \in Accounts : GetPastVotes(a, l) \in Int /\ GetVoteWeight(l, a) \in Int
         /\ GetPastTotalSupply(l) = LastAtOrBefore(supply, l, 0)
         /\ GetPastTotalSupply(l) \in Int
<1>1. l \in Int
  BY ConstantTypes DEF Ledgers
<1>2. ASSUME NEW a \in Accounts
      PROVE  /\ GetPastVotes(a, l) = LastAtOrBefore(checkpoint[a], l, cached[l][a])
             /\ GetPastVotes(a, l) \in Int
  <2>1. checkpoint[a] \in Seq(Checkpoint) /\ Rising(checkpoint[a]) /\ cached[l][a] \in Int
    BY DEF IndInv, TypeOK, PowerOK, History
  <2> QED BY <1>1, <2>1, LookUpIsLast, LastType DEF GetPastVotes
<1>3. \A a \in Accounts : delegation[a] \in Accounts
  BY DEF IndInv, TypeOK
<1>4. supply \in Seq(Checkpoint) /\ Rising(supply)
  BY DEF IndInv, TypeOK, PowerOK, History
<1>5. GetPastTotalSupply(l) = LastAtOrBefore(supply, l, 0) /\ GetPastTotalSupply(l) \in Int
  BY <1>1, <1>4, LookUpIsLast, LastType DEF GetPastTotalSupply
<1> QED BY <1>2, <1>3, <1>5 DEF GetVoteWeight

\* A later ledger does not end a history.
LEMMA HistoryGrows ==
  ASSUME NEW ck, NEW n \in Nat, NEW m \in Nat, n <= m, History(ck, n)
  PROVE  History(ck, m)
<1>1. ck \in Seq(Checkpoint)
  BY DEF History
<1>2. \A k \in 1..Len(ck) : ck[k].ledger \in Nat
  BY <1>1, CheckpointTypes
<1> QED BY <1>2 DEF History

\* The latest value of a history is an integer.
LEMMA LatestType ==
  ASSUME NEW ck \in Seq(Checkpoint)
  PROVE  Latest(ck) \in Int
<1>1. CASE ck = <<>>
  BY <1>1 DEF Latest
<1>2. CASE ck # <<>>
  <2>1. Len(ck) \in 1..Len(ck)
    BY <1>2
  <2> QED BY <1>2, <2>1, CheckpointTypes DEF Latest
<1> QED BY <1>1, <1>2

\* A pause check keeps the pauses' type.
LEMMA CheckPauseType ==
  ASSUME TypeOK, NEW d \in Domains, CheckNotPaused(d)
  PROVE  pause' \in [Domains -> [paused : BOOLEAN, expires : Nat]]
<1>1. NotPaused \in [paused : BOOLEAN, expires : Nat]
  BY DEF NotPaused
<1> QED BY <1>1 DEF TypeOK, CheckNotPaused

\* Initialize keeps the types.
LEMMA TypeInitialize ==
  ASSUME TypeOK, NEW a \in Accounts, NEW c \in InitConfigs, Initialize(a, c)
  PROVE  TypeOK'
<1>1. [c EXCEPT !.offset = NoOffset, !.bps = NoBps] \in Config
  BY ConstantTypes DEF Config
<1>2. admin' = a /\ config' = [c EXCEPT !.offset = NoOffset, !.bps = NoBps]
  BY Zenon DEF Initialize
<1>3. UNCHANGED <<pendingAdmin, transfers, powerVars, ballotVars, registryVars, pause, ledger>>
  BY Zenon DEF Initialize
<1>4. /\ UNCHANGED <<checkpoint, supply, cached, delegation>>
      /\ UNCHANGED <<proposal, vote, quorumReached, dispatched>>
      /\ UNCHANGED <<registrySet, active, controller>>
  BY <1>3 DEF powerVars, ballotVars, registryVars
<1>5. admin' \in Accounts /\ config' \in Config
  BY <1>1, <1>2
<1> QED BY <1>3, <1>4, <1>5 DEF TypeOK

\* A vote and a new proposal keep the types.
LEMMA TypeBallot ==
  ASSUME IndInv, [Next]_vars
  PROVE  /\ \A a \in Accounts, t \in Taloses, act \in Actions : CreateProposal(a, t, act) => TypeOK'
         /\ \A a \in Accounts, i \in ProposalIds, c \in VoteChoices : CastVote(a, i, c) => TypeOK'
<1>1. ASSUME NEW a \in Accounts, NEW t \in Taloses, NEW act \in Actions, CreateProposal(a, t, act)
      PROVE  TypeOK'
  <2>1. PICK i \in ProposalIds :
          /\ CheckNotPaused("creation")
          /\ proposal' = [proposal EXCEPT ![i] = NewProposal(a, act)]
          /\ UNCHANGED <<adminVars, config, powerVars, vote, quorumReached, dispatched,
                         registryVars, ledger>>
    BY <1>1 DEF CreateProposal
  <2>2. pause' \in [Domains -> [paused : BOOLEAN, expires : Nat]]
    BY <2>1, CheckPauseType DEF IndInv, Domains
  <2>3. config.offset \in Int /\ config.period \in Nat /\ ledger \in Nat
    BY DEF IndInv, TypeOK, Config, NoOffset
  <2>4. Snapshot \in Nat
    BY <2>3, ConstantTypes DEF Snapshot
  <2>5. NewProposal(a, act) \in Proposal
    BY <2>3, <2>4 DEF NewProposal, Proposal, Statuses
  <2>6. proposal' \in [ProposalIds -> Proposal]
    BY <2>1, <2>5 DEF IndInv, TypeOK
  <2> QED BY <2>1, <2>2, <2>6 DEF IndInv, TypeOK, adminVars, powerVars, registryVars
<1>2. ASSUME NEW a \in Accounts, NEW i \in ProposalIds, NEW c \in VoteChoices, CastVote(a, i, c)
      PROVE  TypeOK'
  <2> DEFINE w == GetVoteWeight(proposal[i].snapshot, a)
             p == Counted(proposal[i], c, w)
  <2>1. proposal[i] \in Proposal
    BY DEF IndInv, TypeOK
  <2>2. proposal[i].snapshot \in Ledgers
    BY <2>1, ConstantTypes DEF IndInv, SnapshotsPast, PowerOK, Ledgers, Proposal, TypeOK
  <2>3. w \in Int
    BY <2>2, PowerTypes
  <2>4. /\ CheckNotPaused("voting") /\ vote' = [vote EXCEPT ![i][a] = [choice |-> c, weight |-> w]]
        /\ \/ /\ quorumReached' = quorumReached \cup {i}
              /\ proposal' = [proposal EXCEPT ![i] = [p EXCEPT !.status = Decision(p)]]
           \/ proposal' = [proposal EXCEPT ![i] = p] /\ quorumReached' = quorumReached
        /\ UNCHANGED <<adminVars, config, powerVars, dispatched, registryVars, ledger>>
    BY <1>2 DEF CastVote
  <2> HIDE DEF w
  <2>5. p \in Proposal
    <3> DEFINE q == proposal[i]
    <3>1. /\ q.yes + w \in Int /\ q.no + w \in Int /\ q.voters + 1 \in Nat
      BY <2>1, <2>3 DEF Proposal
    <3>2. [q EXCEPT !.yes = q.yes + w, !.voters = q.voters + 1] \in Proposal
      BY <2>1, <3>1 DEF Proposal
    <3>3. [q EXCEPT !.no = q.no + w, !.voters = q.voters + 1] \in Proposal
      BY <2>1, <3>1 DEF Proposal
    <3> QED BY <3>2, <3>3 DEF Counted
  <2>6. Decision(p) \in Statuses
    BY DEF Decision, Statuses
  <2> HIDE DEF p
  <2>7. [p EXCEPT !.status = Decision(p)] \in Proposal
    BY <2>5, <2>6 DEF Proposal
  <2>8. proposal' \in [ProposalIds -> Proposal] /\ quorumReached' \subseteq ProposalIds
    BY <2>4, <2>5, <2>7 DEF IndInv, TypeOK
  <2>9. [choice |-> c, weight |-> w] \in Vote
    BY <2>3 DEF Vote
  <2>10. vote' \in [ProposalIds -> [Accounts -> Vote]]
    BY <2>4, <2>9 DEF IndInv, TypeOK
  <2>11. pause' \in [Domains -> [paused : BOOLEAN, expires : Nat]]
    BY <2>4, CheckPauseType DEF IndInv, Domains
  <2> QED BY <2>4, <2>8, <2>10, <2>11 DEF IndInv, TypeOK, adminVars, powerVars, registryVars
<1> QED BY <1>1, <1>2

\* Cancellation, finalisation and execution keep the types.
LEMMA TypeDecide ==
  ASSUME TypeOK, NEW i \in ProposalIds
  PROVE  /\ \A a \in Accounts : CancelProposal(a, i) => TypeOK'
         /\ FinalizeProposal(i) => TypeOK'
         /\ ExecuteProposal(i) => TypeOK'
<1>1. proposal[i] \in Proposal
  BY DEF TypeOK
<1>2. \A s \in Statuses : [proposal EXCEPT ![i].status = s] \in [ProposalIds -> Proposal]
  BY <1>1 DEF TypeOK, Proposal
<1>3. ASSUME NEW a \in Accounts, CancelProposal(a, i) PROVE TypeOK'
  <2>1. proposal' \in [ProposalIds -> Proposal]
    BY <1>2, <1>3 DEF CancelProposal, Statuses
  <2> QED BY <1>3, <2>1 DEF TypeOK, CancelProposal, adminVars, powerVars, registryVars
<1>4. ASSUME FinalizeProposal(i) PROVE TypeOK'
  <2>1. proposal' \in [ProposalIds -> Proposal]
    BY <1>2, <1>4 DEF FinalizeProposal, Decision, Statuses
  <2> QED BY <1>4, <2>1 DEF TypeOK, FinalizeProposal, adminVars, powerVars, registryVars
<1>5. ASSUME ExecuteProposal(i) PROVE TypeOK'
  <2>1. proposal' \in [ProposalIds -> Proposal]
    BY <1>2, <1>5 DEF ExecuteProposal, Statuses
  <2>2. proposal[i].action \in Action
    BY <1>1, ConstantTypes DEF Proposal
  <2>3. config' \in Config /\ active' \in [Taloses -> BOOLEAN]
    <3> DEFINE act == proposal[i].action
    <3>1. /\ \/ config' = config
             \/ config' = [quorum |-> act.quorum, consensus |-> act.consensus,
                           period |-> act.period, offset |-> config.offset, bps |-> config.bps]
          /\ \/ active' = active
             \/ active' = [active EXCEPT ![act.talos] = FALSE]
             \/ active' = [active EXCEPT ![act.talos] = TRUE]
      <4>1. Dispatch(act)
        BY <1>5 DEF ExecuteProposal
      <4> HIDE DEF act
      <4>2. CASE act.kind = "config"
        BY <4>1, <4>2 DEF Dispatch
      <4>3. CASE act.kind # "config"
        BY <4>1, <4>3 DEF Dispatch
      <4> QED BY <4>2, <4>3
    <3>2. /\ act.quorum \in Int /\ act.consensus \in Int /\ act.period \in Nat
      BY <2>2 DEF Action
    <3>3. config.offset \in Nat \cup {NoOffset} /\ config.bps \in Nat \cup {NoBps}
      BY DEF TypeOK, Config
    <3> HIDE DEF act
    <3>4. [quorum |-> act.quorum, consensus |-> act.consensus, period |-> act.period,
           offset |-> config.offset, bps |-> config.bps] \in Config
      BY <3>2, <3>3 DEF Config
    <3>5. config' \in Config
      BY <3>1, <3>4 DEF TypeOK
    <3>6. active' \in [Taloses -> BOOLEAN]
      BY <3>1 DEF TypeOK
    <3> QED BY <3>5, <3>6
  <2>4. dispatched' \in [ProposalIds -> Nat]
    BY <1>5 DEF ExecuteProposal, TypeOK
  <2> QED BY <1>5, <2>1, <2>3, <2>4 DEF TypeOK, ExecuteProposal, adminVars, powerVars
<1> QED BY <1>3, <1>4, <1>5

\* Updates of the voting power keep the types.
LEMMA TypePower ==
  ASSUME IndInv
  PROVE  /\ \A c, a \in Accounts, n \in Balances : UpdateVotingPower(c, a, n) => TypeOK'
         /\ \A c, a \in Accounts, l \in CachedLedgers, n \in Cached :
              CacheTokenBalance(c, l, a, n) => TypeOK'
         /\ \A a \in Delegators, to \in Accounts : Delegate(a, to) => TypeOK'
<1> USE ConstantTypes
<1>1. ASSUME NEW c \in Accounts, NEW a \in Accounts, NEW n \in Balances, UpdateVotingPower(c, a, n)
      PROVE  TypeOK'
  <2>1. n \in Int /\ ledger \in Nat /\ History(checkpoint[a], ledger) /\ History(supply, ledger)
    BY DEF IndInv, TypeOK, PowerOK
  <2>2. Latest(supply) + (n - Latest(checkpoint[a])) \in Int
    BY <2>1, LatestType DEF History
  <2>3. /\ Record(checkpoint[a], n) \in Seq(Checkpoint)
        /\ Record(supply, Latest(supply) + (n - Latest(checkpoint[a]))) \in Seq(Checkpoint)
    BY <2>1, <2>2, RecordHistory DEF History
  <2>4. checkpoint' \in [Accounts -> Seq(Checkpoint)] /\ supply' \in Seq(Checkpoint)
    BY <1>1, <2>3 DEF UpdateVotingPower, IndInv, TypeOK
  <2>5. pause' \in [Domains -> [paused : BOOLEAN, expires : Nat]]
    BY <1>1, CheckPauseType DEF UpdateVotingPower, IndInv, Domains
  <2> QED BY <1>1, <2>4, <2>5
          DEF UpdateVotingPower, IndInv, TypeOK, adminVars, ballotVars, registryVars
<1>2. ASSUME NEW c \in Accounts, NEW a \in Accounts, NEW l \in CachedLedgers, NEW n \in Cached,
             CacheTokenBalance(c, l, a, n)
      PROVE  TypeOK'
  <2>1. cached' \in [Ledgers -> [Accounts -> Int]]
    BY <1>2 DEF CacheTokenBalance, IndInv, TypeOK
  <2>2. pause' \in [Domains -> [paused : BOOLEAN, expires : Nat]]
    BY <1>2, CheckPauseType DEF CacheTokenBalance, IndInv, Domains
  <2> QED BY <1>2, <2>1, <2>2
          DEF CacheTokenBalance, IndInv, TypeOK, adminVars, ballotVars, registryVars
<1>3. ASSUME NEW a \in Delegators, NEW to \in Accounts, Delegate(a, to) PROVE TypeOK'
  <2>1. delegation' \in [Accounts -> Accounts]
    BY <1>3 DEF Delegate, IndInv, TypeOK
  <2>2. pause' \in [Domains -> [paused : BOOLEAN, expires : Nat]]
    BY <1>3, CheckPauseType DEF Delegate, IndInv, Domains
  <2> QED BY <1>3, <2>1, <2>2 DEF Delegate, IndInv, TypeOK, adminVars, ballotVars, registryVars
<1> QED BY <1>1, <1>2, <1>3

\* Administration keeps the types.
LEMMA TypeAdmin ==
  ASSUME TypeOK
  PROVE  /\ \A a \in Accounts, c \in Configs : UpdateConfig(a, c) => TypeOK'
         /\ \A a \in Accounts : SetRegistryContract(a) => TypeOK'
         /\ \A a \in Accounts : ProposeAdmin(a) => TypeOK'
         /\ AcceptAdmin => TypeOK'
         /\ CancelAdminTransfer => TypeOK'
<1> USE ConstantTypes DEF adminVars, powerVars, ballotVars, registryVars
<1>1. CheckNotPaused("config") => pause' \in [Domains -> [paused : BOOLEAN, expires : Nat]]
  BY CheckPauseType DEF Domains
<1>2. \A a \in Accounts, c \in Configs : UpdateConfig(a, c) => TypeOK'
  BY <1>1 DEF UpdateConfig, TypeOK
<1>3. \A a \in Accounts : SetRegistryContract(a) => TypeOK'
  BY <1>1 DEF SetRegistryContract, TypeOK
<1>4. \A a \in Accounts : ProposeAdmin(a) => TypeOK'
  BY <1>1 DEF ProposeAdmin, TypeOK
<1>5. AcceptAdmin => TypeOK'
  BY DEF AcceptAdmin, TypeOK
<1>6. CancelAdminTransfer => TypeOK'
  BY DEF CancelAdminTransfer, TypeOK
<1> QED BY <1>2, <1>3, <1>4, <1>5, <1>6

\* Pausing, control over a Talos and the ledger keep the types.
LEMMA TypeRest ==
  ASSUME TypeOK
  PROVE  /\ \A d \in Pausable, n \in PauseDurations : PauseDomain(d, n) => TypeOK'
         /\ \A d \in Domains : UnpauseDomain(d) => TypeOK'
         /\ \A t \in Governable : SetController(t) => TypeOK'
         /\ CloseLedger => TypeOK'
<1> USE ConstantTypes DEF adminVars, powerVars, ballotVars, registryVars
<1>1. ASSUME NEW d \in Pausable, NEW n \in PauseDurations, PauseDomain(d, n) PROVE TypeOK'
  <2>1. [paused |-> TRUE, expires |-> IF n = 0 THEN 0 ELSE ledger + n] \in [paused : BOOLEAN, expires : Nat]
    BY DEF TypeOK
  <2>2. pause' \in [Domains -> [paused : BOOLEAN, expires : Nat]]
    BY <1>1, <2>1 DEF PauseDomain, TypeOK
  <2> QED BY <1>1, <2>2 DEF PauseDomain, TypeOK
<1>2. ASSUME NEW d \in Domains, UnpauseDomain(d) PROVE TypeOK'
  <2>1. NotPaused \in [paused : BOOLEAN, expires : Nat]
    BY DEF NotPaused
  <2>2. pause' \in [Domains -> [paused : BOOLEAN, expires : Nat]]
    BY <1>2, <2>1 DEF UnpauseDomain, TypeOK
  <2> QED BY <1>2, <2>2 DEF UnpauseDomain, TypeOK
<1>3. \A t \in Governable : SetController(t) => TypeOK'
  BY DEF SetController, TypeOK
<1>4. CloseLedger => TypeOK'
  BY DEF CloseLedger, TypeOK
<1> QED BY <1>1, <1>2, <1>3, <1>4

\* Every step keeps the types.
LEMMA TypeStep == IndInv /\ [Next]_vars => TypeOK'
<1> SUFFICES ASSUME IndInv, [Next]_vars PROVE TypeOK'
  OBVIOUS
<1>1. TypeOK
  BY DEF IndInv
<1>2. UNCHANGED vars => TypeOK'
  BY <1>1 DEF vars, TypeOK
<1> QED BY <1>1, <1>2, TypeInitialize, TypeBallot, TypeDecide, TypePower, TypeAdmin, TypeRest DEF Next

\* The two ways the voting power and the ledger change: an update records a
\* checkpoint of one account and of the supply, or nothing is recorded and
\* the ledger stays or closes.
UpdateStep(a, n) ==
  /\ checkpoint' = [checkpoint EXCEPT ![a] = Record(checkpoint[a], n)]
  /\ supply' = Record(supply, Latest(supply) + (n - Latest(checkpoint[a])))
  /\ ledger' = ledger
LEMMA PowerSteps ==
  ASSUME [Next]_vars
  PROVE  \/ \E a \in Accounts, n \in Balances : UpdateStep(a, n)
         \/ /\ UNCHANGED <<checkpoint, supply>>
            /\ ledger' = ledger \/ (ledger < MaxLedger /\ ledger' = ledger + 1)
<1> USE DEF powerVars
<1>1. CASE UNCHANGED vars
  BY <1>1 DEF vars
<1>2. ASSUME NEW c \in Accounts, NEW a \in Accounts, NEW n \in Balances, UpdateVotingPower(c, a, n)
      PROVE  UpdateStep(a, n)
  BY <1>2 DEF UpdateVotingPower, UpdateStep
<1>3. CASE \E a \in Accounts, t \in Taloses, act \in Actions : CreateProposal(a, t, act)
  BY <1>3 DEF CreateProposal
<1>4. CASE \E a \in Accounts, i \in ProposalIds, c \in VoteChoices : CastVote(a, i, c)
  BY <1>4 DEF CastVote
<1>5. CASE \/ \E a \in Accounts, c \in InitConfigs : Initialize(a, c)
           \/ \E a \in Accounts, i \in ProposalIds : CancelProposal(a, i)
           \/ \E i \in ProposalIds : FinalizeProposal(i)
           \/ \E i \in ProposalIds : ExecuteProposal(i)
  <2>1. \A i \in ProposalIds : FinalizeProposal(i) => UNCHANGED <<powerVars, ledger>>
    BY DEF FinalizeProposal
  <2>2. \A i \in ProposalIds : ExecuteProposal(i) => UNCHANGED <<powerVars, ledger>>
    BY DEF ExecuteProposal
  <2>3. \A a \in Accounts, i \in ProposalIds : CancelProposal(a, i) => UNCHANGED <<powerVars, ledger>>
    BY DEF CancelProposal
  <2>4. \A a \in Accounts, c \in InitConfigs : Initialize(a, c) => UNCHANGED <<powerVars, ledger>>
    <3> SUFFICES ASSUME NEW a \in Accounts, NEW c \in InitConfigs, Initialize(a, c)
                 PROVE  UNCHANGED <<powerVars, ledger>>
      OBVIOUS
    <3>1. UNCHANGED <<pendingAdmin, transfers, powerVars, ballotVars, registryVars, pause, ledger>>
      BY Zenon DEF Initialize
    <3> QED BY <3>1
  <2> QED BY <1>5, <2>1, <2>2, <2>3, <2>4
<1>6. CASE \/ \E c, a \in Accounts, l \in CachedLedgers, n \in Cached : CacheTokenBalance(c, l, a, n)
           \/ \E a \in Delegators, to \in Accounts : Delegate(a, to)
           \/ \E a \in Accounts, c \in Configs : UpdateConfig(a, c)
           \/ \E a \in Accounts : SetRegistryContract(a)
           \/ \E a \in Accounts : ProposeAdmin(a)
  BY <1>6 DEF CacheTokenBalance, Delegate, UpdateConfig, SetRegistryContract, ProposeAdmin
<1>7. CASE \/ AcceptAdmin \/ CancelAdminTransfer \/ CloseLedger
           \/ \E d \in Pausable, n \in PauseDurations : PauseDomain(d, n)
           \/ \E d \in Domains : UnpauseDomain(d)
           \/ \E t \in Governable : SetController(t)
  BY <1>7 DEF AcceptAdmin, CancelAdminTransfer, CloseLedger, PauseDomain, UnpauseDomain, SetController
<1> QED BY <1>1, <1>2, <1>3, <1>4, <1>5, <1>6, <1>7 DEF Next

\* The steps that change a proposal.
LEMMA ProposalSteps ==
  ASSUME [Next]_vars
  PROVE  \/ \E a \in Accounts, t \in Taloses, act \in Actions : CreateProposal(a, t, act)
         \/ \E a \in Accounts, i \in ProposalIds, c \in VoteChoices : CastVote(a, i, c)
         \/ \E a \in Accounts, i \in ProposalIds : CancelProposal(a, i)
         \/ \E i \in ProposalIds : FinalizeProposal(i)
         \/ \E i \in ProposalIds : ExecuteProposal(i)
         \/ UNCHANGED ballotVars
<1> USE DEF ballotVars
<1>1. CASE UNCHANGED vars
  BY <1>1 DEF vars
<1>2. CASE \/ \E a \in Accounts, c \in InitConfigs : Initialize(a, c)
           \/ \E c, a \in Accounts, n \in Balances : UpdateVotingPower(c, a, n)
           \/ \E c, a \in Accounts, l \in CachedLedgers, n \in Cached : CacheTokenBalance(c, l, a, n)
           \/ \E a \in Delegators, to \in Accounts : Delegate(a, to)
  <2>1. \A a \in Accounts, c \in InitConfigs : Initialize(a, c) => UNCHANGED ballotVars
    BY DEF Initialize
  <2>2. \A c, a \in Accounts, n \in Balances : UpdateVotingPower(c, a, n) => UNCHANGED ballotVars
    BY DEF UpdateVotingPower
  <2>3. \A c, a \in Accounts, l \in CachedLedgers, n \in Cached :
          CacheTokenBalance(c, l, a, n) => UNCHANGED ballotVars
    BY DEF CacheTokenBalance
  <2>4. \A a \in Delegators, to \in Accounts : Delegate(a, to) => UNCHANGED ballotVars
    BY DEF Delegate
  <2> QED BY <1>2, <2>1, <2>2, <2>3, <2>4
<1>3. CASE \/ \E a \in Accounts, c \in Configs : UpdateConfig(a, c)
           \/ \E a \in Accounts : SetRegistryContract(a)
           \/ \E a \in Accounts : ProposeAdmin(a)
           \/ AcceptAdmin \/ CancelAdminTransfer \/ CloseLedger
  BY <1>3 DEF UpdateConfig, SetRegistryContract, ProposeAdmin, AcceptAdmin, CancelAdminTransfer,
              CloseLedger
<1>4. CASE \/ \E d \in Pausable, n \in PauseDurations : PauseDomain(d, n)
           \/ \E d \in Domains : UnpauseDomain(d)
           \/ \E t \in Governable : SetController(t)
  BY <1>4 DEF PauseDomain, UnpauseDomain, SetController
<1> QED BY <1>1, <1>2, <1>3, <1>4 DEF Next

\* Which proposals a step gives a snapshot, and that none is in the future.
LEMMA SnapshotStep == IndInv /\ [Next]_vars => SnapshotsPast'
<1> SUFFICES ASSUME IndInv, [Next]_vars, NEW i \in ProposalIds
             PROVE  proposal'[i].snapshot <= ledger'
  BY DEF SnapshotsPast
<1>1. /\ proposal \in [ProposalIds -> Proposal] /\ proposal[i].snapshot \in Nat /\ ledger \in Nat
      /\ proposal[i].snapshot <= ledger
  BY DEF IndInv, TypeOK, SnapshotsPast, Proposal
<1>2. ledger' = ledger \/ ledger' = ledger + 1
  BY PowerSteps DEF UpdateStep
<1>t. proposal'[i].snapshot \in Nat
  <2>1. proposal' \in [ProposalIds -> Proposal]
    BY TypeStep DEF TypeOK
  <2>2. proposal'[i] \in Proposal
    BY <2>1
  <2> QED BY <2>2 DEF Proposal
<1>3. SUFFICES proposal'[i].snapshot = proposal[i].snapshot \/ proposal'[i].snapshot <= ledger
  BY <1>1, <1>2, <1>t
<1>4. ASSUME NEW a \in Accounts, NEW t \in Taloses, NEW act \in Actions, CreateProposal(a, t, act)
      PROVE  proposal'[i].snapshot = proposal[i].snapshot \/ proposal'[i].snapshot <= ledger
  <2>1. PICK j \in ProposalIds : proposal' = [proposal EXCEPT ![j] = NewProposal(a, act)]
    BY <1>4 DEF CreateProposal
  <2>2. config.offset \in Int /\ (config.offset = NoOffset \/ config.offset >= 0)
    BY DEF IndInv, TypeOK, Config, NoOffset
  <2>3. Snapshot <= ledger
    BY <1>1, <2>2, ConstantTypes DEF Snapshot
  <2>4. NewProposal(a, act).snapshot <= ledger
    BY <2>3 DEF NewProposal
  <2> QED BY <1>1, <2>1, <2>4
<1>5. ASSUME NEW a \in Accounts, NEW j \in ProposalIds, NEW c \in VoteChoices, CastVote(a, j, c)
      PROVE  proposal'[i].snapshot = proposal[i].snapshot
  <2> DEFINE p == Counted(proposal[j], c, GetVoteWeight(proposal[j].snapshot, a))
  <2>1. \/ proposal' = [proposal EXCEPT ![j] = [p EXCEPT !.status = Decision(p)]]
        \/ proposal' = [proposal EXCEPT ![j] = p]
    BY <1>5 DEF CastVote
  <2>2. proposal[j] \in Proposal
    BY <1>1
  <2>3. p.snapshot = proposal[j].snapshot /\ [p EXCEPT !.status = Decision(p)].snapshot = p.snapshot
    <3>1. /\ DOMAIN p = DOMAIN proposal[j] /\ p.snapshot = proposal[j].snapshot
      BY <2>2 DEF Counted, Proposal
    <3>2. "snapshot" \in DOMAIN p
      BY <2>2, <3>1 DEF Proposal
    <3> HIDE DEF p
    <3> QED BY <3>1, <3>2
  <2> HIDE DEF p
  <2> QED BY <1>1, <2>1, <2>3
<1>6. ASSUME NEW j \in ProposalIds, NEW st, proposal' = [proposal EXCEPT ![j].status = st]
      PROVE  proposal'[i].snapshot = proposal[i].snapshot
  BY <1>1, <1>6 DEF Proposal
<1>7. CASE \/ \E a \in Accounts, j \in ProposalIds : CancelProposal(a, j)
           \/ \E j \in ProposalIds : FinalizeProposal(j)
           \/ \E j \in ProposalIds : ExecuteProposal(j)
  BY <1>6, <1>7 DEF CancelProposal, FinalizeProposal, ExecuteProposal
<1>8. CASE proposal' = proposal
  BY <1>8
<1> QED BY <1>4, <1>5, <1>7, <1>8, ProposalSteps DEF ballotVars

\* Every step keeps the histories of the voting power.
LEMMA PowerStep == IndInv /\ [Next]_vars => PowerOK'
<1> SUFFICES ASSUME IndInv, [Next]_vars PROVE PowerOK'
  OBVIOUS
<1>1. /\ ledger \in Nat /\ ledger <= MaxLedger /\ MaxLedger \in Nat
      /\ \A b \in Accounts : History(checkpoint[b], ledger)
      /\ History(supply, ledger) /\ checkpoint \in [Accounts -> Seq(Checkpoint)]
  BY ConstantTypes DEF IndInv, TypeOK, PowerOK
<1>2. ASSUME NEW a \in Accounts, NEW n \in Balances, UpdateStep(a, n) PROVE PowerOK'
  <2>1. n \in Int /\ Latest(supply) + (n - Latest(checkpoint[a])) \in Int
    BY <1>1, ConstantTypes, LatestType DEF History
  <2>2. /\ History(Record(checkpoint[a], n), ledger)
        /\ History(Record(supply, Latest(supply) + (n - Latest(checkpoint[a]))), ledger)
    BY <1>1, <2>1, RecordHistory
  <2>3. \A b \in Accounts : checkpoint'[b] = IF b = a THEN Record(checkpoint[a], n) ELSE checkpoint[b]
    BY <1>1, <1>2 DEF UpdateStep
  <2> QED BY <1>1, <1>2, <2>2, <2>3 DEF UpdateStep, PowerOK
<1>3. CASE UNCHANGED <<checkpoint, supply>> /\ ledger' = ledger
  BY <1>1, <1>3 DEF PowerOK
<1>4. CASE UNCHANGED <<checkpoint, supply>> /\ ledger < MaxLedger /\ ledger' = ledger + 1
  <2>1. ledger' \in Nat /\ ledger <= ledger' /\ ledger' <= MaxLedger
    BY <1>1, <1>4
  <2>2. \A b \in Accounts : History(checkpoint[b], ledger')
    BY <1>1, <2>1, HistoryGrows
  <2>3. History(supply, ledger')
    BY <1>1, <2>1, HistoryGrows
  <2> QED BY <1>4, <2>1, <2>2, <2>3 DEF PowerOK
<1> QED BY <1>2, <1>3, <1>4, PowerSteps

\* The inductive invariant holds in every reachable state.
THEOREM Invariance == Spec => []IndInv
<1>1. IndInv /\ [Next]_vars => IndInv'
  BY TypeStep, PowerStep, SnapshotStep DEF IndInv
<1> QED BY <1>1, InitInd, PTL DEF Spec

-----------------------------------------------------------------------------
(* The voting power of the past.                                           *)

\* The types of the contract's storage.
THEOREM TypeCorrect == Spec => []TypeOK
<1>1. IndInv => TypeOK
  BY DEF IndInv
<1> QED BY <1>1, Invariance, PTL

\* In every history the contract can record, the lookup that get_past_votes
\* and get_past_total_supply do by binary search returns the votes of the last
\* checkpoint at or before the ledger.
THEOREM SearchCorrect == Spec => []SearchIsLookup
<1>1. IndInv => SearchIsLookup
  BY PowerTypes DEF SearchIsLookup
<1> QED BY <1>1, Invariance, PTL

\* What an update of the voting power changes of the reference lookups: the
\* account's and the supply's, by the same amount, from this ledger on.
LEMMA UpdateLookups ==
  ASSUME IndInv, NEW a \in Accounts, NEW n \in Balances, UpdateStep(a, n), NEW l \in Nat
  PROVE  /\ \A b \in Accounts \ {a} :
              LastAtOrBefore(checkpoint'[b], l, 0) = LastAtOrBefore(checkpoint[b], l, 0)
         /\ l < ledger =>
              /\ LastAtOrBefore(checkpoint'[a], l, 0) = LastAtOrBefore(checkpoint[a], l, 0)
              /\ LastAtOrBefore(supply', l, 0) = LastAtOrBefore(supply, l, 0)
         /\ l >= ledger =>
              /\ LastAtOrBefore(checkpoint'[a], l, 0) = n
              /\ LastAtOrBefore(supply', l, 0)
                   = LastAtOrBefore(supply, l, 0) + (n - LastAtOrBefore(checkpoint[a], l, 0))
<1> DEFINE m == Latest(supply) + (n - Latest(checkpoint[a]))
<1>1. /\ checkpoint \in [Accounts -> Seq(Checkpoint)] /\ ledger \in Nat
      /\ History(checkpoint[a], ledger) /\ History(supply, ledger)
  BY DEF IndInv, TypeOK, PowerOK
<1>2. n \in Int /\ m \in Int
  BY <1>1, ConstantTypes, LatestType DEF History
<1>3. /\ checkpoint'[a] = Record(checkpoint[a], n) /\ supply' = Record(supply, m)
      /\ \A b \in Accounts \ {a} : checkpoint'[b] = checkpoint[b]
  BY <1>1 DEF UpdateStep
<1> HIDE DEF m
<1>4. CASE l < ledger
  BY <1>1, <1>2, <1>3, <1>4, RecordPast
<1>5. CASE l >= ledger
  <2>1. LastAtOrBefore(checkpoint'[a], l, 0) = n /\ LastAtOrBefore(supply', l, 0) = m
    BY <1>1, <1>2, <1>3, <1>5, RecordPresent
  <2>2. /\ LastAtOrBefore(supply, l, 0) = Latest(supply)
        /\ LastAtOrBefore(checkpoint[a], l, 0) = Latest(checkpoint[a])
    BY <1>1, <1>5, LatestIsLast
  <2> QED BY <1>1, <1>3, <1>5, <2>1, <2>2 DEF m
<1> QED BY <1>1, <1>4, <1>5

\* The lookup of the supply after a step.
LEMMA SupplyAfter ==
  ASSUME IndInv, [Next]_vars, NEW l \in Nat
  PROVE  GetPastTotalSupply(l)' = LastAtOrBefore(supply', l, 0)
<1>1. supply' \in Seq(Checkpoint) /\ Rising(supply')
  BY TypeStep, PowerStep DEF TypeOK, PowerOK, History
<1>2. GetPastTotalSupply(l)' = LookUp(supply', l, 0)
  BY DEF GetPastTotalSupply
<1> QED BY <1>1, <1>2, LookUpIsLast

\* The supply stays the sum of the accounts' power: an update changes one
\* summand, and the supply by as much.
LEMMA SupplyStep == IndInv /\ SupplyIsSum /\ [Next]_vars => SupplyIsSum'
<1> DEFINE Power(l) == [a \in Accounts |-> LastAtOrBefore(checkpoint[a], l, 0)]
           PowerAfter(l) == [a \in Accounts |-> LastAtOrBefore(checkpoint'[a], l, 0)]
<1> SUFFICES ASSUME IndInv, SupplyIsSum, [Next]_vars, NEW l \in Ledgers
             PROVE  GetPastTotalSupply(l)' = SumOver(PowerAfter(l), Accounts)
  BY DEF SupplyIsSum
<1>1. l \in Nat /\ IsFiniteSet(Accounts) /\ ledger \in Nat
  BY ConstantTypes DEF Ledgers, IndInv, TypeOK
<1>2. LastAtOrBefore(supply, l, 0) = SumOver(Power(l), Accounts)
  <2>1. GetPastTotalSupply(l) = SumOver(Power(l), Accounts)
    BY DEF SupplyIsSum
  <2> QED BY <2>1, PowerTypes
<1>3. \A a \in Accounts : Power(l)[a] \in Int
  <2> SUFFICES ASSUME NEW a \in Accounts PROVE LastAtOrBefore(checkpoint[a], l, 0) \in Int
    OBVIOUS
  <2>1. checkpoint[a] \in Seq(Checkpoint)
    BY DEF IndInv, TypeOK
  <2> QED BY <1>1, <2>1, LastType
<1>4. ASSUME NEW a \in Accounts, NEW n \in Balances, UpdateStep(a, n)
      PROVE  LastAtOrBefore(supply', l, 0) = SumOver(PowerAfter(l), Accounts)
  <2>1. \A b \in Accounts \ {a} : PowerAfter(l)[b] = Power(l)[b]
    BY <1>1, <1>4, UpdateLookups
  <2>2. CASE l < ledger
    <3>1. \A b \in Accounts : PowerAfter(l)[b] = Power(l)[b]
      BY <1>1, <1>4, <2>1, <2>2, UpdateLookups
    <3>2. SumOver(PowerAfter(l), Accounts) = SumOver(Power(l), Accounts)
      <4> HIDE DEF Power, PowerAfter
      <4> QED BY <1>1, <3>1, SumEqual
    <3> QED BY <1>1, <1>2, <1>4, <2>2, <3>2, UpdateLookups
  <2>3. CASE l >= ledger
    <3>1. PowerAfter(l)[a] = n /\ n \in Int
      BY <1>1, <1>4, <2>3, ConstantTypes, UpdateLookups
    <3>2. LastAtOrBefore(supply', l, 0) = LastAtOrBefore(supply, l, 0) + (n - Power(l)[a])
      BY <1>1, <1>4, <2>3, UpdateLookups
    <3>3. SumOver(PowerAfter(l), Accounts) = SumOver(Power(l), Accounts) + (PowerAfter(l)[a] - Power(l)[a])
      <4> HIDE DEF Power, PowerAfter
      <4> QED BY <1>1, <1>3, <2>1, <3>1, SumChange
    <3> HIDE DEF Power, PowerAfter
    <3> QED BY <1>2, <3>1, <3>2, <3>3
  <2> QED BY <1>1, <2>2, <2>3
<1>5. ASSUME UNCHANGED <<checkpoint, supply>>
      PROVE  LastAtOrBefore(supply', l, 0) = SumOver(PowerAfter(l), Accounts)
  <2>1. \A b \in Accounts : PowerAfter(l)[b] = Power(l)[b]
    BY <1>5
  <2>2. SumOver(PowerAfter(l), Accounts) = SumOver(Power(l), Accounts)
    <3> HIDE DEF Power, PowerAfter
    <3> QED BY <1>1, <2>1, SumEqual
  <2>3. supply' = supply
    BY <1>5
  <2> HIDE DEF Power, PowerAfter
  <2> QED BY <1>2, <2>2, <2>3
<1>6. LastAtOrBefore(supply', l, 0) = SumOver(PowerAfter(l), Accounts)
  <2>1. \/ \E a \in Accounts, n \in Balances : UpdateStep(a, n)
        \/ UNCHANGED <<checkpoint, supply>>
    BY PowerSteps
  <2> HIDE DEF Power, PowerAfter
  <2> QED BY <1>4, <1>5, <2>1
<1> QED BY <1>1, <1>6, SupplyAfter

\* At first nobody has power.
LEMMA SupplyInit == Init => SupplyIsSum
<1> SUFFICES ASSUME Init, NEW l \in Ledgers
             PROVE  GetPastTotalSupply(l)
                      = SumOver([a \in Accounts |-> LastAtOrBefore(checkpoint[a], l, 0)], Accounts)
  BY DEF SupplyIsSum
<1> DEFINE Power == [a \in Accounts |-> LastAtOrBefore(checkpoint[a], l, 0)]
<1>1. l \in Int /\ IsFiniteSet(Accounts)
  BY ConstantTypes DEF Ledgers
<1>2. LastAtOrBefore(<<>>, l, 0) = 0
  <2>1. <<>> \in Seq(Checkpoint) /\ \A k \in 1..Len(<<>>) : <<>>[k].ledger > l
    OBVIOUS
  <2> QED BY <1>1, <2>1, NoneBefore
<1>3. \A a \in Accounts : Power[a] = 0
  BY <1>2 DEF Init
<1>4. SumOver(Power, Accounts) = 0
  <2> HIDE DEF Power
  <2> QED BY <1>1, <1>3, SumZero
<1>5. GetPastTotalSupply(l) = 0
  BY DEF Init, GetPastTotalSupply, LookUp
<1> QED BY <1>4, <1>5

\* The total supply at every ledger is the sum of the power of the accounts at
\* that ledger, after every sequence of update_voting_power.
THEOREM SupplyCorrect == Spec => []SupplyIsSum
BY Invariance, SupplyInit, SupplyStep, PTL DEF Spec

\* One step leaves the power of every closed ledger as it was.
LEMMA PastStep ==
  ASSUME IndInv, [Next]_vars, NEW l \in 0..(ledger - 1)
  PROVE  /\ GetPastTotalSupply(l)' = GetPastTotalSupply(l)
         /\ \A a \in Accounts :
              LastAtOrBefore(checkpoint'[a], l, 0) = LastAtOrBefore(checkpoint[a], l, 0)
<1>1. ledger \in Nat /\ ledger <= MaxLedger /\ MaxLedger \in Nat
  BY ConstantTypes DEF IndInv, TypeOK, PowerOK
<1>2. l \in Nat /\ l < ledger /\ l \in Ledgers
  BY <1>1 DEF Ledgers
<1>3. GetPastTotalSupply(l)' = LastAtOrBefore(supply', l, 0)
      /\ GetPastTotalSupply(l) = LastAtOrBefore(supply, l, 0)
  BY <1>2, SupplyAfter, PowerTypes
<1>4. ASSUME NEW a \in Accounts, NEW n \in Balances, UpdateStep(a, n)
      PROVE  /\ LastAtOrBefore(supply', l, 0) = LastAtOrBefore(supply, l, 0)
             /\ \A b \in Accounts :
                  LastAtOrBefore(checkpoint'[b], l, 0) = LastAtOrBefore(checkpoint[b], l, 0)
  BY <1>2, <1>4, UpdateLookups
<1>5. CASE UNCHANGED <<checkpoint, supply>>
  BY <1>3, <1>5
<1> QED BY <1>3, <1>4, <1>5, PowerSteps

\* Checkpointed power at a ledger that has closed never changes.
THEOREM PastCorrect == Spec => PastIsImmutable
<1>1. IndInv /\ [Next]_vars =>
        [\A l \in 0..(ledger - 1) :
           /\ GetPastTotalSupply(l)' = GetPastTotalSupply(l)
           /\ \A a \in Accounts :
                LastAtOrBefore(checkpoint[a], l, 0)' = LastAtOrBefore(checkpoint[a], l, 0)]_vars
  BY PastStep
<1> QED BY <1>1, Invariance, PTL DEF Spec, PastIsImmutable

-----------------------------------------------------------------------------
(* Proposals and votes.                                                    *)

\* What each step does to the proposal i, its votes and its dispatches: it is
\* created in an unused slot, it takes the vote of one account that has not
\* voted, it is cancelled or finalised, or it is carried out.
Passes(p) == (p.yes * 10000) \div (p.yes + p.no) >= config.consensus
CreatedStep(i) ==
  /\ config # NoConfig
  /\ proposal[i].status = "absent" /\ proposal'[i].status = "Active"
  /\ proposal'[i].action \in Actions
  /\ proposal'[i].yes = 0 /\ proposal'[i].no = 0 /\ proposal'[i].voters = 0
  /\ vote'[i] = vote[i] /\ dispatched'[i] = dispatched[i]
VotedStep(i, a, c, w) ==
  /\ proposal[i].status = "Active" /\ w > 0 /\ vote[i][a] = NoVote
  /\ vote'[i] = [vote[i] EXCEPT ![a] = [choice |-> c, weight |-> w]]
  /\ proposal'[i].yes = IF c = "Approve" THEN proposal[i].yes + w ELSE proposal[i].yes
  /\ proposal'[i].no = IF c = "Approve" THEN proposal[i].no ELSE proposal[i].no + w
  /\ proposal'[i].voters = proposal[i].voters + 1
  /\ \/ proposal'[i].status = "Active"
     \/ proposal'[i].status \in {"Approved", "Rejected"} /\ i \in quorumReached'
  /\ proposal'[i].status = "Approved" => Passes(proposal[i])'
  /\ proposal'[i].action = proposal[i].action /\ config' = config
  /\ dispatched'[i] = dispatched[i]
DecidedStep(i) ==
  \E s \in {"Cancelled", "Approved", "Rejected"} :
    /\ proposal[i].status = "Active" /\ proposal'[i] = [proposal[i] EXCEPT !.status = s]
    /\ s # "Cancelled" => ledger > proposal[i].end
    /\ s = "Cancelled" => proposal[i].voters = 0
    /\ s = "Approved" => Passes(proposal[i]) /\ proposal[i].yes + proposal[i].no # 0
    /\ vote'[i] = vote[i] /\ dispatched'[i] = dispatched[i]
ExecutedStep(i) ==
  /\ proposal[i].status = "Approved" /\ proposal'[i] = [proposal[i] EXCEPT !.status = "Executed"]
  /\ vote'[i] = vote[i] /\ dispatched'[i] = dispatched[i] + 1
IdleStep(i) ==
  proposal'[i] = proposal[i] /\ vote'[i] = vote[i] /\ dispatched'[i] = dispatched[i]

\* These are all the steps a proposal can see.
LEMMA BallotSteps ==
  ASSUME IndInv, [Next]_vars, NEW i \in ProposalIds
  PROVE  \/ CreatedStep(i)
         \/ \E a \in Accounts, c \in VoteChoices, w \in Int : VotedStep(i, a, c, w)
         \/ DecidedStep(i) \/ ExecutedStep(i) \/ IdleStep(i)
<1>1. /\ proposal \in [ProposalIds -> Proposal] /\ vote \in [ProposalIds -> [Accounts -> Vote]]
      /\ dispatched \in [ProposalIds -> Nat] /\ ledger \in Nat
      /\ \A j \in ProposalIds : proposal[j] \in Proposal
  BY DEF IndInv, TypeOK
<1>2. ASSUME NEW a \in Accounts, NEW t \in Taloses, NEW act \in Actions, CreateProposal(a, t, act)
      PROVE  CreatedStep(i) \/ IdleStep(i)
  <2>1. PICK j \in ProposalIds :
          /\ proposal[j].status = "absent" /\ proposal' = [proposal EXCEPT ![j] = NewProposal(a, act)]
          /\ config # NoConfig /\ vote' = vote /\ dispatched' = dispatched
    BY <1>2 DEF CreateProposal
  <2> QED BY <1>1, <2>1 DEF CreatedStep, IdleStep, NewProposal
<1>3. ASSUME NEW a \in Accounts, NEW j \in ProposalIds, NEW c \in VoteChoices, CastVote(a, j, c)
      PROVE  (\E w \in Int : VotedStep(i, a, c, w)) \/ IdleStep(i)
  <2> DEFINE w == GetVoteWeight(proposal[j].snapshot, a)
             p == Counted(proposal[j], c, w)
  <2>1. proposal[j].snapshot \in Ledgers
    BY <1>1, ConstantTypes DEF IndInv, SnapshotsPast, PowerOK, Ledgers, Proposal
  <2>2. w \in Int
    BY <2>1, PowerTypes
  <2>3. /\ proposal[j].status = "Active" /\ w > 0 /\ vote[j][a] = NoVote
        /\ vote' = [vote EXCEPT ![j][a] = [choice |-> c, weight |-> w]]
        /\ \/ /\ quorumReached' = quorumReached \cup {j}
              /\ proposal' = [proposal EXCEPT ![j] = [p EXCEPT !.status = Decision(p)]]
           \/ proposal' = [proposal EXCEPT ![j] = p]
        /\ dispatched' = dispatched /\ config' = config
    BY <1>3 DEF CastVote, StillOpen, HasVoted
  <2> HIDE DEF w
  <2>4. /\ p.yes = IF c = "Approve" THEN proposal[j].yes + w ELSE proposal[j].yes
        /\ p.no = IF c = "Approve" THEN proposal[j].no ELSE proposal[j].no + w
        /\ p.voters = proposal[j].voters + 1 /\ p.status = proposal[j].status
        /\ p.action = proposal[j].action /\ DOMAIN p = DOMAIN proposal[j]
    BY <1>1 DEF Counted, Proposal
  <2>5. \A f \in {"yes", "no", "voters", "status", "action"} : f \in DOMAIN p
    BY <1>1, <2>4 DEF Proposal
  <2> HIDE DEF p
  <2> DEFINE q == [p EXCEPT !.status = Decision(p)]
  <2>6. /\ q.yes = p.yes /\ q.no = p.no /\ q.voters = p.voters /\ q.status = Decision(p)
        /\ q.action = p.action
    BY <2>5
  <2>7. /\ Decision(p) \in {"Approved", "Rejected"}
        /\ Decision(p) = "Approved" => Passes(p)
    BY DEF Decision, Passes
  <2> HIDE DEF q
  <2>8. CASE i # j
    BY <1>1, <2>3, <2>8 DEF IdleStep
  <2>9. CASE i = j
    <3>1. vote'[i] = [vote[i] EXCEPT ![a] = [choice |-> c, weight |-> w]]
      BY <1>1, <2>3, <2>9
    <3>2. \/ proposal'[i] = q /\ i \in quorumReached'
          \/ proposal'[i] = p
      BY <1>1, <2>3, <2>9 DEF q
    <3>a. proposal'[i].status = "Approved" => Passes(proposal[i])'
      BY <2>3, <2>4, <2>6, <2>7, <2>9, <3>2 DEF Passes
    <3>3. VotedStep(i, a, c, w)
      BY <2>3, <2>4, <2>6, <2>7, <2>9, <3>1, <3>2, <3>a DEF VotedStep
    <3> QED BY <2>2, <3>3
  <2> QED BY <2>8, <2>9
<1>4. ASSUME NEW a \in Accounts, NEW j \in ProposalIds, CancelProposal(a, j)
      PROVE  DecidedStep(i) \/ IdleStep(i)
  BY <1>1, <1>4 DEF CancelProposal, DecidedStep, IdleStep
<1>5. ASSUME NEW j \in ProposalIds, FinalizeProposal(j) PROVE DecidedStep(i) \/ IdleStep(i)
  <2>1. /\ proposal[j].status = "Active" /\ ledger > proposal[j].end
        /\ proposal' = [proposal EXCEPT ![j].status = Decision(proposal[j])]
        /\ vote' = vote /\ dispatched' = dispatched
    BY <1>5 DEF FinalizeProposal, Finalizable
  <2>2. /\ Decision(proposal[j]) \in {"Approved", "Rejected"}
        /\ Decision(proposal[j]) = "Approved" =>
             Passes(proposal[j]) /\ proposal[j].yes + proposal[j].no # 0
    BY <1>5 DEF FinalizeProposal, DecisionDefined, Decision, Passes
  <2>3. CASE i = j
    BY <1>1, <2>1, <2>2, <2>3 DEF DecidedStep
  <2>4. CASE i # j
    BY <1>1, <2>1, <2>4 DEF IdleStep
  <2> QED BY <2>3, <2>4
<1>6. ASSUME NEW j \in ProposalIds, ExecuteProposal(j) PROVE ExecutedStep(i) \/ IdleStep(i)
  BY <1>1, <1>6 DEF ExecuteProposal, Executable, ExecutedStep, IdleStep
<1>7. CASE UNCHANGED ballotVars
  BY <1>7 DEF ballotVars, IdleStep
<1> QED BY <1>2, <1>3, <1>4, <1>5, <1>6, <1>7, ProposalSteps

\* The action of a proposal is carried out exactly once if the proposal is
\* Executed, and never otherwise.
THEOREM DispatchCorrect == Spec => []DispatchedOnce
<1>1. Init => DispatchedOnce
  BY DEF Init, DispatchedOnce, NoProposal
<1>2. IndInv /\ DispatchedOnce /\ [Next]_vars => DispatchedOnce'
  <2> SUFFICES ASSUME IndInv, DispatchedOnce, [Next]_vars, NEW i \in ProposalIds
               PROVE  dispatched'[i] = IF proposal'[i].status = "Executed" THEN 1 ELSE 0
    BY DEF DispatchedOnce
  <2>1. dispatched[i] = IF proposal[i].status = "Executed" THEN 1 ELSE 0
    BY DEF DispatchedOnce
  <2>2. proposal[i] \in Proposal
    BY DEF IndInv, TypeOK
  <2> DEFINE Goal == dispatched'[i] = IF proposal'[i].status = "Executed" THEN 1 ELSE 0
  <2>3. CreatedStep(i) => Goal
    BY <2>1 DEF CreatedStep
  <2>4. \A a \in Accounts, c \in VoteChoices, w \in Int : VotedStep(i, a, c, w) => Goal
    BY <2>1 DEF VotedStep
  <2>5. DecidedStep(i) => Goal
    BY <2>1, <2>2 DEF DecidedStep, Proposal
  <2>6. ExecutedStep(i) => Goal
    BY <2>1, <2>2 DEF ExecutedStep, Proposal
  <2>7. IdleStep(i) => Goal
    BY <2>1 DEF IdleStep
  <2> HIDE DEF Goal
  <2>8. Goal
    BY <2>3, <2>4, <2>5, <2>6, <2>7, BallotSteps
  <2> QED BY <2>8 DEF Goal
<1> QED BY <1>1, <1>2, Invariance, PTL DEF Spec

\* A decided proposal moves only from Approved to Executed, and its tally, its
\* votes and its window stay.
THEOREM DecisionCorrect == Spec => DecisionIsFinal
<1> DEFINE Final(i) ==
      LET p == proposal[i]  q == proposal[i]'
      IN p.status \notin {"absent", "Active"} =>
           /\ q.status = p.status \/ (p.status = "Approved" /\ q.status = "Executed")
           /\ [q EXCEPT !.status = p.status] = p
           /\ vote[i]' = vote[i]
<1>1. ASSUME IndInv, [Next]_vars, NEW i \in ProposalIds PROVE Final(i)
  <2>1. proposal[i] \in Proposal
    BY <1>1 DEF IndInv, TypeOK
  <2>2. CreatedStep(i) => Final(i)
    BY DEF CreatedStep
  <2>3. \A a \in Accounts, c \in VoteChoices, w \in Int : VotedStep(i, a, c, w) => Final(i)
    BY DEF VotedStep
  <2>4. DecidedStep(i) => Final(i)
    BY DEF DecidedStep
  <2>5. ExecutedStep(i) => Final(i)
    BY <2>1 DEF ExecutedStep, Proposal
  <2>6. IdleStep(i) => Final(i)
    BY <2>1 DEF IdleStep, Proposal
  <2> HIDE DEF Final
  <2> QED BY <1>1, <2>2, <2>3, <2>4, <2>5, <2>6, BallotSteps
<1>2. IndInv /\ [Next]_vars => [\A i \in ProposalIds : Final(i)]_vars
  <2> HIDE DEF Final
  <2> QED BY <1>1
<1> QED BY <1>2, Invariance, PTL DEF Spec, DecisionIsFinal

\* A decision inside the voting period is made by a vote, and the vote met the
\* quorum.
THEOREM EarlyCorrect == Spec => EarlyDecisionHadQuorum
<1> DEFINE Early(i) ==
      (/\ proposal[i].status = "Active" /\ proposal[i]'.status \in {"Approved", "Rejected"}
       /\ ledger <= proposal[i].end)
        => /\ i \in quorumReached'
           /\ proposal[i]'.voters = proposal[i].voters + 1
<1>1. ASSUME IndInv, [Next]_vars, NEW i \in ProposalIds PROVE Early(i)
  <2>1. proposal[i] \in Proposal /\ ledger \in Nat
    BY <1>1 DEF IndInv, TypeOK
  <2>2. CreatedStep(i) => Early(i)
    BY DEF CreatedStep
  <2>3. \A a \in Accounts, c \in VoteChoices, w \in Int : VotedStep(i, a, c, w) => Early(i)
    BY DEF VotedStep
  <2>4. DecidedStep(i) => Early(i)
    BY <2>1 DEF DecidedStep, Proposal
  <2>5. ExecutedStep(i) => Early(i)
    BY DEF ExecutedStep
  <2>6. IdleStep(i) => Early(i)
    BY DEF IdleStep
  <2> HIDE DEF Early
  <2> QED BY <1>1, <2>2, <2>3, <2>4, <2>5, <2>6, BallotSteps
<1>2. IndInv /\ [Next]_vars => [\A i \in ProposalIds : Early(i)]_vars
  <2> HIDE DEF Early
  <2> QED BY <1>1
<1> QED BY <1>2, Invariance, PTL DEF Spec, EarlyDecisionHadQuorum

-----------------------------------------------------------------------------
(* The tallies.                                                            *)

\* An unused slot has no votes, and a recorded vote is for or against.
BallotsClean ==
  \A i \in ProposalIds :
    /\ proposal[i].status = "absent" =>
         /\ proposal[i].yes = 0 /\ proposal[i].no = 0 /\ proposal[i].voters = 0
    /\ \A a \in Accounts : vote[i][a] = NoVote \/ vote[i][a].choice \in VoteChoices
TallyInv == IndInv /\ BallotsClean /\ TallyMatchesVotes

Cast(i) == {a \in Accounts : HasVoted(i, a)}
Weights(i) == [a \in Accounts |-> vote[i][a].weight]

\* A vote adds its weight to the sum of one choice and leaves the other, and
\* adds one account to those that have voted.
LEMMA VoteCounts ==
  ASSUME TallyInv, NEW i \in ProposalIds, NEW a \in Accounts, NEW c \in VoteChoices, NEW w \in Int,
         vote[i][a] = NoVote, w > 0, vote'[i] = [vote[i] EXCEPT ![a] = [choice |-> c, weight |-> w]]
  PROVE  /\ WeightSum(i, c)' = WeightSum(i, c) + w
         /\ \A d \in VoteChoices \ {c} : WeightSum(i, d)' = WeightSum(i, d)
         /\ Cardinality(Cast(i)') = Cardinality(Cast(i)) + 1
<1> DEFINE f == Weights(i)
           g == Weights(i)'
<1>1. /\ IsFiniteSet(Accounts) /\ vote[i] \in [Accounts -> Vote]
      /\ \A d : Voters(i, d) \in SUBSET Accounts
  BY ConstantTypes DEF TallyInv, IndInv, TypeOK, Voters
<1>2. \A d : IsFiniteSet(Voters(i, d))
  BY <1>1, FS_Subset
<1>3. /\ \A b \in Accounts : f[b] \in Int /\ (b # a => g[b] = f[b])
      /\ g[a] = w
  BY <1>1 DEF Weights, Vote
<1>4. /\ Voters(i, c)' = Voters(i, c) \cup {a}
      /\ \A d \in VoteChoices : a \notin Voters(i, d)
      /\ \A d \in VoteChoices \ {c} : Voters(i, d)' = Voters(i, d)
  BY <1>1 DEF Voters, NoVote, VoteChoices
<1>5. \A d \in VoteChoices : /\ WeightSum(i, d) = SumOver(f, Voters(i, d))
                             /\ WeightSum(i, d)' = SumOver(g, Voters(i, d)')
  BY DEF WeightSum, Weights
<1> HIDE DEF f, g
<1>6. \A d \in VoteChoices : SumOver(g, Voters(i, d)) = SumOver(f, Voters(i, d))
  <2> SUFFICES ASSUME NEW d \in VoteChoices PROVE SumOver(g, Voters(i, d)) = SumOver(f, Voters(i, d))
    OBVIOUS
  <2>1. \A b \in Voters(i, d) : g[b] = f[b]
    BY <1>1, <1>3, <1>4
  <2> QED BY <1>2, <2>1, SumEqual
<1>7. SumOver(g, Voters(i, c) \cup {a}) = SumOver(g, Voters(i, c)) + w
  <2>1. \A b \in Voters(i, c) : g[b] \in Int
    BY <1>1, <1>3
  <2> QED BY <1>2, <1>3, <1>4, <2>1, SumAdd
<1>8. WeightSum(i, c)' = WeightSum(i, c) + w
  <2>1. SumOver(g, Voters(i, c)') = SumOver(g, Voters(i, c) \cup {a})
    BY <1>4, Zenon
  <2> QED BY <1>5, <1>6, <1>7, <2>1
<1>9. ASSUME NEW d \in VoteChoices \ {c} PROVE WeightSum(i, d)' = WeightSum(i, d)
  <2>1. SumOver(g, Voters(i, d)') = SumOver(g, Voters(i, d))
    BY <1>4, Zenon
  <2> QED BY <1>5, <1>6, <2>1
<1>10. Cardinality(Cast(i)') = Cardinality(Cast(i)) + 1
  <2>1. Cast(i)' = Cast(i) \cup {a} /\ a \notin Cast(i) /\ Cast(i) \in SUBSET Accounts
    BY <1>1 DEF Cast, HasVoted, NoVote
  <2>2. IsFiniteSet(Cast(i))
    BY <1>1, <2>1, FS_Subset
  <2>3. Cardinality(Cast(i) \cup {a}) = Cardinality(Cast(i)) + 1
    BY <2>1, <2>2, FS_AddElement
  <2>4. Cardinality(Cast(i)') = Cardinality(Cast(i) \cup {a})
    BY <2>1, Zenon
  <2> QED BY <2>3, <2>4
<1> QED BY <1>8, <1>9, <1>10

\* Votes that stay keep their sums and their number.
LEMMA VotesKept ==
  ASSUME IndInv, NEW i \in ProposalIds, vote'[i] = vote[i]
  PROVE  /\ \A d \in VoteChoices : WeightSum(i, d)' = WeightSum(i, d)
         /\ Cardinality(Cast(i)') = Cardinality(Cast(i))
<1> DEFINE f == Weights(i)
           g == Weights(i)'
<1>1. /\ \A b \in Accounts : g[b] = f[b]
      /\ \A d : Voters(i, d)' = Voters(i, d) /\ Voters(i, d) \in SUBSET Accounts
      /\ Cast(i)' = Cast(i)
  BY DEF Weights, Voters, Cast, HasVoted
<1>2. \A d : IsFiniteSet(Voters(i, d))
  BY <1>1, ConstantTypes, FS_Subset
<1>3. \A d : WeightSum(i, d) = SumOver(f, Voters(i, d)) /\ WeightSum(i, d)' = SumOver(g, Voters(i, d)')
  BY DEF WeightSum, Weights
<1> HIDE DEF f, g
<1>4. ASSUME NEW d \in VoteChoices PROVE WeightSum(i, d)' = WeightSum(i, d)
  <2>1. SumOver(g, Voters(i, d)') = SumOver(g, Voters(i, d))
    BY <1>1, Zenon
  <2>2. \A b \in Voters(i, d) : g[b] = f[b]
    BY <1>1
  <2>3. SumOver(g, Voters(i, d)) = SumOver(f, Voters(i, d))
    BY <1>2, <2>2, SumEqual
  <2> QED BY <1>3, <2>1, <2>3
<1>5. Cardinality(Cast(i)') = Cardinality(Cast(i))
  BY <1>1, Zenon
<1> QED BY <1>4, <1>5

\* Every step keeps slots and votes clean.
LEMMA CleanStep == TallyInv /\ [Next]_vars => BallotsClean'
<1> SUFFICES ASSUME TallyInv, [Next]_vars, NEW i \in ProposalIds
             PROVE  /\ proposal'[i].status = "absent" =>
                         /\ proposal'[i].yes = 0 /\ proposal'[i].no = 0 /\ proposal'[i].voters = 0
                    /\ \A a \in Accounts : vote'[i][a] = NoVote \/ vote'[i][a].choice \in VoteChoices
  BY DEF BallotsClean, NoVote, VoteChoices
<1>1. /\ IndInv /\ proposal[i] \in Proposal /\ vote[i] \in [Accounts -> Vote]
      /\ proposal[i].status = "absent" =>
           /\ proposal[i].yes = 0 /\ proposal[i].no = 0 /\ proposal[i].voters = 0
      /\ \A a \in Accounts : vote[i][a] = NoVote \/ vote[i][a].choice \in VoteChoices
  BY DEF TallyInv, BallotsClean, IndInv, TypeOK
<1>2. CASE CreatedStep(i) \/ IdleStep(i)
  BY <1>1, <1>2 DEF CreatedStep, IdleStep
<1>3. CASE DecidedStep(i) \/ ExecutedStep(i)
  <2>1. proposal'[i].status # "absent" /\ vote'[i] = vote[i]
    BY <1>1, <1>3 DEF DecidedStep, ExecutedStep, Proposal
  <2> QED BY <1>1, <2>1
<1>4. ASSUME NEW a \in Accounts, NEW c \in VoteChoices, NEW w \in Int, VotedStep(i, a, c, w)
      PROVE  /\ proposal'[i].status # "absent"
             /\ \A b \in Accounts : vote'[i][b] = NoVote \/ vote'[i][b].choice \in VoteChoices
  BY <1>1, <1>4 DEF VotedStep
<1> QED BY <1>1, <1>2, <1>3, <1>4, BallotSteps

\* What the tallies of one proposal must be.
Tally(i) ==
  /\ proposal[i].yes = WeightSum(i, "Approve") /\ proposal[i].no = WeightSum(i, "Reject")
  /\ proposal[i].voters = Cardinality(Cast(i))

\* Every step keeps the tallies the sums of the votes.
LEMMA TallyStep == TallyInv /\ [Next]_vars => TallyMatchesVotes'
<1> SUFFICES ASSUME TallyInv, [Next]_vars, NEW i \in ProposalIds PROVE Tally(i)'
  BY DEF TallyMatchesVotes, Tally, Cast
<1>1. /\ IndInv /\ Tally(i) /\ proposal[i] \in Proposal
      /\ proposal[i].status = "absent" =>
           /\ proposal[i].yes = 0 /\ proposal[i].no = 0 /\ proposal[i].voters = 0
  BY DEF TallyInv, TallyMatchesVotes, BallotsClean, IndInv, TypeOK, Tally, Cast
<1>2. ASSUME vote'[i] = vote[i],
             /\ proposal'[i].yes = proposal[i].yes /\ proposal'[i].no = proposal[i].no
             /\ proposal'[i].voters = proposal[i].voters
      PROVE  Tally(i)'
  BY <1>1, <1>2, VotesKept DEF Tally, VoteChoices
<1>3. CreatedStep(i) => Tally(i)'
  BY <1>1, <1>2 DEF CreatedStep
<1>4. DecidedStep(i) \/ ExecutedStep(i) \/ IdleStep(i) => Tally(i)'
  <2>1. ASSUME DecidedStep(i) \/ ExecutedStep(i) \/ IdleStep(i)
        PROVE  /\ vote'[i] = vote[i]
               /\ proposal'[i].yes = proposal[i].yes /\ proposal'[i].no = proposal[i].no
               /\ proposal'[i].voters = proposal[i].voters
    BY <1>1, <2>1 DEF DecidedStep, ExecutedStep, IdleStep, Proposal
  <2> QED BY <1>2, <2>1
<1>5. ASSUME NEW a \in Accounts, NEW c \in VoteChoices, NEW w \in Int, VotedStep(i, a, c, w)
      PROVE  Tally(i)'
  <2>1. /\ WeightSum(i, c)' = WeightSum(i, c) + w
        /\ \A d \in VoteChoices \ {c} : WeightSum(i, d)' = WeightSum(i, d)
        /\ Cardinality(Cast(i)') = Cardinality(Cast(i)) + 1
    BY <1>5, VoteCounts DEF VotedStep
  <2>2. CASE c = "Approve"
    BY <1>1, <1>5, <2>1, <2>2 DEF Tally, VotedStep, VoteChoices
  <2>3. CASE c = "Reject"
    BY <1>1, <1>5, <2>1, <2>3 DEF Tally, VotedStep, VoteChoices
  <2> QED BY <2>2, <2>3 DEF VoteChoices
<1> QED BY <1>1, <1>3, <1>4, <1>5, BallotSteps

\* At first there is nothing to count.
LEMMA TallyInit == Init => BallotsClean /\ TallyMatchesVotes
<1> SUFFICES ASSUME Init PROVE BallotsClean /\ TallyMatchesVotes
  OBVIOUS
<1>1. \A i \in ProposalIds : /\ proposal[i].yes = 0 /\ proposal[i].no = 0 /\ proposal[i].voters = 0
                             /\ \A a \in Accounts : vote[i][a] = NoVote
  BY DEF Init, NoProposal
<1>2. BallotsClean
  BY <1>1 DEF BallotsClean
<1>3. ASSUME NEW i \in ProposalIds PROVE Tally(i)
  <2>1. \A d \in VoteChoices : Voters(i, d) = {}
    BY <1>1 DEF Voters, NoVote, VoteChoices
  <2>2. Cast(i) = {}
    BY <1>1 DEF Cast, HasVoted
  <2>3. \A d \in VoteChoices : WeightSum(i, d) = 0
    <3> SUFFICES ASSUME NEW d \in VoteChoices PROVE WeightSum(i, d) = 0
      OBVIOUS
    <3>1. WeightSum(i, d) = SumOver(Weights(i), Voters(i, d))
      BY DEF WeightSum, Weights
    <3>2. SumOver(Weights(i), Voters(i, d)) = SumOver(Weights(i), {})
      BY <2>1, Zenon
    <3> QED BY <3>1, <3>2, SumEmpty
  <2>4. Cardinality(Cast(i)) = 0
    BY <2>2, FS_EmptySet, Zenon
  <2> QED BY <1>1, <2>3, <2>4 DEF Tally, VoteChoices
<1> QED BY <1>2, <1>3 DEF TallyMatchesVotes, Tally, Cast

\* The tallies of a proposal are the sums of the votes recorded for and against
\* it, and its number of voters is the number of accounts that have voted.
THEOREM TallyCorrect == Spec => []TallyMatchesVotes
<1>1. Spec => []TallyInv
  <2>1. Init => TallyInv
    BY InitInd, TallyInit DEF TallyInv
  <2>2. TallyInv /\ [Next]_vars => TallyInv'
    BY TypeStep, PowerStep, SnapshotStep, CleanStep, TallyStep DEF TallyInv, IndInv
  <2> QED BY <2>1, <2>2, PTL DEF Spec
<1>2. TallyInv => TallyMatchesVotes
  BY DEF TallyInv
<1> QED BY <1>1, <1>2, PTL

-----------------------------------------------------------------------------
(* The refinement of Ballot.                                               *)

\* A contract that has a configuration asks for some consensus, and proposals
\* come only after it; what was counted for and against has ballots behind it.
ConfigSound ==
  /\ config = NoConfig => \A i \in ProposalIds : proposal[i].status = "absent"
  /\ config # NoConfig => config.consensus >= 1
Counts(i) ==
  /\ proposal[i].yes >= 0 /\ proposal[i].no >= 0
  /\ proposal[i].yes > 0 => \E a \in Accounts : vote[i][a].choice = "Approve"
  /\ proposal[i].status = "absent" \/ proposal[i].voters = 0 =>
       \A a \in Accounts : vote[i][a] = NoVote
BallotsCounted == \A i \in ProposalIds : Counts(i)
PollInv == IndInv /\ DispatchedOnce /\ ConfigSound /\ BallotsCounted

\* A consensus of at least one basis point needs a vote in favour.
LEMMA ConsensusNeedsVotes ==
  ASSUME NEW y \in Nat, NEW n \in Nat, y + n # 0, NEW c \in Int, c >= 1,
         (y * 10000) \div (y + n) >= c
  PROVE  y > 0
<1> SUFFICES ASSUME y = 0 PROVE FALSE
  OBVIOUS
<1>1. n > 0 /\ 0 \div n = 0
  OBVIOUS
<1>2. (y * 10000) \div (y + n) = 0 \div n
  OBVIOUS
<1> QED BY <1>1, <1>2

\* The configuration keeps asking for some consensus: the three places that
\* write it check the threshold (initialize, update_config, dispatch_action).
LEMMA ConfigSteps ==
  ASSUME IndInv, [Next]_vars
  PROVE  config' = config \/ config'.consensus >= 1
<1>0. \A n \in BasisPoints : n >= 1
  BY DEF BasisPoints
<1>1. CASE UNCHANGED vars
  BY <1>1 DEF vars
<1>2. ASSUME NEW a \in Accounts, NEW c \in InitConfigs, Initialize(a, c) PROVE config'.consensus >= 1
  <2>1. c.consensus \in BasisPoints /\ config' = [c EXCEPT !.offset = NoOffset, !.bps = NoBps]
    BY <1>2, Zenon DEF Initialize
  <2>2. c \in Config
    BY ConstantTypes
  <2>3. config'.consensus = c.consensus
    BY <2>1, <2>2 DEF Config
  <2> QED BY <1>0, <2>1, <2>3
<1>3. ASSUME NEW a \in Accounts, NEW c \in Configs, UpdateConfig(a, c) PROVE config'.consensus >= 1
  <2>1. c.consensus \in BasisPoints /\ config' = c
    BY <1>3, Zenon DEF UpdateConfig, ValidConfig
  <2> QED BY <1>0, <2>1
<1>4. ASSUME NEW i \in ProposalIds, ExecuteProposal(i)
      PROVE  config' = config \/ config'.consensus >= 1
  <2> DEFINE act == proposal[i].action
  <2>1. Dispatch(act)
    BY <1>4 DEF ExecuteProposal
  <2> HIDE DEF act
  <2>2. CASE act.kind = "config"
    <3>1. act.consensus \in BasisPoints /\ config'.consensus = act.consensus
      BY <2>1, <2>2 DEF Dispatch
    <3> QED BY <1>0, <3>1
  <2>3. CASE act.kind # "config"
    BY <2>1, <2>3 DEF Dispatch
  <2> QED BY <2>2, <2>3
<1>5. CASE \/ \E a \in Accounts, t \in Taloses, act \in Actions : CreateProposal(a, t, act)
           \/ \E a \in Accounts, i \in ProposalIds : CancelProposal(a, i)
           \/ \E i \in ProposalIds : FinalizeProposal(i)
  BY <1>5 DEF CreateProposal, CancelProposal, FinalizeProposal
<1>6. CASE \E a \in Accounts, i \in ProposalIds, c \in VoteChoices : CastVote(a, i, c)
  BY <1>6 DEF CastVote
<1>7. CASE \/ \E c, a \in Accounts, n \in Balances : UpdateVotingPower(c, a, n)
           \/ \E c, a \in Accounts, l \in CachedLedgers, n \in Cached : CacheTokenBalance(c, l, a, n)
           \/ \E a \in Delegators, to \in Accounts : Delegate(a, to)
           \/ \E a \in Accounts : SetRegistryContract(a)
           \/ \E a \in Accounts : ProposeAdmin(a)
  BY <1>7 DEF UpdateVotingPower, CacheTokenBalance, Delegate, SetRegistryContract, ProposeAdmin
<1>8. CASE \/ AcceptAdmin \/ CancelAdminTransfer \/ CloseLedger
           \/ \E d \in Pausable, n \in PauseDurations : PauseDomain(d, n)
           \/ \E d \in Domains : UnpauseDomain(d)
           \/ \E t \in Governable : SetController(t)
  BY <1>8 DEF AcceptAdmin, CancelAdminTransfer, CloseLedger, PauseDomain, UnpauseDomain, SetController
<1> QED BY <1>1, <1>2, <1>3, <1>4, <1>5, <1>6, <1>7, <1>8 DEF Next

LEMMA ConfigStep ==
  ASSUME IndInv, ConfigSound, [Next]_vars
  PROVE  ConfigSound'
<1>1. NoConfig.consensus = 0
  BY DEF NoConfig
<1>2. config' # NoConfig => config'.consensus >= 1
  BY ConfigSteps DEF ConfigSound
<1>3. ASSUME config' = NoConfig, NEW i \in ProposalIds PROVE proposal'[i].status = "absent"
  <2>1. config = NoConfig
    BY <1>1, <1>3, ConfigSteps
  <2>2. proposal[i].status = "absent"
    BY <2>1 DEF ConfigSound
  <2>3. ~CreatedStep(i)
    BY <2>1 DEF CreatedStep
  <2>4. \A a \in Accounts, c \in VoteChoices, w \in Int : ~VotedStep(i, a, c, w)
    BY <2>2 DEF VotedStep
  <2>5. ~DecidedStep(i) /\ ~ExecutedStep(i)
    BY <2>2 DEF DecidedStep, ExecutedStep
  <2>6. IdleStep(i)
    BY <2>3, <2>4, <2>5, BallotSteps
  <2> QED BY <2>2, <2>6 DEF IdleStep
<1> QED BY <1>2, <1>3 DEF ConfigSound

\* The fields of a proposal that a decision or an execution leaves alone.
LEMMA StatusOnly ==
  ASSUME NEW p \in Proposal, NEW s
  PROVE  LET q == [p EXCEPT !.status = s]
         IN /\ q.status = s /\ q.yes = p.yes /\ q.no = p.no
            /\ q.voters = p.voters /\ q.action = p.action
BY DEF Proposal

\* What is counted keeps having ballots behind it.
LEMMA CountsStep ==
  ASSUME PollInv, [Next]_vars, NEW i \in ProposalIds
  PROVE  Counts(i)'
<1>1. /\ proposal[i] \in Proposal /\ proposal[i].yes \in Int /\ proposal[i].no \in Int
      /\ proposal[i].voters \in Nat /\ Counts(i)
  BY DEF PollInv, IndInv, TypeOK, BallotsCounted, Proposal
<1>2. vote[i] \in [Accounts -> Vote]
  BY DEF PollInv, IndInv, TypeOK
<1>3. CASE CreatedStep(i)
  BY <1>1, <1>3 DEF CreatedStep, Counts
<1>4. ASSUME NEW a \in Accounts, NEW c \in VoteChoices, NEW w \in Int, VotedStep(i, a, c, w)
      PROVE  Counts(i)'
  <2>1. /\ w > 0 /\ vote[i][a] = NoVote
        /\ vote'[i] = [vote[i] EXCEPT ![a] = [choice |-> c, weight |-> w]]
        /\ proposal'[i].yes = IF c = "Approve" THEN proposal[i].yes + w ELSE proposal[i].yes
        /\ proposal'[i].no = IF c = "Approve" THEN proposal[i].no ELSE proposal[i].no + w
        /\ proposal'[i].voters = proposal[i].voters + 1
        /\ proposal'[i].status \in {"Active", "Approved", "Rejected"}
    BY <1>4 DEF VotedStep
  <2>2. vote'[i][a].choice = c /\ \A b \in Accounts \ {a} : vote'[i][b] = vote[i][b]
    BY <1>2, <2>1
  <2>3. proposal'[i].yes > 0 => \E b \in Accounts : vote'[i][b].choice = "Approve"
    <3>1. CASE c = "Approve"
      BY <2>2, <3>1
    <3>2. ASSUME c # "Approve", proposal[i].yes > 0
          PROVE  \E b \in Accounts : vote'[i][b].choice = "Approve"
      <4>1. PICK b \in Accounts : vote[i][b].choice = "Approve"
        BY <1>1, <3>2 DEF Counts
      <4>2. b # a
        BY <2>1, <4>1 DEF NoVote
      <4> QED BY <2>2, <4>1, <4>2
    <3> QED BY <2>1, <3>1, <3>2
  <2>4. proposal'[i].yes >= 0 /\ proposal'[i].no >= 0
    BY <1>1, <2>1 DEF Counts
  <2>5. proposal'[i].voters # 0 /\ proposal'[i].status # "absent"
    BY <1>1, <2>1
  <2> QED BY <2>3, <2>4, <2>5 DEF Counts
<1>5. CASE DecidedStep(i) \/ ExecutedStep(i)
  <2>1. PICK s \in {"Cancelled", "Approved", "Rejected", "Executed"} :
          /\ proposal'[i] = [proposal[i] EXCEPT !.status = s] /\ vote'[i] = vote[i]
          /\ proposal[i].status # "absent"
    BY <1>5 DEF DecidedStep, ExecutedStep
  <2>2. /\ proposal'[i].status = s
        /\ proposal'[i].yes = proposal[i].yes /\ proposal'[i].no = proposal[i].no
        /\ proposal'[i].voters = proposal[i].voters
    BY <1>1, <2>1, StatusOnly
  <2> QED BY <1>1, <2>1, <2>2 DEF Counts
<1>6. CASE IdleStep(i)
  BY <1>1, <1>6 DEF IdleStep, Counts
<1> QED BY <1>3, <1>4, <1>5, <1>6, BallotSteps DEF PollInv

\* What passes has a vote in favour.
LEMMA PassedIsSupported ==
  ASSUME IndInv, ConfigSound, NEW i \in ProposalIds, Counts(i), proposal[i].status # "absent",
         Passes(proposal[i]), proposal[i].yes + proposal[i].no # 0
  PROVE  \E a \in Accounts : vote[i][a].choice = "Approve"
<1>1. proposal[i] \in Proposal /\ config \in Config
  BY DEF IndInv, TypeOK
<1>2. proposal[i].yes \in Nat /\ proposal[i].no \in Nat
  BY <1>1 DEF Counts, Proposal
<1>3. config.consensus \in Int /\ config.consensus >= 1
  BY <1>1 DEF ConfigSound, Config
<1> DEFINE y == proposal[i].yes
           n == proposal[i].no
           c == config.consensus
<1>4. (y * 10000) \div (y + n) >= c
  BY DEF Passes
<1>5. y \in Nat /\ n \in Nat /\ y + n # 0 /\ c \in Int /\ c >= 1
  BY <1>2, <1>3
<1>6. y > 0 => \E a \in Accounts : vote[i][a].choice = "Approve"
  BY DEF Counts
<1> HIDE DEF y, n, c
<1> QED BY <1>4, <1>5, <1>6, ConsensusNeedsVotes

\* Every step is, proposal by proposal, a step of Ballot or none.
LEMMA PollRefines ==
  ASSUME PollInv, PollInv', [Next]_vars
  PROVE  Poll!Next
<1> DEFINE st == [i \in ProposalIds |-> proposal[i].status]
           ag == [i \in ProposalIds |-> proposal[i].action]
<1> SUFFICES ASSUME NEW i \in ProposalIds PROVE Poll!Idle(i) \/ Poll!ProposalStep(i)
  BY DEF Poll!Next
<1>1. /\ st[i] = proposal[i].status /\ st'[i] = proposal'[i].status
      /\ ag[i] = proposal[i].action /\ ag'[i] = proposal'[i].action
  OBVIOUS
<1>2. /\ proposal[i] \in Proposal /\ vote[i] \in [Accounts -> Vote] /\ Counts(i) /\ Counts(i)'
      /\ dispatched[i] = IF proposal[i].status = "Executed" THEN 1 ELSE 0
  BY DEF PollInv, IndInv, TypeOK, BallotsCounted, DispatchedOnce
<1> USE DEF Poll!ProposalStep, Poll!Move, Poll!SameAgenda, Poll!SameBallots, Poll!NotCarried,
            Poll!Untouched, Poll!Supported
<1> HIDE DEF st, ag
<1>3. CASE CreatedStep(i)
  <2>1. Poll!Proposed(i)
    BY <1>1, <1>2, <1>3 DEF CreatedStep, Counts, Poll!Proposed, st, ag
  <2> QED BY <2>1
<1>4. ASSUME NEW a \in Accounts, NEW c \in VoteChoices, NEW w \in Int, VotedStep(i, a, c, w)
      PROVE  Poll!ProposalStep(i)
  <2>1. /\ proposal[i].status = "Active" /\ w > 0 /\ vote[i][a] = NoVote
        /\ vote'[i] = [vote[i] EXCEPT ![a] = [choice |-> c, weight |-> w]]
        /\ proposal'[i].status \in {"Active", "Approved", "Rejected"}
        /\ proposal'[i].action = proposal[i].action /\ dispatched'[i] = dispatched[i]
    BY <1>4 DEF VotedStep
  <2>2. vote'[i][a] = [choice |-> c, weight |-> w]
    BY <1>2, <2>1
  <2>3. proposal'[i].status = "Approved" => \E b \in Accounts : vote'[i][b].choice = "Approve"
    <3> DEFINE y == proposal'[i].yes
               n == proposal'[i].no
               m == config'.consensus
    <3>1. /\ proposal[i].yes \in Nat /\ proposal[i].no \in Nat
          /\ y = IF c = "Approve" THEN proposal[i].yes + w ELSE proposal[i].yes
          /\ n = IF c = "Approve" THEN proposal[i].no ELSE proposal[i].no + w
      BY <1>2, <1>4 DEF VotedStep, Counts, Proposal
    <3>2. y \in Nat /\ n \in Nat /\ y + n # 0
      BY <2>1, <3>1
    <3>3. m \in Int /\ m >= 1
      <4>1. config' \in Config /\ config' # NoConfig
        BY <2>1 DEF PollInv, IndInv, TypeOK, ConfigSound
      <4> QED BY <4>1 DEF PollInv, ConfigSound, Config
    <3>4. proposal'[i].status = "Approved" => (y * 10000) \div (y + n) >= m
      BY <1>4 DEF VotedStep, Passes
    <3>5. y > 0 => \E b \in Accounts : vote'[i][b].choice = "Approve"
      BY <1>2 DEF Counts
    <3> HIDE DEF y, n, m
    <3> QED BY <3>2, <3>3, <3>4, <3>5, ConsensusNeedsVotes
  <2>4. Poll!Voted(i)
    <3>1. \E b \in Accounts : /\ vote[i][b] = NoVote /\ vote'[i][b].weight > 0
                             /\ vote'[i] = [vote[i] EXCEPT ![b] = vote'[i][b]]
      <4>1. vote'[i][a].weight > 0
        BY <2>1, <2>2
      <4>2. vote'[i] = [vote[i] EXCEPT ![a] = vote'[i][a]]
        BY <2>1, <2>2, Zenon
      <4> QED BY <2>1, <4>1, <4>2, Zenon
    <3>2. /\ st[i] = "Active" /\ st'[i] \in {"Active", "Approved", "Rejected"}
          /\ st'[i] = "Approved" => \E b \in Accounts : vote'[i][b].choice = "Approve"
          /\ ag'[i] = ag[i]
      BY <1>1, <2>1, <2>3
    <3> QED BY <2>1, <3>1, <3>2 DEF Poll!Voted, st, ag
  <2> QED BY <2>4
<1>5. CASE DecidedStep(i)
  <2>1. PICK s \in {"Cancelled", "Approved", "Rejected"} :
          /\ proposal[i].status = "Active" /\ proposal'[i] = [proposal[i] EXCEPT !.status = s]
          /\ s = "Cancelled" => proposal[i].voters = 0
          /\ s = "Approved" => Passes(proposal[i]) /\ proposal[i].yes + proposal[i].no # 0
          /\ vote'[i] = vote[i] /\ dispatched'[i] = dispatched[i]
    BY <1>5 DEF DecidedStep
  <2>2. proposal'[i].status = s /\ proposal'[i].action = proposal[i].action
    BY <1>2, <2>1, StatusOnly
  <2>3. CASE s = "Cancelled"
    <3>1. Poll!Withdrawn(i)
      BY <1>1, <1>2, <2>1, <2>2, <2>3 DEF Counts, Poll!Withdrawn, st, ag
    <3> QED BY <3>1
  <2>4. CASE s # "Cancelled"
    <3>1. s = "Approved" => \E b \in Accounts : vote[i][b].choice = "Approve"
      BY <1>2, <2>1, PassedIsSupported DEF PollInv
    <3>2. Poll!Finalized(i)
      BY <1>1, <2>1, <2>2, <2>4, <3>1 DEF Poll!Finalized, st, ag
    <3> QED BY <3>2
  <2> QED BY <2>3, <2>4
<1>6. CASE ExecutedStep(i)
  <2>1. /\ proposal[i].status = "Approved" /\ proposal'[i].status = "Executed"
        /\ proposal'[i].action = proposal[i].action /\ vote'[i] = vote[i]
        /\ dispatched[i] = 0 /\ dispatched'[i] = 1
    BY <1>2, <1>6, StatusOnly DEF ExecutedStep
  <2>2. Poll!CarriedOut(i)
    BY <1>1, <2>1 DEF Poll!CarriedOut, st, ag
  <2> QED BY <2>2
<1>7. CASE IdleStep(i)
  <2>1. Poll!Idle(i)
    BY <1>1, <1>7 DEF IdleStep, Poll!Idle, st, ag
  <2> QED BY <2>1
<1> QED BY <1>3, <1>4, <1>5, <1>6, <1>7, BallotSteps DEF PollInv

\* At first there is no configuration and no proposal.
LEMMA PollInit == Init => ConfigSound /\ BallotsCounted /\ Poll!Init
<1> SUFFICES ASSUME Init PROVE ConfigSound /\ BallotsCounted /\ Poll!Init
  OBVIOUS
<1>1. NoProposal.action \in Actions
  BY ConstantTypes DEF NoProposal
<1>2. Poll!Init
  BY <1>1 DEF Init, NoProposal, Poll!Init
<1>3. ConfigSound
  BY DEF Init, ConfigSound, NoProposal
<1>4. BallotsCounted
  BY DEF Init, BallotsCounted, Counts, NoProposal, NoVote
<1> QED BY <1>2, <1>3, <1>4

\* The contract keeps the promises of Ballot, for any number of accounts,
\* proposals, configurations and actions.
THEOREM Refinement == Spec => ImplementsBallot
<1>1. Spec => [](ConfigSound /\ BallotsCounted)
  <2>1. IndInv /\ DispatchedOnce /\ ConfigSound /\ BallotsCounted /\ [Next]_vars
          => (ConfigSound /\ BallotsCounted)'
    BY ConfigStep, CountsStep DEF PollInv, BallotsCounted
  <2>2. Init => ConfigSound /\ BallotsCounted
    BY PollInit
  <2> QED BY <2>1, <2>2, Invariance, DispatchCorrect, PTL DEF Spec
<1>2. Spec => []PollInv
  BY <1>1, Invariance, DispatchCorrect, PTL DEF PollInv
<1>3. PollInv /\ PollInv' /\ [Next]_vars => [Poll!Next]_(Poll!ballotVars)
  BY PollRefines
<1>4. Init => Poll!Init
  BY PollInit
<1> QED BY <1>2, <1>3, <1>4, PTL DEF Spec, ImplementsBallot, Poll!Spec
=============================================================================
