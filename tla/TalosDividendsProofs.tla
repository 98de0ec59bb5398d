------------------------ MODULE TalosDividendsProofs ------------------------
(***************************************************************************)
(* Theorems about TalosDividends for every set of Taloses, accounts, splits*)
(* and amounts.  Type correctness comes first; then one lemma says what a  *)
(* step can do to one epoch (nothing, commit it, pay from it, recover it), *)
(* and the conservation of money follows from it.                          *)
(***************************************************************************)
EXTENDS TalosDividends, SumLemmas

USE AddressAssumption, PatronsAssumption, SplitsAssumption, AmountsAssumption, LimitsAssumption

(* Writing one epoch record keeps the table and its write ledger typed, and
   changes nothing else. *)
LEMMA SetEpochTyped ==
  ASSUME TypeOK, NEW t \in Taloses, NEW e \in EpochIds, NEW r \in EpochRecord, SetEpoch(t, e, r)
  PROVE  /\ epoch' \in [Taloses -> [EpochIds -> EpochRecord]]
         /\ stored' \in [Taloses -> [EpochIds -> Nat]]
         /\ epoch'[t][e] = r /\ stored'[t][e] = now
         /\ \A u \in Taloses, d \in EpochIds :
              <<u, d>> # <<t, e>> => epoch'[u][d] = epoch[u][d] /\ stored'[u][d] = stored[u][d]
  BY DEF TypeOK, SetEpoch

(* Recording the refresh of one epoch. *)
LEMMA TouchTyped ==
  ASSUME TypeOK, NEW t \in Taloses, NEW e \in EpochIds, Touch(t, e)
  PROVE  /\ touched' \in [Taloses -> [EpochIds -> Nat]]
         /\ touched'[t][e] = now
         /\ \A u \in Taloses, d \in EpochIds : <<u, d>> # <<t, e>> => touched'[u][d] = touched[u][d]
  BY DEF TypeOK, Touch

(* The parts of an amount are integers. *)
LEMMA PartInt ==
  ASSUME NEW n \in Int, NEW s \in Nat
  PROVE  Part(n, s) \in Int
  BY DEF Part

(* What an accepted claim writes is well typed: the amount and the dust are
   integers, and the role is one of the three. *)
LEMMA ClaimTyped ==
  ASSUME NEW n \in Int, NEW s \in Splits, NEW a \in Addresses, NEW p \in Patrons
  PROVE  /\ Role(a, p) \in Roles
         /\ s[Role(a, p)] \in Nat
         /\ ComputeAllocation(n, s[Role(a, p)]) \in Int
         /\ ComputeRoundingDust(n, s) \in Int
<1>1. s.creator \in Nat /\ s.investor \in Nat /\ s.treasury \in Nat
  OBVIOUS
<1>2. Role(a, p) \in Roles /\ s[Role(a, p)] \in Nat
  BY <1>1 DEF Role, Roles
<1>3. ComputeAllocation(n, s[Role(a, p)]) \in Int
  BY <1>2, PartInt DEF ComputeAllocation
<1>4. /\ Part(n, s.creator) \in Int /\ Part(n, s.investor) \in Int
      /\ Part(n, s.treasury) \in Int
  BY <1>1, PartInt
<1>5. ComputeRoundingDust(n, s) \in Int
  BY <1>4 DEF ComputeRoundingDust
<1> QED BY <1>2, <1>3, <1>5

(* The initial storage has the declared types. *)
LEMMA TypeInit == Init => TypeOK
<1> SUFFICES ASSUME Init PROVE TypeOK
  OBVIOUS
<1>1. Absent \in EpochRecord
  BY DEF Absent, EpochRecord, Statuses
<1> QED BY <1>1 DEF Init, TypeOK, NoDust, EpochIds

(* Every entry point keeps the storage typed. *)
LEMMA TypeStep == TypeOK /\ [Next]_vars => TypeOK'
<1> SUFFICES ASSUME TypeOK, [Next]_vars PROVE TypeOK'
  OBVIOUS
<1> USE DEF adminVars, money
<1>1. ASSUME NEW a \in Addresses, NEW r \in Registries, Initialize(a, r) PROVE TypeOK'
  BY <1>1 DEF Initialize, TypeOK
<1>2. ASSUME NEW a \in Addresses, NEW t \in Taloses, NEW n \in Totals, NEW x \in Expiries,
             CommitEpoch(a, t, n, x)
      PROVE TypeOK'
  <2> DEFINE r == [status |-> "Active", total |-> n, claimed |-> 0, created |-> now, expiry |-> x]
  <2>1. r \in EpochRecord
    BY DEF EpochRecord, Statuses, TypeOK
  <2>2. nextId[t] \in EpochIds /\ SetEpoch(t, nextId[t], r) /\ Touch(t, nextId[t])
    BY <1>2 DEF CommitEpoch
  <2>a. nextId[t] + 1 \in 1..(MaxEpochs + 1)
    BY <2>2 DEF EpochIds
  <2>b. nextId' = [nextId EXCEPT ![t] = nextId[t] + 1]
    BY <1>2 DEF CommitEpoch
  <2>3. nextId' \in [Taloses -> 1..(MaxEpochs + 1)]
    BY <2>a, <2>b DEF TypeOK
  <2> HIDE DEF r
  <2>4. /\ epoch' \in [Taloses -> [EpochIds -> EpochRecord]]
        /\ stored' \in [Taloses -> [EpochIds -> Nat]]
        /\ touched' \in [Taloses -> [EpochIds -> Nat]]
    BY <2>1, <2>2, SetEpochTyped, TouchTyped
  <2> QED BY <1>2, <2>3, <2>4 DEF CommitEpoch, TypeOK
<1>3. ASSUME NEW a \in Addresses, NEW t \in Taloses, NEW e \in EpochIds, NEW p \in Patrons,
             NEW s \in Splits, ClaimDividend(a, t, e, p, s)
      PROVE TypeOK'
  <2> DEFINE n == epoch[t][e].total
             amount == ComputeAllocation(n, s[Role(a, p)])
             r == [epoch[t][e] EXCEPT !.claimed = NewClaimed(t, e, amount)]
             ev == [talos |-> t, epoch |-> e, to |-> a, split |-> s,
                    role |-> Role(a, p), amount |-> amount, at |-> now]
  <2>1. epoch[t][e] \in EpochRecord /\ n \in Int
    BY DEF TypeOK, EpochRecord
  <2>2. Role(a, p) \in Roles /\ amount \in Int /\ ComputeRoundingDust(n, s) \in Int
    BY <2>1, ClaimTyped
  <2>3. r \in EpochRecord
    BY <2>1, <2>2 DEF EpochRecord, NewClaimed
  <2>4. ev \in [talos : Taloses, epoch : EpochIds, to : Addresses, split : Splits,
                role : Roles, amount : Int, at : Nat]
    BY <2>2 DEF TypeOK
  <2>5. /\ SetEpoch(t, e, r) /\ Touch(t, e) /\ paid' = paid \cup {ev}
        /\ dust' = [dust EXCEPT ![t][e] = ComputeRoundingDust(n, s)]
        /\ claimed' = claimed \cup {<<e, a>>}
    BY <1>3 DEF ClaimDividend
  <2> HIDE DEF r, ev, amount, n
  <2>6. /\ epoch' \in [Taloses -> [EpochIds -> EpochRecord]]
        /\ stored' \in [Taloses -> [EpochIds -> Nat]]
        /\ touched' \in [Taloses -> [EpochIds -> Nat]]
    BY <2>3, <2>5, SetEpochTyped, TouchTyped
  <2>7. dust' \in [Taloses -> [EpochIds -> Int]] /\ claimed' \subseteq EpochIds \X Addresses
    BY <2>2, <2>5 DEF TypeOK
  <2>8. paid' \subseteq [talos : Taloses, epoch : EpochIds, to : Addresses, split : Splits,
                         role : Roles, amount : Int, at : Nat]
    BY <2>4, <2>5 DEF TypeOK
  <2> QED BY <1>3, <2>6, <2>7, <2>8 DEF ClaimDividend, TypeOK
<1>4. ASSUME NEW a \in Addresses, NEW t \in Taloses, NEW e \in EpochIds, RecoverExpired(a, t, e)
      PROVE TypeOK'
  <2> DEFINE r == [epoch[t][e] EXCEPT !.status = "Recovered"]
  <2>a. epoch[t][e] \in EpochRecord
    BY DEF TypeOK
  <2>1. epoch[t][e] \in EpochRecord /\ r \in EpochRecord
    BY <2>a DEF EpochRecord, Statuses
  <2>2. SetEpoch(t, e, r)
    BY <1>4 DEF RecoverExpired
  <2>3. swept' \in [Taloses -> [EpochIds -> Int]]
    BY <1>4, <2>1 DEF RecoverExpired, TypeOK, EpochRecord
  <2> HIDE DEF r
  <2>4. /\ epoch' \in [Taloses -> [EpochIds -> EpochRecord]]
        /\ stored' \in [Taloses -> [EpochIds -> Nat]]
    BY <2>1, <2>2, SetEpochTyped
  <2> QED BY <1>4, <2>3, <2>4 DEF RecoverExpired, TypeOK
<1>5. ASSUME NEW a \in Addresses, NEW r \in Registries, SetRegistryContract(a, r) PROVE TypeOK'
  BY <1>5 DEF SetRegistryContract, TypeOK
<1>6. ASSUME NEW a \in Addresses, ProposeAdmin(a) PROVE TypeOK'
  BY <1>6 DEF ProposeAdmin, TypeOK
<1>7. ASSUME AcceptAdmin PROVE TypeOK'
  BY <1>7 DEF AcceptAdmin, TypeOK
<1>8. ASSUME CancelAdminTransfer PROVE TypeOK'
  BY <1>8 DEF CancelAdminTransfer, TypeOK
<1>9. ASSUME NEW t \in Taloses, NEW e \in EpochIds, TouchEpoch(t, e) PROVE TypeOK'
  <2>1. epoch[t][e] \in EpochRecord
    BY DEF TypeOK
  <2>2. /\ epoch' \in [Taloses -> [EpochIds -> EpochRecord]]
        /\ stored' \in [Taloses -> [EpochIds -> Nat]]
        /\ touched' \in [Taloses -> [EpochIds -> Nat]]
    BY <1>9, <2>1, SetEpochTyped, TouchTyped DEF TouchEpoch
  <2> QED BY <1>9, <2>2 DEF TouchEpoch, TypeOK
<1>10. ASSUME NEW a \in Addresses, NEW t \in Taloses, NEW e \in EpochIds, NEW n \in 1..MaxEpochs,
              NEW w \in AgeWindows, ExtendTtlBatch(a, t, e, n, w)
       PROVE TypeOK'
  BY <1>10 DEF ExtendTtlBatch, TypeOK
<1>11. ASSUME Tick PROVE TypeOK'
  BY <1>11 DEF Tick, TypeOK
<1>12. ASSUME UNCHANGED vars PROVE TypeOK'
  BY <1>12 DEF vars, TypeOK
<1> QED BY <1>1, <1>2, <1>3, <1>4, <1>5, <1>6, <1>7, <1>8, <1>9, <1>10, <1>11, <1>12 DEF Next

(* The storage of the contract keeps its types under every sequence of calls. *)
THEOREM TypeCorrect == Spec => []TypeOK
  BY TypeInit, TypeStep, PTL DEF Spec

-----------------------------------------------------------------------------
(* What a step can do to one epoch.                                        *)

Same(t, e) == epoch'[t][e] = epoch[t][e] /\ swept'[t][e] = swept[t][e]
Committed(t, e) ==
  /\ epoch[t][e].status = "absent"
  /\ epoch'[t][e].status = "Active" /\ epoch'[t][e].claimed = 0 /\ epoch'[t][e].total >= 1
  /\ swept'[t][e] = swept[t][e]
Paid(t, e) ==
  /\ epoch[t][e].status = "Active"
  /\ epoch'[t][e].status = "Active" /\ epoch'[t][e].total = epoch[t][e].total
  /\ epoch'[t][e].created = epoch[t][e].created /\ epoch'[t][e].expiry = epoch[t][e].expiry
  /\ epoch'[t][e].claimed > epoch[t][e].claimed /\ epoch'[t][e].claimed <= epoch[t][e].total
  /\ swept'[t][e] = swept[t][e]
Recovered(t, e) ==
  /\ epoch[t][e].status = "Active" /\ epoch'[t][e].status = "Recovered"
  /\ epoch'[t][e].total = epoch[t][e].total /\ epoch'[t][e].claimed = epoch[t][e].claimed
  /\ epoch'[t][e].created = epoch[t][e].created /\ epoch'[t][e].expiry = epoch[t][e].expiry
  /\ swept'[t][e] = swept[t][e] + (epoch[t][e].total - epoch[t][e].claimed)
EpochStep(t, e) == Same(t, e) \/ Committed(t, e) \/ Paid(t, e) \/ Recovered(t, e)

(* Every step leaves an epoch alone, commits it, pays one share out of it or
   recovers it. *)
LEMMA StepOfEpoch ==
  ASSUME TypeOK, [Next]_vars, NEW u \in Taloses, NEW d \in EpochIds
  PROVE  EpochStep(u, d)
<1> USE DEF adminVars, money
<1>0. epoch[u][d] \in EpochRecord
  BY DEF TypeOK
<1>1. ASSUME UNCHANGED <<epoch, swept>> PROVE EpochStep(u, d)
  BY <1>1 DEF EpochStep, Same
<1>2. ASSUME NEW a \in Addresses, NEW t \in Taloses, NEW n \in Totals, NEW x \in Expiries,
             CommitEpoch(a, t, n, x)
      PROVE EpochStep(u, d)
  <2> DEFINE r == [status |-> "Active", total |-> n, claimed |-> 0, created |-> now, expiry |-> x]
  <2>1. r \in EpochRecord
    BY DEF EpochRecord, Statuses, TypeOK
  <2>2. /\ nextId[t] \in EpochIds /\ SetEpoch(t, nextId[t], r) /\ UNCHANGED swept
        /\ epoch[t][nextId[t]].status = "absent" /\ n >= 1
    BY <1>2 DEF CommitEpoch
  <2>3. r.status = "Active" /\ r.claimed = 0 /\ r.total = n
    OBVIOUS
  <2> HIDE DEF r
  <2>4. CASE <<u, d>> = <<t, nextId[t]>>
    BY <2>1, <2>2, <2>3, <2>4, SetEpochTyped DEF EpochStep, Committed
  <2>5. CASE <<u, d>> # <<t, nextId[t]>>
    BY <2>1, <2>2, <2>5, SetEpochTyped DEF EpochStep, Same
  <2> QED BY <2>4, <2>5
<1>3. ASSUME NEW a \in Addresses, NEW t \in Taloses, NEW e \in EpochIds, NEW p \in Patrons,
             NEW s \in Splits, ClaimDividend(a, t, e, p, s)
      PROVE EpochStep(u, d)
  <2> DEFINE n == epoch[t][e].total
             amount == ComputeAllocation(n, s[Role(a, p)])
             r == [epoch[t][e] EXCEPT !.claimed = NewClaimed(t, e, amount)]
  <2>1. epoch[t][e] \in EpochRecord /\ n \in Int
    BY DEF TypeOK, EpochRecord
  <2>2. amount \in Int
    BY <2>1, ClaimTyped
  <2>3. /\ SetEpoch(t, e, r) /\ UNCHANGED swept /\ epoch[t][e].status = "Active"
        /\ amount > 0 /\ NewClaimed(t, e, amount) <= n
    BY <1>3 DEF ClaimDividend, AllocationOk, ComputeAllocation
  <2>4. NewClaimed(t, e, amount) \in Int /\ NewClaimed(t, e, amount) > epoch[t][e].claimed
    BY <2>1, <2>2, <2>3 DEF NewClaimed, EpochRecord
  <2>5. /\ r \in EpochRecord
        /\ r.status = epoch[t][e].status /\ r.total = n /\ r.claimed = NewClaimed(t, e, amount)
        /\ r.created = epoch[t][e].created /\ r.expiry = epoch[t][e].expiry
    BY <2>1, <2>4 DEF EpochRecord
  <2> HIDE DEF r, amount
  <2>6. CASE <<u, d>> = <<t, e>>
    BY <2>3, <2>4, <2>5, <2>6, SetEpochTyped DEF EpochStep, Paid
  <2>7. CASE <<u, d>> # <<t, e>>
    BY <2>3, <2>5, <2>7, SetEpochTyped DEF EpochStep, Same
  <2> QED BY <2>6, <2>7
<1>4. ASSUME NEW a \in Addresses, NEW t \in Taloses, NEW e \in EpochIds, RecoverExpired(a, t, e)
      PROVE EpochStep(u, d)
  <2> DEFINE r == [epoch[t][e] EXCEPT !.status = "Recovered"]
  <2>1. epoch[t][e] \in EpochRecord
    BY DEF TypeOK
  <2>2. /\ r \in EpochRecord /\ r.status = "Recovered"
        /\ r.total = epoch[t][e].total /\ r.claimed = epoch[t][e].claimed
        /\ r.created = epoch[t][e].created /\ r.expiry = epoch[t][e].expiry
    BY <2>1 DEF EpochRecord, Statuses
  <2>3. SetEpoch(t, e, r) /\ epoch[t][e].status = "Active"
    BY <1>4, <2>1 DEF RecoverExpired, EpochRecord, Statuses
  <2>4. swept' = [swept EXCEPT ![t][e] = swept[t][e] + (epoch[t][e].total - epoch[t][e].claimed)]
    BY <1>4 DEF RecoverExpired
  <2> HIDE DEF r
  <2>5. CASE <<u, d>> = <<t, e>>
    <3>1. swept'[t][e] = swept[t][e] + (epoch[t][e].total - epoch[t][e].claimed)
      BY <2>4 DEF TypeOK
    <3> QED BY <2>2, <2>3, <2>5, <3>1, SetEpochTyped DEF EpochStep, Recovered
  <2>6. CASE <<u, d>> # <<t, e>>
    <3>1. swept'[u][d] = swept[u][d]
      BY <2>4, <2>6 DEF TypeOK
    <3> QED BY <2>2, <2>3, <2>6, <3>1, SetEpochTyped DEF EpochStep, Same
  <2> QED BY <2>5, <2>6
<1>5. ASSUME NEW t \in Taloses, NEW e \in EpochIds, TouchEpoch(t, e) PROVE EpochStep(u, d)
  <2>1. SetEpoch(t, e, epoch[t][e]) /\ UNCHANGED swept /\ epoch[t][e] \in EpochRecord
    BY <1>5 DEF TouchEpoch, TypeOK
  <2>2. epoch'[u][d] = epoch[u][d]
    BY <2>1, SetEpochTyped
  <2> QED BY <2>1, <2>2 DEF EpochStep, Same
<1>6. \/ UNCHANGED <<epoch, swept>>
      \/ \E a \in Addresses, t \in Taloses, n \in Totals, x \in Expiries : CommitEpoch(a, t, n, x)
      \/ \E a \in Addresses, t \in Taloses, e \in EpochIds, p \in Patrons, s \in Splits :
           ClaimDividend(a, t, e, p, s)
      \/ \E a \in Addresses, t \in Taloses, e \in EpochIds : RecoverExpired(a, t, e)
      \/ \E t \in Taloses, e \in EpochIds : TouchEpoch(t, e)
  BY DEF Next, vars, Initialize, SetRegistryContract, ProposeAdmin, AcceptAdmin,
         CancelAdminTransfer, ExtendTtlBatch, Tick
<1> QED BY <1>1, <1>2, <1>3, <1>4, <1>5, <1>6

(* Payouts and sweeps of an epoch never exceed its committed amount, and add
   up to it once the epoch is recovered, for any splits, amounts and deadlines. *)
THEOREM MoneyIsConserved == Spec => []Conserved
<1>1. Init => Conserved
  BY DEF Init, Conserved, Absent
<1>2. TypeOK /\ TypeOK' /\ Conserved /\ [Next]_vars => Conserved'
  <2> SUFFICES ASSUME TypeOK, TypeOK', Conserved, [Next]_vars, NEW t \in Taloses, NEW e \in EpochIds
               PROVE  /\ 0 <= epoch'[t][e].claimed
                      /\ epoch'[t][e].claimed + swept'[t][e] <= epoch'[t][e].total
                      /\ epoch'[t][e].status = "Recovered"
                           => epoch'[t][e].claimed + swept'[t][e] = epoch'[t][e].total
                      /\ epoch'[t][e].status # "Recovered" => swept'[t][e] = 0
    BY DEF Conserved
  <2>1. EpochStep(t, e)
    BY StepOfEpoch
  <2>2. /\ epoch[t][e].claimed \in Int /\ epoch[t][e].total \in Int /\ swept[t][e] \in Int
        /\ epoch'[t][e].claimed \in Int /\ epoch'[t][e].total \in Int /\ swept'[t][e] \in Int
    <3>1. epoch[t][e] \in EpochRecord /\ epoch'[t][e] \in EpochRecord
      BY DEF TypeOK
    <3> QED BY <3>1 DEF TypeOK, EpochRecord
  <2>3. /\ 0 <= epoch[t][e].claimed /\ epoch[t][e].claimed + swept[t][e] <= epoch[t][e].total
        /\ epoch[t][e].status = "Recovered" => epoch[t][e].claimed + swept[t][e] = epoch[t][e].total
        /\ epoch[t][e].status # "Recovered" => swept[t][e] = 0
    BY DEF Conserved
  <2>4. CASE Same(t, e)
    BY <2>3, <2>4 DEF Same
  <2>5. CASE Committed(t, e)
    BY <2>2, <2>3, <2>5 DEF Committed
  <2>6. CASE Paid(t, e)
    BY <2>2, <2>3, <2>6 DEF Paid
  <2>7. CASE Recovered(t, e)
    BY <2>2, <2>3, <2>7 DEF Recovered
  <2> QED BY <2>1, <2>4, <2>5, <2>6, <2>7 DEF EpochStep
<1> QED BY <1>1, <1>2, TypeCorrect, PTL DEF Spec

(* A committed epoch keeps its amount, its start and its expiry, its claimed
   amount only grows, and after recovery nothing of it changes. *)
THEOREM EpochsOnlyAdvance == Spec => EpochHistory
<1>1. TypeOK /\ TypeOK' /\ [Next]_vars =>
        [\A t \in Taloses, e \in EpochIds :
           LET r == epoch[t][e]  q == epoch[t][e]'
           IN r.status # "absent" =>
                /\ q.total = r.total /\ q.created = r.created /\ q.expiry = r.expiry
                /\ q.claimed >= r.claimed
                /\ r.status = "Recovered" => q = r]_vars
  <2> SUFFICES ASSUME TypeOK, TypeOK', [Next]_vars, NEW t \in Taloses, NEW e \in EpochIds,
                      epoch[t][e].status # "absent"
               PROVE  /\ epoch'[t][e].total = epoch[t][e].total
                      /\ epoch'[t][e].created = epoch[t][e].created
                      /\ epoch'[t][e].expiry = epoch[t][e].expiry
                      /\ epoch'[t][e].claimed >= epoch[t][e].claimed
                      /\ epoch[t][e].status = "Recovered" => epoch'[t][e] = epoch[t][e]
    OBVIOUS
  <2>1. EpochStep(t, e)
    BY StepOfEpoch
  <2>2. epoch[t][e] \in EpochRecord /\ epoch'[t][e] \in EpochRecord
    BY DEF TypeOK
  <2>3. epoch[t][e].claimed \in Int /\ epoch'[t][e].claimed \in Int
    BY <2>2 DEF EpochRecord
  <2> QED BY <2>1, <2>3 DEF EpochStep, Same, Committed, Paid, Recovered
<1> QED BY <1>1, TypeCorrect, PTL DEF Spec, EpochHistory

-----------------------------------------------------------------------------
(* Rounding.                                                               *)

(* A part is the largest number of units that does not exceed the exact
   percentage. *)
LEMMA PartIsFloor ==
  ASSUME NEW n \in Int, NEW s \in Nat
  PROVE  100 * Part(n, s) <= n * s /\ n * s < 100 * Part(n, s) + 100
<1>1. n * s \in Int
  OBVIOUS
<1>2. \A x \in Int : 100 * (x \div 100) <= x /\ x < 100 * (x \div 100) + 100
  OBVIOUS
<1> QED BY <1>1, <1>2 DEF Part

(* Three shares that add up to 100 percent leave 0, 1 or 2 units of any
   amount undistributed. *)
LEMMA DustOfSplit ==
  ASSUME NEW n \in Int, NEW s \in Splits, ShareSumOk(s)
  PROVE  ComputeRoundingDust(n, s) \in {0, 1, 2}
<1> DEFINE c == s.creator  i == s.investor  t == s.treasury
           pc == Part(n, c)  pi == Part(n, i)  pt == Part(n, t)
<1>1. c \in Nat /\ i \in Nat /\ t \in Nat /\ c + i + t = 100
  BY DEF ShareSumOk
<1> HIDE DEF c, i, t
<1>2. pc \in Int /\ pi \in Int /\ pt \in Int
  BY <1>1, PartInt
<1>3. /\ 100 * pc <= n * c /\ n * c < 100 * pc + 100
      /\ 100 * pi <= n * i /\ n * i < 100 * pi + 100
      /\ 100 * pt <= n * t /\ n * t < 100 * pt + 100
  BY <1>1, PartIsFloor
<1>4. n * c + n * i + n * t = n * 100
  <2>1. \A u, v, w \in Int : n * (u + v + w) = n * u + n * v + n * w
    OBVIOUS
  <2>2. n * (c + i + t) = n * c + n * i + n * t
    BY <1>1, <2>1
  <2> QED BY <1>1, <2>2
<1>5. n * c \in Int /\ n * i \in Int /\ n * t \in Int
  BY <1>1
<1> DEFINE x == n * c  y == n * i  z == n * t
<1>6. n - (pc + pi + pt) \in {0, 1, 2}
  <2>1. /\ x \in Int /\ y \in Int /\ z \in Int /\ x + y + z = n * 100
        /\ 100 * pc <= x /\ x < 100 * pc + 100 /\ 100 * pi <= y /\ y < 100 * pi + 100
        /\ 100 * pt <= z /\ z < 100 * pt + 100
    BY <1>3, <1>4, <1>5
  <2> HIDE DEF x, y, z, pc, pi, pt
  <2>2. 0 <= n - (pc + pi + pt) /\ n - (pc + pi + pt) < 3
    BY <1>2, <2>1
  <2> QED BY <1>2, <2>2
<1> QED BY <1>6 DEF ComputeRoundingDust, c, i, t

(* The dust recorded for an epoch is always 0, 1 or 2 units, for every amount
   and every split. *)
THEOREM DustIsBounded == Spec => []DustBounded
<1>1. Init => DustBounded
  BY DEF Init, DustBounded
<1>2. TypeOK /\ DustBounded /\ [Next]_vars => DustBounded'
  <2> SUFFICES ASSUME TypeOK, DustBounded, [Next]_vars, NEW u \in Taloses, NEW d \in EpochIds
               PROVE  dust'[u][d] \in {NoDust, 0, 1, 2}
    BY DEF DustBounded
  <2>1. dust[u][d] \in {NoDust, 0, 1, 2}
    BY DEF DustBounded
  <2>2. ASSUME NEW a \in Addresses, NEW t \in Taloses, NEW e \in EpochIds, NEW p \in Patrons,
               NEW s \in Splits, ClaimDividend(a, t, e, p, s)
        PROVE  dust'[u][d] \in {NoDust, 0, 1, 2}
    <3> DEFINE g == ComputeRoundingDust(epoch[t][e].total, s)
    <3>1. epoch[t][e].total \in Int
      <4>1. epoch[t][e] \in EpochRecord
        BY DEF TypeOK
      <4> QED BY <4>1 DEF EpochRecord
    <3>2. ShareSumOk(s) /\ dust' = [dust EXCEPT ![t][e] = g]
      BY <2>2 DEF ClaimDividend
    <3>3. g \in {0, 1, 2}
      BY <3>1, <3>2, DustOfSplit
    <3> HIDE DEF g
    <3>4. dust'[u][d] \in {dust[u][d], g}
      BY <3>2 DEF TypeOK
    <3> QED BY <2>1, <3>3, <3>4
  <2>3. \/ UNCHANGED dust
        \/ \E a \in Addresses, t \in Taloses, e \in EpochIds, p \in Patrons, s \in Splits :
             ClaimDividend(a, t, e, p, s)
    BY DEF Next, vars, money, Initialize, CommitEpoch, RecoverExpired, SetRegistryContract,
           ProposeAdmin, AcceptAdmin, CancelAdminTransfer, TouchEpoch, ExtendTtlBatch, Tick
  <2> QED BY <2>1, <2>2, <2>3
<1> QED BY <1>1, <1>2, TypeCorrect, PTL DEF Spec

-----------------------------------------------------------------------------
(* Double claims and nominations.                                          *)

\* Every payout left its claim marker.
PayoutMarked == \A p \in paid : <<p.epoch, p.to>> \in claimed
PayoutInv == OnePayoutPerPatron /\ PayoutMarked

(* Every claim leaves its marker with its payout, and is refused where the marker
   is. *)
LEMMA PayoutInvariance == Spec => []PayoutInv
<1>1. Init => PayoutInv
  BY DEF Init, PayoutInv, OnePayoutPerPatron, PayoutMarked
<1>2. PayoutInv /\ [Next]_vars => PayoutInv'
  <2> SUFFICES ASSUME PayoutInv, [Next]_vars PROVE PayoutInv'
    OBVIOUS
  <2>1. ASSUME NEW a \in Addresses, NEW t \in Taloses, NEW e \in EpochIds, NEW p \in Patrons,
               NEW s \in Splits, ClaimDividend(a, t, e, p, s)
        PROVE  PayoutInv'
    <3> DEFINE ev == [talos |-> t, epoch |-> e, to |-> a, split |-> s, role |-> Role(a, p),
                      amount |-> ComputeAllocation(epoch[t][e].total, s[Role(a, p)]), at |-> now]
    <3>1. /\ paid' = paid \cup {ev} /\ claimed' = claimed \cup {<<e, a>>}
          /\ <<e, a>> \notin claimed
      BY <2>1 DEF ClaimDividend, NotClaimed
    <3>2. ev.talos = t /\ ev.epoch = e /\ ev.to = a
      OBVIOUS
    <3> HIDE DEF ev
    <3>3. \A q \in paid : ~(q.epoch = e /\ q.to = a)
      BY <3>1 DEF PayoutInv, PayoutMarked
    <3>4. PayoutMarked'
      BY <3>1, <3>2 DEF PayoutInv, PayoutMarked
    <3>5. OnePayoutPerPatron'
      BY <3>1, <3>2, <3>3 DEF PayoutInv, OnePayoutPerPatron
    <3> QED BY <3>4, <3>5 DEF PayoutInv
  <2>2. ASSUME UNCHANGED <<paid, claimed>> PROVE PayoutInv'
    BY <2>2 DEF PayoutInv, OnePayoutPerPatron, PayoutMarked
  <2>3. \/ UNCHANGED <<paid, claimed>>
        \/ \E a \in Addresses, t \in Taloses, e \in EpochIds, p \in Patrons, s \in Splits :
             ClaimDividend(a, t, e, p, s)
    BY DEF Next, vars, money, Initialize, CommitEpoch, RecoverExpired, SetRegistryContract,
           ProposeAdmin, AcceptAdmin, CancelAdminTransfer, TouchEpoch, ExtendTtlBatch, Tick
  <2> QED BY <2>1, <2>2, <2>3
<1> QED BY <1>1, <1>2, PTL DEF Spec

(* No patron is paid twice from one epoch of a Talos: each payout is behind a
   marker that is never removed. *)
THEOREM PayoutsAreUnique == Spec => []OnePayoutPerPatron
  BY PayoutInvariance, PTL DEF PayoutInv

\* A nomination exists only once there is an admin, and is the admin's own.
NominationInv == pendingAdmin # NoAddress => nominator = admin /\ admin # NoAddress

(* The pending nominee was always proposed by the admin in office. *)
THEOREM NominationsAreCurrent == Spec => []NominationCurrent
<1>1. Init => NominationInv
  BY DEF Init, NominationInv
<1>2. NominationInv /\ [Next]_vars => NominationInv'
  <2> SUFFICES ASSUME NominationInv, [Next]_vars PROVE NominationInv'
    OBVIOUS
  <2>1. \/ UNCHANGED <<admin, pendingAdmin, nominator>>
        \/ \E a \in Addresses, r \in Registries : Initialize(a, r)
        \/ \E a \in Addresses : ProposeAdmin(a)
        \/ AcceptAdmin
        \/ CancelAdminTransfer
    <3>1. ASSUME NEW a \in Addresses, NEW t \in Taloses, NEW e \in EpochIds, NEW p \in Patrons,
                 NEW s \in Splits, ClaimDividend(a, t, e, p, s)
          PROVE  UNCHANGED <<admin, pendingAdmin, nominator>>
      BY <3>1 DEF ClaimDividend, adminVars
    <3>2. ASSUME NEW a \in Addresses, NEW t \in Taloses, NEW e \in EpochIds, NEW n \in 1..MaxEpochs,
                 NEW w \in AgeWindows, ExtendTtlBatch(a, t, e, n, w)
          PROVE  UNCHANGED <<admin, pendingAdmin, nominator>>
      BY <3>2 DEF ExtendTtlBatch, adminVars
    <3> QED BY <3>1, <3>2 DEF Next, vars, adminVars, CommitEpoch, RecoverExpired,
                              SetRegistryContract, TouchEpoch, Tick
  <2> QED BY <2>1 DEF NominationInv, Initialize, ProposeAdmin, AcceptAdmin, CancelAdminTransfer
<1>3. NominationInv => NominationCurrent
  BY DEF NominationInv, NominationCurrent
<1> QED BY <1>1, <1>2, <1>3, PTL DEF Spec

-----------------------------------------------------------------------------
(* The claim window and the recovery window.                               *)

(* What a step does to the ledger of an epoch's last write: nothing, or it moves
   it to the present; and a recovery is written after the deadline. *)
LEMMA StepOfStored ==
  ASSUME TypeOK, [Next]_vars, NEW u \in Taloses, NEW d \in EpochIds
  PROVE  /\ stored'[u][d] \in {stored[u][d], now} /\ now' >= now
         /\ Recovered(u, d) => stored'[u][d] = now /\ Expired(u, d)
<1> USE DEF adminVars, money
<1> DEFINE Goal == /\ stored'[u][d] \in {stored[u][d], now} /\ now' >= now
                   /\ Recovered(u, d) => stored'[u][d] = now /\ Expired(u, d)
<1>0. now \in Nat /\ epoch[u][d] \in EpochRecord
  BY DEF TypeOK
<1>1. ASSUME UNCHANGED epoch, UNCHANGED stored, now' \in {now, now + 1} PROVE Goal
  BY <1>0, <1>1 DEF Recovered
<1>2. ASSUME NEW t \in Taloses, NEW e \in EpochIds, NEW r \in EpochRecord, SetEpoch(t, e, r),
             now' = now,
             epoch[t][e].status = "Active" /\ r.status = "Recovered" => Expired(t, e)
      PROVE  Goal
  <2>1. CASE <<u, d>> = <<t, e>>
    BY <1>0, <1>2, <2>1, SetEpochTyped DEF Recovered
  <2>2. CASE <<u, d>> # <<t, e>>
    BY <1>0, <1>2, <2>2, SetEpochTyped DEF Recovered
  <2> QED BY <2>1, <2>2
<1> HIDE DEF Goal
<1>3. ASSUME NEW a \in Addresses, NEW t \in Taloses, NEW n \in Totals, NEW x \in Expiries,
             CommitEpoch(a, t, n, x)
      PROVE  Goal
  <2> DEFINE r == [status |-> "Active", total |-> n, claimed |-> 0, created |-> now, expiry |-> x]
  <2>1. r \in EpochRecord /\ r.status = "Active"
    BY DEF EpochRecord, Statuses, TypeOK
  <2>2. nextId[t] \in EpochIds /\ SetEpoch(t, nextId[t], r) /\ now' = now
    BY <1>3 DEF CommitEpoch
  <2> HIDE DEF r
  <2> QED BY <1>2, <2>1, <2>2
<1>4. ASSUME NEW a \in Addresses, NEW t \in Taloses, NEW e \in EpochIds, NEW p \in Patrons,
             NEW s \in Splits, ClaimDividend(a, t, e, p, s)
      PROVE  Goal
  <2> DEFINE amount == ComputeAllocation(epoch[t][e].total, s[Role(a, p)])
             r == [epoch[t][e] EXCEPT !.claimed = NewClaimed(t, e, amount)]
  <2>1. epoch[t][e] \in EpochRecord /\ epoch[t][e].total \in Int
    BY DEF TypeOK, EpochRecord
  <2>2. amount \in Int
    BY <2>1, ClaimTyped
  <2>3. SetEpoch(t, e, r) /\ epoch[t][e].status = "Active" /\ now' = now
    BY <1>4 DEF ClaimDividend
  <2> HIDE DEF amount
  <2>4. r \in EpochRecord /\ r.status = epoch[t][e].status
    BY <2>1, <2>2 DEF EpochRecord, NewClaimed
  <2> HIDE DEF r
  <2> QED BY <1>2, <2>3, <2>4
<1>5. ASSUME NEW a \in Addresses, NEW t \in Taloses, NEW e \in EpochIds, RecoverExpired(a, t, e)
      PROVE  Goal
  <2> DEFINE r == [epoch[t][e] EXCEPT !.status = "Recovered"]
  <2>1. epoch[t][e] \in EpochRecord
    BY DEF TypeOK
  <2>2. r \in EpochRecord
    BY <2>1 DEF EpochRecord, Statuses
  <2>3. SetEpoch(t, e, r) /\ Expired(t, e) /\ now' = now
    BY <1>5 DEF RecoverExpired
  <2> HIDE DEF r
  <2> QED BY <1>2, <2>2, <2>3
<1>6. ASSUME NEW t \in Taloses, NEW e \in EpochIds, TouchEpoch(t, e) PROVE Goal
  <2>1. SetEpoch(t, e, epoch[t][e]) /\ epoch[t][e] \in EpochRecord /\ now' = now
    BY <1>6 DEF TouchEpoch, TypeOK
  <2> QED BY <1>2, <2>1
<1>7. ASSUME NEW a \in Addresses, NEW t \in Taloses, NEW e \in EpochIds, NEW n \in 1..MaxEpochs,
             NEW w \in AgeWindows, ExtendTtlBatch(a, t, e, n, w)
      PROVE  Goal
  <2>1. UNCHANGED <<epoch, now>>
    BY <1>7 DEF ExtendTtlBatch
  <2>2. stored'[u][d] \in {stored[u][d], now}
    BY <1>7 DEF ExtendTtlBatch, TypeOK
  <2> QED BY <1>0, <2>1, <2>2 DEF Goal, Recovered
<1>8. \/ /\ UNCHANGED epoch /\ UNCHANGED stored /\ now' \in {now, now + 1}
      \/ \E a \in Addresses, t \in Taloses, n \in Totals, x \in Expiries : CommitEpoch(a, t, n, x)
      \/ \E a \in Addresses, t \in Taloses, e \in EpochIds, p \in Patrons, s \in Splits :
           ClaimDividend(a, t, e, p, s)
      \/ \E a \in Addresses, t \in Taloses, e \in EpochIds : RecoverExpired(a, t, e)
      \/ \E t \in Taloses, e \in EpochIds : TouchEpoch(t, e)
      \/ \E a \in Addresses, t \in Taloses, e \in EpochIds, n \in 1..MaxEpochs, w \in AgeWindows :
           ExtendTtlBatch(a, t, e, n, w)
  BY DEF Next, vars, Initialize, SetRegistryContract, ProposeAdmin, AcceptAdmin,
         CancelAdminTransfer, Tick
<1>9. Goal
  BY <1>1, <1>3, <1>4, <1>5, <1>6, <1>7, <1>8
<1> QED BY <1>9 DEF Goal

(* What the payouts on record change by: nothing, or one claim made inside the
   window, whose marker was not there before. *)
NewPayout(t, e, p, a, s) ==
  [talos |-> t, epoch |-> e, to |-> a, split |-> s, role |-> Role(a, p),
   amount |-> ComputeAllocation(epoch[t][e].total, s[Role(a, p)]), at |-> now]

LEMMA StepOfPaid ==
  ASSUME [Next]_vars
  PROVE  \/ UNCHANGED <<paid, dust>>
         \/ \E a \in Addresses, t \in Taloses, e \in EpochIds, p \in Patrons, s \in Splits :
              ClaimDividend(a, t, e, p, s)
  BY DEF Next, vars, money, Initialize, CommitEpoch, RecoverExpired, SetRegistryContract,
         ProposeAdmin, AcceptAdmin, CancelAdminTransfer, TouchEpoch, ExtendTtlBatch, Tick

\* The windows with what keeps them apart: an epoch that was paid from is
\* committed, so its deadline is fixed, and no write is dated in the future.
WindowInv ==
  /\ WindowsDisjoint
  /\ \A p \in paid : epoch[p.talos][p.epoch].status # "absent"
  /\ \A t \in Taloses, e \in EpochIds : stored[t][e] <= now

(* The deadline of a committed epoch is fixed, and the epoch stays committed. *)
LEMMA DeadlineFixed ==
  ASSUME TypeOK, [Next]_vars, NEW t \in Taloses, NEW e \in EpochIds, epoch[t][e].status # "absent"
  PROVE  /\ Deadline(t, e)' = Deadline(t, e) /\ epoch'[t][e].status # "absent"
         /\ epoch'[t][e].total = epoch[t][e].total
<1>1. EpochStep(t, e)
  BY StepOfEpoch
<1> QED BY <1>1 DEF EpochStep, Same, Committed, Paid, Recovered, Deadline

LEMMA WindowStep == TypeOK /\ TypeOK' /\ WindowInv /\ [Next]_vars => WindowInv'
<1> SUFFICES ASSUME TypeOK, TypeOK', WindowInv, [Next]_vars PROVE WindowInv'
  OBVIOUS
<1>1. now \in Nat /\ now' \in Nat
  BY DEF TypeOK
<1>2. ASSUME NEW t \in Taloses, NEW e \in EpochIds
      PROVE  /\ stored'[t][e] <= now'
             /\ epoch'[t][e].status = "Recovered" => stored'[t][e] > Deadline(t, e)'
  <2>1. /\ stored'[t][e] \in {stored[t][e], now} /\ now' >= now
        /\ Recovered(t, e) => stored'[t][e] = now /\ Expired(t, e)
    BY StepOfStored
  <2>2. /\ stored[t][e] \in Nat /\ stored[t][e] <= now
        /\ epoch[t][e] \in EpochRecord /\ Deadline(t, e) \in Nat
    BY DEF WindowInv, TypeOK, EpochRecord, Deadline
  <2>3. stored'[t][e] <= now'
    BY <1>1, <2>1, <2>2
  <2>4. ASSUME epoch'[t][e].status = "Recovered" PROVE stored'[t][e] > Deadline(t, e)'
    <3>1. EpochStep(t, e)
      BY StepOfEpoch
    <3>2. CASE Recovered(t, e)
      <4>1. Deadline(t, e)' = Deadline(t, e)
        BY <3>2 DEF Recovered, Deadline
      <4> QED BY <2>1, <3>2, <4>1 DEF Expired
    <3>3. CASE epoch[t][e].status = "Recovered"
      <4>1. Deadline(t, e)' = Deadline(t, e)
        BY <3>3, DeadlineFixed
      <4>2. stored[t][e] > Deadline(t, e)
        BY <3>3 DEF WindowInv, WindowsDisjoint
      <4> QED BY <1>1, <2>1, <2>2, <4>1, <4>2
    <3> QED BY <2>4, <3>1, <3>2, <3>3 DEF EpochStep, Same, Committed, Paid
  <2> QED BY <2>3, <2>4
<1>3. ASSUME NEW q \in paid'
      PROVE  epoch'[q.talos][q.epoch].status # "absent" /\ q.at <= Deadline(q.talos, q.epoch)'
  <2>1. q.talos \in Taloses /\ q.epoch \in EpochIds
    BY DEF TypeOK
  <2>2. epoch[q.talos][q.epoch].status # "absent" /\ q.at <= Deadline(q.talos, q.epoch)
    <3>1. CASE q \in paid
      BY <3>1 DEF WindowInv, WindowsDisjoint
    <3>2. CASE q \notin paid
      <4>1. PICK a \in Addresses, t \in Taloses, e \in EpochIds, p \in Patrons, s \in Splits :
              ClaimDividend(a, t, e, p, s)
        BY <3>2, StepOfPaid
      <4>2. paid' = paid \cup {NewPayout(t, e, p, a, s)}
        BY <4>1 DEF ClaimDividend, NewPayout
      <4>3. q.talos = t /\ q.epoch = e /\ q.at = now
        BY <3>2, <4>2 DEF NewPayout
      <4>4. epoch[t][e].status = "Active" /\ now <= Deadline(t, e)
        BY <4>1 DEF ClaimDividend, ClaimWindowOpen
      <4> QED BY <4>3, <4>4
    <3> QED BY <3>1, <3>2
  <2> QED BY <2>1, <2>2, DeadlineFixed
<1> QED BY <1>2, <1>3 DEF WindowInv, WindowsDisjoint

LEMMA WindowInvariance == Spec => []WindowInv
<1>1. Init => WindowInv
  BY DEF Init, WindowInv, WindowsDisjoint, Absent
<1> QED BY <1>1, WindowStep, TypeCorrect, PTL DEF Spec

(* No payout is recorded after the deadline of its epoch and no sweep up to it,
   for any expiries and however the clock advances. *)
THEOREM WindowsAreDisjoint == Spec => []WindowsDisjoint
  BY WindowInvariance, PTL DEF WindowInv

-----------------------------------------------------------------------------
(* The claimed amount, the payouts and the dust.                           *)

\* Each payout is the floor of its share of the committed amount, under a split
\* of exactly 100 percent whose dust is the one on record for the epoch.
FairlyPaid(p) ==
  /\ epoch[p.talos][p.epoch].status # "absent"
  /\ ShareSumOk(p.split)
  /\ p.amount = Part(epoch[p.talos][p.epoch].total, p.split[p.role])
  /\ dust[p.talos][p.epoch] = ComputeRoundingDust(epoch[p.talos][p.epoch].total, p.split)
PaidInv ==
  /\ IsFiniteSet(paid)
  /\ \A p \in paid : FairlyPaid(p)
  /\ ClaimedIsPaid

(* The payouts of one epoch are finitely many integers. *)
LEMMA PayoutsSummable ==
  ASSUME TypeOK, IsFiniteSet(paid), NEW t, NEW e
  PROVE  /\ IsFiniteSet(Payouts(t, e)) /\ Payouts(t, e) \subseteq paid
         /\ \A p \in paid : p.amount \in Int /\ [q \in paid |-> q.amount][p] = p.amount
         /\ PaidTo(t, e) \in Int
<1>1. Payouts(t, e) \subseteq paid
  BY DEF Payouts
<1>2. IsFiniteSet(Payouts(t, e))
  BY <1>1, FS_Subset
<1>3. \A p \in paid : p.amount \in Int /\ [q \in paid |-> q.amount][p] = p.amount
  BY DEF TypeOK
<1>4. PaidTo(t, e) \in Int
  BY <1>1, <1>2, <1>3, SumType DEF PaidTo
<1> QED BY <1>1, <1>2, <1>3, <1>4

(* A new payout adds its amount to its own epoch and to no other. *)
LEMMA PayoutAdds ==
  ASSUME TypeOK, TypeOK', IsFiniteSet(paid), NEW ev, ev \notin paid, paid' = paid \cup {ev},
         NEW t, NEW e
  PROVE  PaidTo(t, e)' = PaidTo(t, e) + (IF ev.talos = t /\ ev.epoch = e THEN ev.amount ELSE 0)
<1> DEFINE f == [p \in paid |-> p.amount]
           g == [p \in paid' |-> p.amount]
           S == Payouts(t, e)
<1>1. IsFiniteSet(S) /\ S \subseteq paid /\ PaidTo(t, e) = SumOver(f, S) /\ PaidTo(t, e) \in Int
  BY PayoutsSummable DEF PaidTo
<1>2. PaidTo(t, e)' = SumOver(g, Payouts(t, e)')
  BY DEF PaidTo
<1>3. \A p \in paid' : g[p] = p.amount /\ p.amount \in Int
  BY DEF TypeOK
<1>4. \A p \in S : f[p] = g[p] /\ g[p] \in Int
  BY <1>1, <1>3
<1>5. ev \in paid' /\ g[ev] = ev.amount /\ g[ev] \in Int /\ ev \notin S
  BY <1>1, <1>3
<1>6. CASE ev.talos = t /\ ev.epoch = e
  <2>1. Payouts(t, e)' = S \cup {ev}
    BY <1>6 DEF Payouts
  <2> HIDE DEF f, g, S
  <2>2. SumOver(f, S) = SumOver(g, S)
    BY <1>1, <1>4, SumEqual
  <2>3. SumOver(g, S \cup {ev}) = SumOver(g, S) + ev.amount
    BY <1>1, <1>4, <1>5, SumAdd
  <2>4. PaidTo(t, e)' = SumOver(g, S \cup {ev})
    BY <1>2, <2>1, Zenon
  <2> QED BY <1>1, <1>6, <2>2, <2>3, <2>4
<1>7. CASE ~(ev.talos = t /\ ev.epoch = e)
  <2>1. Payouts(t, e)' = S
    BY <1>7 DEF Payouts
  <2> HIDE DEF f, g, S
  <2>2. SumOver(f, S) = SumOver(g, S)
    BY <1>1, <1>4, SumEqual
  <2>3. PaidTo(t, e)' = SumOver(g, S)
    BY <1>2, <2>1, Zenon
  <2> QED BY <1>1, <1>7, <2>2, <2>3
<1> QED BY <1>6, <1>7

(* What a claim does to the accounts: its payout is new, is the floor of its
   share, and leaves the dust of the payouts before it as it was. *)
LEMMA ClaimEffects ==
  ASSUME TypeOK, PaidInv, PayoutMarked, NEW a \in Addresses, NEW t \in Taloses, NEW e \in EpochIds,
         NEW p \in Patrons, NEW s \in Splits, ClaimDividend(a, t, e, p, s)
  PROVE  LET ev == NewPayout(t, e, p, a, s)
         IN  /\ ev \notin paid /\ paid' = paid \cup {ev}
             /\ epoch[t][e].status = "Active" /\ ShareSumOk(s)
             /\ ev.amount = Part(epoch[t][e].total, s[ev.role])
             /\ ev.talos = t /\ ev.epoch = e /\ ev.split = s /\ ev.amount \in Int
             /\ dust'[t][e] = ComputeRoundingDust(epoch[t][e].total, s)
             /\ \A u \in Taloses, d \in EpochIds : <<u, d>> # <<t, e>> => dust'[u][d] = dust[u][d]
             /\ \A q \in Payouts(t, e) : dust'[t][e] = dust[t][e]
             /\ \A u \in Taloses, d \in EpochIds :
                  epoch'[u][d].claimed = epoch[u][d].claimed
                                         + (IF ev.talos = u /\ ev.epoch = d THEN ev.amount ELSE 0)
<1> DEFINE n == epoch[t][e].total
           ev == NewPayout(t, e, p, a, s)
           g == ComputeRoundingDust(n, s)
           amount == ComputeAllocation(n, s[Role(a, p)])
           r == [epoch[t][e] EXCEPT !.claimed = NewClaimed(t, e, amount)]
<1>1. epoch[t][e] \in EpochRecord /\ n \in Int
  BY DEF TypeOK, EpochRecord
<1>2. amount \in Int /\ g \in Int /\ Role(a, p) \in Roles
  BY <1>1, ClaimTyped
<1>3. /\ epoch[t][e].status = "Active" /\ ShareSumOk(s) /\ <<e, a>> \notin claimed
      /\ dust[t][e] \in {NoDust, g} /\ dust' = [dust EXCEPT ![t][e] = g]
      /\ SetEpoch(t, e, r)
  BY DEF ClaimDividend, NotClaimed, DustConsistent
<1>4. paid' = paid \cup {ev}
  BY DEF ClaimDividend, NewPayout
<1>5. /\ ev.talos = t /\ ev.epoch = e /\ ev.split = s /\ ev.to = a /\ ev.role = Role(a, p)
      /\ ev.amount = amount
  BY DEF NewPayout
<1>6. amount = Part(n, s[Role(a, p)])
  BY DEF ComputeAllocation
<1> HIDE DEF ev, g, amount
<1>7. ev \notin paid
  BY <1>3, <1>5 DEF PayoutMarked
<1>8. /\ dust'[t][e] = g
      /\ \A u \in Taloses, d \in EpochIds : <<u, d>> # <<t, e>> => dust'[u][d] = dust[u][d]
  BY <1>3 DEF TypeOK
<1>9. ASSUME NEW q \in Payouts(t, e) PROVE dust'[t][e] = dust[t][e]
  <2>1. q \in paid /\ q.talos = t /\ q.epoch = e /\ q.split \in Splits
    BY DEF Payouts, TypeOK
  <2>2. FairlyPaid(q)
    BY <2>1 DEF PaidInv
  <2>3. dust[t][e] = ComputeRoundingDust(n, q.split) /\ ShareSumOk(q.split)
    BY <2>1, <2>2 DEF FairlyPaid
  <2>4. dust[t][e] \in {0, 1, 2}
    BY <1>1, <2>1, <2>3, DustOfSplit
  <2> QED BY <1>3, <1>8, <2>4 DEF NoDust
<1>10. r \in EpochRecord /\ r.claimed = epoch[t][e].claimed + amount
  BY <1>1, <1>2 DEF EpochRecord, NewClaimed
<1>11. \A u \in Taloses, d \in EpochIds : epoch[u][d].claimed \in Int
  <2> SUFFICES ASSUME NEW u \in Taloses, NEW d \in EpochIds PROVE epoch[u][d].claimed \in Int
    OBVIOUS
  <2>1. epoch[u][d] \in EpochRecord
    BY DEF TypeOK
  <2> QED BY <2>1 DEF EpochRecord
<1> HIDE DEF r
<1>12. ASSUME NEW u \in Taloses, NEW d \in EpochIds
       PROVE  epoch'[u][d].claimed = epoch[u][d].claimed
                                     + (IF ev.talos = u /\ ev.epoch = d THEN ev.amount ELSE 0)
  <2>1. CASE <<u, d>> = <<t, e>>
    BY <1>3, <1>5, <1>10, <2>1, SetEpochTyped
  <2>2. CASE <<u, d>> # <<t, e>>
    BY <1>3, <1>5, <1>10, <1>11, <2>2, SetEpochTyped
  <2> QED BY <2>1, <2>2
<1> QED BY <1>2, <1>3, <1>4, <1>5, <1>6, <1>7, <1>8, <1>9, <1>12 DEF ev, g

(* Nothing but a claim moves the claimed amount of a committed epoch. *)
LEMMA UnpaidStays ==
  ASSUME TypeOK, [Next]_vars, NEW u \in Taloses, NEW d \in EpochIds, epoch[u][d].status # "absent",
         ~\E a \in Addresses, t \in Taloses, e \in EpochIds, p \in Patrons, s \in Splits :
            ClaimDividend(a, t, e, p, s)
  PROVE  epoch'[u][d].claimed = epoch[u][d].claimed
<1> USE DEF adminVars, money
<1>1. ASSUME NEW t \in Taloses, NEW e \in EpochIds, NEW r \in EpochRecord, SetEpoch(t, e, r),
             r.claimed = epoch[t][e].claimed \/ epoch[t][e].status = "absent"
      PROVE  epoch'[u][d].claimed = epoch[u][d].claimed
  <2>1. CASE <<u, d>> = <<t, e>>
    BY <1>1, <2>1, SetEpochTyped
  <2>2. CASE <<u, d>> # <<t, e>>
    BY <1>1, <2>2, SetEpochTyped
  <2> QED BY <2>1, <2>2
<1>2. ASSUME NEW a \in Addresses, NEW t \in Taloses, NEW n \in Totals, NEW x \in Expiries,
             CommitEpoch(a, t, n, x)
      PROVE  epoch'[u][d].claimed = epoch[u][d].claimed
  <2> DEFINE r == [status |-> "Active", total |-> n, claimed |-> 0, created |-> now, expiry |-> x]
  <2>1. r \in EpochRecord
    BY DEF EpochRecord, Statuses, TypeOK
  <2>2. /\ nextId[t] \in EpochIds /\ SetEpoch(t, nextId[t], r)
        /\ epoch[t][nextId[t]].status = "absent"
    BY <1>2 DEF CommitEpoch
  <2> HIDE DEF r
  <2> QED BY <1>1, <2>1, <2>2
<1>3. ASSUME NEW a \in Addresses, NEW t \in Taloses, NEW e \in EpochIds, RecoverExpired(a, t, e)
      PROVE  epoch'[u][d].claimed = epoch[u][d].claimed
  <2> DEFINE r == [epoch[t][e] EXCEPT !.status = "Recovered"]
  <2>1. epoch[t][e] \in EpochRecord
    BY DEF TypeOK
  <2>2. r \in EpochRecord /\ r.claimed = epoch[t][e].claimed
    BY <2>1 DEF EpochRecord, Statuses
  <2>3. SetEpoch(t, e, r)
    BY <1>3 DEF RecoverExpired
  <2> HIDE DEF r
  <2> QED BY <1>1, <2>2, <2>3
<1>4. ASSUME NEW t \in Taloses, NEW e \in EpochIds, TouchEpoch(t, e)
      PROVE  epoch'[u][d].claimed = epoch[u][d].claimed
  <2>1. SetEpoch(t, e, epoch[t][e]) /\ epoch[t][e] \in EpochRecord
    BY <1>4 DEF TouchEpoch, TypeOK
  <2> QED BY <1>1, <2>1
<1>5. \/ UNCHANGED epoch
      \/ \E a \in Addresses, t \in Taloses, n \in Totals, x \in Expiries : CommitEpoch(a, t, n, x)
      \/ \E a \in Addresses, t \in Taloses, e \in EpochIds : RecoverExpired(a, t, e)
      \/ \E t \in Taloses, e \in EpochIds : TouchEpoch(t, e)
  BY DEF Next, vars, Initialize, SetRegistryContract, ProposeAdmin, AcceptAdmin,
         CancelAdminTransfer, ExtendTtlBatch, Tick
<1> QED BY <1>2, <1>3, <1>4, <1>5


(* Every step keeps the accounts of the payouts. *)
LEMMA PaidStep == TypeOK /\ TypeOK' /\ PayoutInv /\ PaidInv /\ [Next]_vars => PaidInv'
<1> SUFFICES ASSUME TypeOK, TypeOK', PayoutInv, PaidInv, [Next]_vars PROVE PaidInv'
  OBVIOUS
<1>1. IsFiniteSet(paid) /\ \A p \in paid : p.talos \in Taloses /\ p.epoch \in EpochIds
  BY DEF PaidInv, TypeOK
<1>2. \A p \in paid :
        /\ epoch'[p.talos][p.epoch].status # "absent"
        /\ epoch'[p.talos][p.epoch].total = epoch[p.talos][p.epoch].total
  BY <1>1, DeadlineFixed DEF PaidInv, FairlyPaid
<1>3. ASSUME UNCHANGED <<paid, dust>>,
             ~\E a \in Addresses, t \in Taloses, e \in EpochIds, p \in Patrons, s \in Splits :
                ClaimDividend(a, t, e, p, s)
      PROVE  PaidInv'
  <2>1. \A p \in paid' : FairlyPaid(p)'
    BY <1>2, <1>3 DEF PaidInv, FairlyPaid
  <2>2. ASSUME NEW t \in Taloses, NEW e \in EpochIds
        PROVE  epoch'[t][e].claimed = PaidTo(t, e)'
    <3>1. PaidTo(t, e)' = PaidTo(t, e) /\ PaidTo(t, e) = epoch[t][e].claimed
      BY <1>3 DEF PaidTo, Payouts, PaidInv, ClaimedIsPaid
    <3>2. CASE epoch[t][e].status # "absent"
      <4>1. epoch'[t][e].claimed = epoch[t][e].claimed
        BY <1>3, <3>2, UnpaidStays
      <4> QED BY <3>1, <4>1
    <3>3. CASE epoch[t][e].status = "absent"
      <4>1. Payouts(t, e) = {}
        BY <3>3 DEF Payouts, PaidInv, FairlyPaid
      <4>2. PaidTo(t, e) = 0
        BY <4>1, SumEmpty DEF PaidTo
      <4>3. EpochStep(t, e)
        BY StepOfEpoch
      <4>4. epoch'[t][e].claimed = 0
        BY <3>1, <3>3, <4>2, <4>3 DEF EpochStep, Same, Committed, Paid, Recovered
      <4> QED BY <3>1, <4>2, <4>4
    <3> QED BY <3>2, <3>3
  <2> QED BY <1>1, <1>3, <2>1, <2>2 DEF PaidInv, ClaimedIsPaid
<1>4. ASSUME NEW a \in Addresses, NEW t \in Taloses, NEW e \in EpochIds, NEW p \in Patrons,
             NEW s \in Splits, ClaimDividend(a, t, e, p, s)
      PROVE  PaidInv'
  <2>1. PICK ev :
          /\ ev \notin paid /\ paid' = paid \cup {ev}
          /\ epoch[t][e].status = "Active" /\ ShareSumOk(s)
          /\ ev.amount = Part(epoch[t][e].total, s[ev.role])
          /\ ev.talos = t /\ ev.epoch = e /\ ev.split = s /\ ev.amount \in Int
          /\ dust'[t][e] = ComputeRoundingDust(epoch[t][e].total, s)
          /\ \A u \in Taloses, d \in EpochIds : <<u, d>> # <<t, e>> => dust'[u][d] = dust[u][d]
          /\ \A q \in Payouts(t, e) : dust'[t][e] = dust[t][e]
          /\ \A u \in Taloses, d \in EpochIds :
               epoch'[u][d].claimed = epoch[u][d].claimed
                                      + (IF ev.talos = u /\ ev.epoch = d THEN ev.amount ELSE 0)
    BY <1>4, ClaimEffects DEF PayoutInv
  <2>2. IsFiniteSet(paid')
    BY <1>1, <2>1, FS_AddElement
  <2>3. epoch'[t][e].status # "absent" /\ epoch'[t][e].total = epoch[t][e].total
    BY <2>1, DeadlineFixed
  <2>4. FairlyPaid(ev)'
    BY <2>1, <2>3 DEF FairlyPaid
  <2>5. ASSUME NEW q \in paid PROVE FairlyPaid(q)'
    <3>1. dust'[q.talos][q.epoch] = dust[q.talos][q.epoch]
      BY <1>1, <2>1 DEF Payouts
    <3>2. FairlyPaid(q)
      BY DEF PaidInv
    <3> QED BY <1>2, <3>1, <3>2 DEF FairlyPaid
  <2>6. ASSUME NEW u \in Taloses, NEW d \in EpochIds
        PROVE  epoch'[u][d].claimed = PaidTo(u, d)'
    <3>1. PaidTo(u, d)' = PaidTo(u, d) + (IF ev.talos = u /\ ev.epoch = d THEN ev.amount ELSE 0)
      BY <1>1, <2>1, PayoutAdds
    <3>2. epoch[u][d].claimed = PaidTo(u, d)
      BY DEF PaidInv, ClaimedIsPaid
    <3> QED BY <2>1, <3>1, <3>2
  <2>7. \A q \in paid' : FairlyPaid(q)'
    BY <2>1, <2>4, <2>5
  <2>8. ClaimedIsPaid'
    BY <2>6 DEF ClaimedIsPaid
  <2> QED BY <2>2, <2>7, <2>8 DEF PaidInv
<1> QED BY <1>3, <1>4, StepOfPaid

LEMMA PaidInvariance == Spec => []PaidInv
<1>1. Init => PaidInv
  <2> SUFFICES ASSUME Init PROVE PaidInv
    OBVIOUS
  <2>1. paid = {} /\ IsFiniteSet(paid)
    BY FS_EmptySet DEF Init
  <2>2. ASSUME NEW t \in Taloses, NEW e \in EpochIds PROVE epoch[t][e].claimed = PaidTo(t, e)
    <3>1. Payouts(t, e) = {}
      BY <2>1 DEF Payouts
    <3>2. PaidTo(t, e) = 0
      BY <3>1, SumEmpty DEF PaidTo
    <3> QED BY <3>2 DEF Init, Absent
  <2> QED BY <2>1, <2>2 DEF PaidInv, ClaimedIsPaid
<1> QED BY <1>1, PaidStep, TypeCorrect, PayoutInvariance, PTL DEF Spec

(* The accounts of every epoch hold: payouts and sweeps never exceed the amount
   committed, the claimed amount is the sum of the payouts, and the dust is at
   most two units. *)
THEOREM EpochAccounts == Spec => []Accounts
<1>1. Conserved /\ PaidInv /\ DustBounded => Accounts
  BY DEF Accounts, PaidInv
<1> QED BY <1>1, MoneyIsConserved, DustIsBounded, PaidInvariance, PTL

(* Three payouts, one for each role, are one payout of each role. *)
LEMMA OnePayoutPerRole ==
  ASSUME NEW S, IsFiniteSet(S), Cardinality(S) = 3, {p.role : p \in S} = Roles
  PROVE  \E c, i, y \in S : /\ c.role = "creator" /\ i.role = "investor" /\ y.role = "treasury"
                            /\ c # i /\ c # y /\ i # y /\ ((S \ {c}) \ {i}) \ {y} = {}
<1>1. PICK c \in S : c.role = "creator"
  BY DEF Roles
<1>2. PICK i \in S : i.role = "investor"
  BY DEF Roles
<1>3. PICK y \in S : y.role = "treasury"
  BY DEF Roles
<1>4. c # i /\ c # y /\ i # y
  BY <1>1, <1>2, <1>3
<1>5. IsFiniteSet(S \ {c}) /\ Cardinality(S \ {c}) = 2
  BY FS_RemoveElement
<1> DEFINE T == S \ {c}  U == T \ {i}  V == U \ {y}
<1>6. i \in T /\ y \in U
  BY <1>4
<1>7. IsFiniteSet(V) /\ Cardinality(V) = 0
  <2>1. IsFiniteSet(T) /\ Cardinality(T) = 2
    BY <1>5
  <2> HIDE DEF T
  <2>2. IsFiniteSet(U) /\ Cardinality(U) = 1
    BY <1>6, <2>1, FS_RemoveElement
  <2> HIDE DEF U
  <2> QED BY <1>6, <2>2, FS_RemoveElement
<1>8. ((S \ {c}) \ {i}) \ {y} = {}
  <2>1. V = {}
    <3> HIDE DEF V
    <3> QED BY <1>7, FS_EmptySet
  <2> QED BY <2>1
<1> QED BY <1>1, <1>2, <1>3, <1>4, <1>8

(* When each role has been paid once under one split, what is left of the epoch is
   exactly its dust, for every amount and every split. *)
THEOREM FullClaimsLeaveDust == Spec => []FullClaimLeavesDust
<1>1. TypeOK /\ PaidInv => FullClaimLeavesDust
  <2> SUFFICES ASSUME TypeOK, PaidInv, NEW t \in Taloses, NEW e \in EpochIds,
                      Cardinality(Payouts(t, e)) = 3, {p.role : p \in Payouts(t, e)} = Roles,
                      \A p, q \in Payouts(t, e) : p.split = q.split
               PROVE  epoch[t][e].claimed + dust[t][e] = epoch[t][e].total
    BY DEF FullClaimLeavesDust
  <2> DEFINE S == Payouts(t, e)
             f == [p \in paid |-> p.amount]
             n == epoch[t][e].total
  <2>1. /\ IsFiniteSet(S) /\ S \subseteq paid /\ \A p \in S : f[p] = p.amount /\ f[p] \in Int
        /\ epoch[t][e].claimed = SumOver(f, S)
    BY PayoutsSummable DEF PaidInv, ClaimedIsPaid, PaidTo
  <2>2. PICK c, i, y \in S :
          /\ c.role = "creator" /\ i.role = "investor" /\ y.role = "treasury"
          /\ c # i /\ c # y /\ i # y /\ ((S \ {c}) \ {i}) \ {y} = {}
    BY <2>1, OnePayoutPerRole
  <2>3. n \in Int
    <3>1. epoch[t][e] \in EpochRecord
      BY DEF TypeOK
    <3> QED BY <3>1 DEF EpochRecord
  <2>4. \A p \in S : /\ FairlyPaid(p) /\ p.talos = t /\ p.epoch = e /\ p.split = c.split
    BY DEF Payouts, PaidInv
  <2>5. /\ c.amount = Part(n, c.split.creator) /\ i.amount = Part(n, c.split.investor)
        /\ y.amount = Part(n, c.split.treasury) /\ dust[t][e] = ComputeRoundingDust(n, c.split)
    BY <2>2, <2>4 DEF FairlyPaid
  <2> HIDE DEF S, f, n
  <2> DEFINE T == S \ {c}  U == T \ {i}
  <2>6. SumOver(f, S) = f[c] + SumOver(f, T)
    BY <2>1, <2>2, SumTakeOut
  <2>a. IsFiniteSet(T) /\ i \in T /\ \A x \in T : f[x] \in Int
    BY <2>1, <2>2, FS_RemoveElement
  <2>b. IsFiniteSet(U) /\ y \in U /\ \A x \in U : f[x] \in Int
    <3>1. y \in U /\ \A x \in U : f[x] \in Int
      BY <2>2, <2>a
    <3> HIDE DEF T
    <3> QED BY <2>a, <3>1, FS_RemoveElement
  <2>c. U \ {y} = {}
    BY <2>2
  <2> HIDE DEF T
  <2>7. SumOver(f, T) = f[i] + SumOver(f, U)
    BY <2>a, SumTakeOut
  <2> HIDE DEF U
  <2>8. SumOver(f, U) = f[y] + SumOver(f, U \ {y})
    BY <2>b, SumTakeOut
  <2>9. SumOver(f, U \ {y}) = 0
    <3>1. SumOver(f, {}) = 0
      BY SumEmpty
    <3> QED BY <2>c, <3>1, Zenon
  <2>10. /\ f[c] = c.amount /\ f[i] = i.amount /\ f[y] = y.amount
         /\ c.amount \in Int /\ i.amount \in Int /\ y.amount \in Int
    BY <2>1, <2>2
  <2>11. epoch[t][e].claimed = c.amount + (i.amount + y.amount)
    BY <2>1, <2>6, <2>7, <2>8, <2>9, <2>10
  <2>12. epoch[t][e].claimed + dust[t][e] = n
    BY <2>3, <2>5, <2>10, <2>11 DEF ComputeRoundingDust
  <2> QED BY <2>12 DEF n
<1> QED BY <1>1, TypeCorrect, PaidInvariance, PTL
=============================================================================
