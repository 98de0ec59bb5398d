--------------------------- MODULE TalosDividends ---------------------------
(***************************************************************************)
(* The pull-based dividend contract, contracts/talos_dividends/src/lib.rs. *)
(*                                                                         *)
(* A contract call either commits all its writes or none, so every entry   *)
(* point is one action whose guard is the conjunction of the checks that   *)
(* do not return an error.  `now' stands for both the ledger timestamp and *)
(* the ledger sequence.  The i128 arithmetic is exact here, and checked_mul*)
(* is the comparison with MaxI128.  A claim carries the patron addresses   *)
(* and the shares its caller supplies.                                     *)
(***************************************************************************)
EXTENDS Integers, FiniteSets, Sums

CONSTANTS
  Taloses,        \* talos_id values
  Addresses,      \* accounts
  NoAddress,      \* an absent storage entry that would hold an address
  Registries,     \* contracts offered as a TalosRegistry
  RegistryVersion,\* what each of them returns from version()
  RegistryInterface,      \* what each of them returns from interface_id()
  ExpectedInterface,      \* EXPECTED_REGISTRY_INTERFACE_ID
  Patrons,        \* triples of patron addresses a claim may carry
  Splits,         \* triples of percentages a claim may carry
  Totals,         \* total_amount arguments
  Expiries,       \* expiry_secs arguments
  MinExpiry, MaxExpiry,   \* MIN_EXPIRY_SECS and MAX_EXPIRY_SECS
  MaxI128,        \* the largest i128
  RenewalThreshold,       \* ttl_manager::RENEWAL_THRESHOLD
  AgeWindows,     \* <<min_age, max_age>> arguments of extend_ttl_batch
  MaxEpochs,      \* bound: epochs committed per Talos
  MaxNow,         \* bound: the clock
  MaxTransfers    \* bound: admin proposals

ASSUME AddressAssumption == NoAddress \notin Addresses \cup Registries
ASSUME PatronsAssumption ==
  Patrons \subseteq [creator : Addresses, investor : Addresses, treasury : Addresses]
ASSUME SplitsAssumption ==
  Splits \subseteq [creator : Nat, investor : Nat, treasury : Nat]
ASSUME AmountsAssumption ==
  Totals \subseteq Int /\ MaxI128 \in Nat /\ Expiries \subseteq Nat
ASSUME LimitsAssumption ==
  /\ MinExpiry \in Nat /\ MaxExpiry \in Nat /\ RenewalThreshold \in Nat
  /\ MaxEpochs \in Nat /\ MaxNow \in Nat /\ MaxTransfers \in Nat
  /\ AgeWindows \subseteq Nat \X Nat

VARIABLES
  admin, pendingAdmin, registry,   \* Admin, PendingAdmin, RegistryContract
  epoch,        \* epoch[t][e]: Epoch(t, e)
  nextId,       \* nextId[t]: NextEpochId(t)
  claimed,      \* the <<epoch_id, address>> pairs with a Claimed entry
  dust,         \* dust[t][e]: RoundingDust(t, e)
  touched,      \* touched[t][e]: LastTouched(t, e)
  now,
  paid,         \* history: the div_clm events
  swept,        \* history: swept[t][e], what ep_rcv returned to the admin
  stored,       \* history: stored[t][e], the ledger of the last set() of Epoch(t, e)
  nominator,    \* history: who proposed pendingAdmin
  transfers     \* counter for the bound

vars == <<admin, pendingAdmin, registry, epoch, nextId, claimed, dust, touched, now,
          paid, swept, stored, nominator, transfers>>
adminVars == <<admin, pendingAdmin, registry, nominator, transfers>>
money == <<nextId, claimed, dust, paid, swept>>

EpochIds == 1..MaxEpochs
Statuses == {"absent", "Active", "Recovered"}
EpochRecord == [status : Statuses, total : Int, claimed : Int, created : Nat, expiry : Nat]
Absent == [status |-> "absent", total |-> 0, claimed |-> 0, created |-> 0, expiry |-> 0]
NoDust == -1
Roles == {"creator", "investor", "treasury"}

Init ==
  /\ admin = NoAddress /\ pendingAdmin = NoAddress /\ registry = NoAddress
  /\ epoch = [t \in Taloses |-> [e \in EpochIds |-> Absent]]
  /\ nextId = [t \in Taloses |-> 1]
  /\ claimed = {}
  /\ dust = [t \in Taloses |-> [e \in EpochIds |-> NoDust]]
  /\ touched = [t \in Taloses |-> [e \in EpochIds |-> 0]]
  /\ now = 0
  /\ paid = {}
  /\ swept = [t \in Taloses |-> [e \in EpochIds |-> 0]]
  /\ stored = [t \in Taloses |-> [e \in EpochIds |-> 0]]
  /\ nominator = NoAddress /\ transfers = 0

-----------------------------------------------------------------------------
(* Allocation arithmetic.                                                  *)

Part(total, share) == (total * share) \div 100
\* compute_allocation: the product fits and the quotient is not zero.
AllocationRoundsHalfUp(total, share) == (total * share + 50) \div 100
ComputeAllocation(total, share) == Part(total, share)
AllocationOk(total, share) ==
  total * share <= MaxI128 /\ Part(total, share) > 0

ComputeRoundingDust(total, s) ==
  total - (Part(total, s.creator) + Part(total, s.investor) + Part(total, s.treasury))
DustOk(total, s) == \A r \in Roles : total * s[r] <= MaxI128

ShareSumOk(s) == s.creator + s.investor + s.treasury = 100

\* The first role whose supplied address is the claimant's.
Role(claimant, p) ==
  IF claimant = p.creator THEN "creator"
  ELSE IF claimant = p.investor THEN "investor" ELSE "treasury"
IsPatron(claimant, p) == claimant \in {p.creator, p.investor, p.treasury}

Deadline(t, e) == epoch[t][e].created + epoch[t][e].expiry
ClaimWindowOpenLate(t, e) == now <= Deadline(t, e) + 1
ClaimWindowOpen(t, e) == now <= Deadline(t, e)

-----------------------------------------------------------------------------
(* Updates of one epoch's entries.                                         *)

SetEpoch(t, e, r) ==
  /\ epoch' = [epoch EXCEPT ![t][e] = r]
  /\ stored' = [stored EXCEPT ![t][e] = now]
Touch(t, e) == touched' = [touched EXCEPT ![t][e] = now]

-----------------------------------------------------------------------------
(* Initialisation, epochs, claims, recovery.                               *)

Initialize(a, r) ==
  /\ admin = NoAddress
  /\ admin' = a /\ registry' = r
  /\ UNCHANGED <<pendingAdmin, nominator, transfers, epoch, touched, stored, money, now>>

CommitEpochReusesId(a, t, total, expiry) ==
  /\ admin # NoAddress /\ a = admin
  /\ total >= 1 /\ MinExpiry <= expiry /\ expiry <= MaxExpiry
  /\ nextId[t] \in EpochIds
  /\ SetEpoch(t, nextId[t], [status |-> "Active", total |-> total, claimed |-> 0,
                             created |-> now, expiry |-> expiry])
  /\ Touch(t, nextId[t])
  /\ UNCHANGED <<adminVars, nextId, claimed, dust, paid, swept, now>>

CommitEpoch(a, t, total, expiry) ==
  /\ admin # NoAddress /\ a = admin
  /\ total >= 1 /\ MinExpiry <= expiry /\ expiry <= MaxExpiry
  /\ nextId[t] \in EpochIds                        \* the bound
  /\ epoch[t][nextId[t]].status = "absent"
  /\ SetEpoch(t, nextId[t], [status |-> "Active", total |-> total, claimed |-> 0,
                             created |-> now, expiry |-> expiry])
  /\ nextId' = [nextId EXCEPT ![t] = nextId[t] + 1]
  /\ Touch(t, nextId[t])
  /\ UNCHANGED <<adminVars, claimed, dust, paid, swept, now>>

\* The double-claim guard: its key has no talos_id.
NeverClaimed(t, e, claimant) == TRUE
NotClaimed(t, e, claimant) == <<e, claimant>> \notin claimed

DustConsistent(t, e, d) == dust[t][e] \in {NoDust, d}

NewClaimed(t, e, amount) == epoch[t][e].claimed + amount

ClaimDividend(claimant, t, e, p, s) ==
  LET total == epoch[t][e].total
      share == s[Role(claimant, p)]
      amount == ComputeAllocation(total, share)
      d == ComputeRoundingDust(total, s)
  IN /\ epoch[t][e].status = "Active"
     /\ ClaimWindowOpen(t, e)
     /\ ShareSumOk(s)
     /\ IsPatron(claimant, p)
     /\ NotClaimed(t, e, claimant)
     /\ AllocationOk(total, share)
     /\ DustOk(total, s)
     /\ DustConsistent(t, e, d)
     /\ NewClaimed(t, e, amount) <= total
     /\ claimed' = claimed \cup {<<e, claimant>>}
     /\ dust' = [dust EXCEPT ![t][e] = d]
     /\ SetEpoch(t, e, [epoch[t][e] EXCEPT !.claimed = NewClaimed(t, e, amount)])
     /\ Touch(t, e)
     /\ paid' = paid \cup {[talos |-> t, epoch |-> e, to |-> claimant, split |-> s,
                            role |-> Role(claimant, p), amount |-> amount, at |-> now]}
     /\ UNCHANGED <<adminVars, nextId, swept, now>>

Expired(t, e) == now > Deadline(t, e)

RecoverLeavesActive(a, t, e) ==
  /\ admin # NoAddress /\ a = admin
  /\ epoch[t][e].status = "Active"
  /\ Expired(t, e)
  /\ swept' = [swept EXCEPT ![t][e] = swept[t][e] + (epoch[t][e].total - epoch[t][e].claimed)]
  /\ SetEpoch(t, e, epoch[t][e])
  /\ UNCHANGED <<adminVars, nextId, claimed, dust, paid, touched, now>>

RecoverExpired(a, t, e) ==
  /\ admin # NoAddress /\ a = admin
  /\ epoch[t][e].status \notin {"absent", "Recovered"}
  /\ Expired(t, e)
  /\ swept' = [swept EXCEPT ![t][e] = swept[t][e] + (epoch[t][e].total - epoch[t][e].claimed)]
  /\ SetEpoch(t, e, [epoch[t][e] EXCEPT !.status = "Recovered"])
  /\ UNCHANGED <<adminVars, nextId, claimed, dust, paid, touched, now>>

-----------------------------------------------------------------------------
(* Registry and administrator.                                             *)

VersionSupports(actual, required) ==
  /\ actual[1] = required[1]
  /\ \/ actual[2] > required[2]
     \/ actual[2] = required[2] /\ actual[3] >= required[3]
CheckRegistryCompatible(r) ==
  /\ RegistryInterface[r] = ExpectedInterface
  /\ VersionSupports(RegistryVersion[r], <<1, 1, 0>>)

SetRegistryContract(a, r) ==
  /\ admin # NoAddress /\ a = admin
  /\ CheckRegistryCompatible(r)
  /\ registry' = r
  /\ UNCHANGED <<admin, pendingAdmin, nominator, transfers, epoch, touched, stored, money, now>>

ProposeAdmin(a) ==
  /\ admin # NoAddress
  /\ transfers < MaxTransfers                      \* the bound
  /\ pendingAdmin' = a /\ nominator' = admin
  /\ transfers' = transfers + 1
  /\ UNCHANGED <<admin, registry, epoch, touched, stored, money, now>>

AcceptAdminKeepsPending ==
  /\ pendingAdmin # NoAddress
  /\ admin' = pendingAdmin
  /\ UNCHANGED <<pendingAdmin, nominator, registry, transfers, epoch, touched, stored, money, now>>

AcceptAdmin ==
  /\ pendingAdmin # NoAddress
  /\ admin' = pendingAdmin
  /\ pendingAdmin' = NoAddress /\ nominator' = NoAddress
  /\ UNCHANGED <<registry, transfers, epoch, touched, stored, money, now>>

CancelAdminTransfer ==
  /\ admin # NoAddress /\ pendingAdmin # NoAddress
  /\ pendingAdmin' = NoAddress /\ nominator' = NoAddress
  /\ UNCHANGED <<admin, registry, transfers, epoch, touched, stored, money, now>>

-----------------------------------------------------------------------------
(* Storage lifetime.                                                       *)

NeedsTouch(t, e) == now - touched[t][e] >= RenewalThreshold
ShouldExtend(t, e, w) == now - touched[t][e] \in w[1]..w[2]

TouchEpoch(t, e) ==
  /\ epoch[t][e].status # "absent"
  /\ NeedsTouch(t, e)
  /\ SetEpoch(t, e, epoch[t][e])
  /\ Touch(t, e)
  /\ UNCHANGED <<adminVars, money, now>>

\* extend_ttl_batch refreshes, of the epochs first..(first+limit-1) below
\* NextEpochId, those whose recorded age is inside the window.
Swept(t, first, limit, w) ==
  {e \in EpochIds : /\ first <= e /\ e < first + limit /\ e < nextId[t]
                    /\ epoch[t][e].status # "absent" /\ ShouldExtend(t, e, w)}

ExtendTtlBatch(a, t, first, limit, w) ==
  LET S == Swept(t, first, limit, w)
  IN /\ admin # NoAddress /\ a = admin
     /\ w[1] <= w[2]
     /\ touched' = [touched EXCEPT ![t] = [e \in EpochIds |-> IF e \in S THEN now ELSE touched[t][e]]]
     /\ stored' = [stored EXCEPT ![t] = [e \in EpochIds |-> IF e \in S THEN now ELSE stored[t][e]]]
     /\ UNCHANGED <<epoch, adminVars, money, now>>

Tick ==
  /\ now < MaxNow                                  \* the bound
  /\ now' = now + 1
  /\ UNCHANGED <<adminVars, epoch, touched, stored, money>>

-----------------------------------------------------------------------------
Next ==
  \/ \E a \in Addresses, r \in Registries : Initialize(a, r)
  \/ \E a \in Addresses, t \in Taloses, n \in Totals, x \in Expiries : CommitEpoch(a, t, n, x)
  \/ \E a \in Addresses, t \in Taloses, e \in EpochIds, p \in Patrons, s \in Splits :
       ClaimDividend(a, t, e, p, s)
  \/ \E a \in Addresses, t \in Taloses, e \in EpochIds : RecoverExpired(a, t, e)
  \/ \E a \in Addresses, r \in Registries : SetRegistryContract(a, r)
  \/ \E a \in Addresses : ProposeAdmin(a)
  \/ AcceptAdmin
  \/ CancelAdminTransfer
  \/ \E t \in Taloses, e \in EpochIds : TouchEpoch(t, e)
  \/ \E a \in Addresses, t \in Taloses, e \in EpochIds, n \in 1..MaxEpochs, w \in AgeWindows :
       ExtendTtlBatch(a, t, e, n, w)
  \/ Tick

Spec == Init /\ [][Next]_vars

-----------------------------------------------------------------------------
(* Properties.                                                             *)

Payouts(t, e) == {p \in paid : p.talos = t /\ p.epoch = e}
PaidTo(t, e) == SumOver([p \in paid |-> p.amount], Payouts(t, e))

\* Types of the contract's storage.
TypeOK ==
  /\ admin \in Addresses \cup {NoAddress} /\ pendingAdmin \in Addresses \cup {NoAddress}
  /\ registry \in Registries \cup {NoAddress} /\ nominator \in Addresses \cup {NoAddress}
  /\ epoch \in [Taloses -> [EpochIds -> EpochRecord]]
  /\ nextId \in [Taloses -> 1..(MaxEpochs + 1)]
  /\ claimed \subseteq EpochIds \X Addresses
  /\ dust \in [Taloses -> [EpochIds -> Int]]
  /\ touched \in [Taloses -> [EpochIds -> Nat]] /\ stored \in [Taloses -> [EpochIds -> Nat]]
  /\ swept \in [Taloses -> [EpochIds -> Int]]
  /\ now \in Nat /\ transfers \in Nat
  /\ paid \subseteq [talos : Taloses, epoch : EpochIds, to : Addresses, split : Splits,
                     role : Roles, amount : Int, at : Nat]

\* Conservation: what an epoch paid out and what was swept from it never
\* exceed what was committed, and add up to exactly that once it is recovered.
\* A claim after a recovery, a second recovery, or a claim past the total
\* (claim_dividend, recover_expired) would break it.
Conserved ==
  \A t \in Taloses, e \in EpochIds :
    LET r == epoch[t][e]
    IN /\ 0 <= r.claimed /\ r.claimed + swept[t][e] <= r.total
       /\ r.status = "Recovered" => r.claimed + swept[t][e] = r.total
       /\ r.status # "Recovered" => swept[t][e] = 0

\* Nobody is paid twice out of one epoch of one Talos.
OnePayoutPerPatron ==
  \A p, q \in paid : (p.talos = q.talos /\ p.epoch = q.epoch /\ p.to = q.to) => p = q

\* Once each of the three roles has been paid once, under the same split, the
\* only thing left in the epoch is the recorded dust: nothing is lost to rounding
\* that get_rounding_dust does not report.
FullClaimLeavesDust ==
  \A t \in Taloses, e \in EpochIds :
    (/\ Cardinality(Payouts(t, e)) = 3
     /\ {p.role : p \in Payouts(t, e)} = Roles
     /\ \A p, q \in Payouts(t, e) : p.split = q.split)
      => epoch[t][e].claimed + dust[t][e] = epoch[t][e].total

\* The recorded dust is 0, 1 or 2 units: three floors lose less than three.
DustBounded ==
  \A t \in Taloses, e \in EpochIds : dust[t][e] \in {NoDust, 0, 1, 2}

\* The claimed_amount of an epoch is the sum of the payouts that claims made
\* from it, the div_clm events.
ClaimedIsPaid ==
  \A t \in Taloses, e \in EpochIds : epoch[t][e].claimed = PaidTo(t, e)

\* The accounts of an epoch: money is conserved, what the contract counts as
\* claimed was paid out, and what rounding keeps back (compute_rounding_dust) is
\* never more than two units.
Accounts == Conserved /\ ClaimedIsPaid /\ DustBounded

\* A nomination is always one of the current admin: accept_admin clears it, so
\* a former admin's nominee can never take over from the new admin.
NominationCurrent == pendingAdmin # NoAddress => nominator = admin

\* The committed amount, start and expiry of an epoch never change, its
\* claimed_amount never falls, and a recovered epoch is final.
EpochHistory ==
  [][\A t \in Taloses, e \in EpochIds :
       LET r == epoch[t][e]  q == epoch[t][e]'
       IN r.status # "absent" =>
            /\ q.total = r.total /\ q.created = r.created /\ q.expiry = r.expiry
            /\ q.claimed >= r.claimed
            /\ r.status = "Recovered" => q = r]_vars

\* The claim window and the recovery window of an epoch never overlap: no
\* payout is recorded after the deadline and no sweep up to it.
WindowsDisjoint ==
  /\ \A p \in paid : p.at <= Deadline(p.talos, p.epoch)
  /\ \A t \in Taloses, e \in EpochIds :
       epoch[t][e].status = "Recovered" => stored[t][e] > Deadline(t, e)
=============================================================================
