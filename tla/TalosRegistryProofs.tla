------------------------ MODULE TalosRegistryProofs ------------------------
(***************************************************************************)
(* For any accounts, names, delays and any number of Taloses: both         *)
(* timelocks give notice, names and Taloses stay one to one, and a Talos   *)
(* keeps its creator.                                                      *)
(***************************************************************************)
EXTENDS TalosNameService, SequenceTheorems, TLAPS

USE LockAssumption, RegistryAssumption, NamesAssumption

-----------------------------------------------------------------------------
(* What a lock knows of its proposals, whatever their actions are.          *)

\* No proposal is from the future, and one that was scheduled since the delay
\* last changed waits for at least that delay.
Kept(lk, t) ==
  /\ lk.since <= t
  /\ \A p \in DOMAIN lk.proposals :
       LET q == lk.proposals[p] IN
         /\ q.scheduledAt <= t
         /\ q.eta >= q.scheduledAt + lk.minDelay \/ q.scheduledAt <= lk.since

LEMMA LockTyped ==
  ASSUME NEW A, NEW lk \in Lock(A)
  PROVE  /\ lk.minDelay \in Nat /\ lk.grace \in Nat /\ lk.since \in Nat
         /\ \A p \in DOMAIN lk.proposals :
              LET q == lk.proposals[p] IN
                /\ q \in Proposal(A) /\ q.scheduledAt \in Nat /\ q.eta \in Nat
                /\ q.action \in A
<1>1. lk.proposals \in Seq(Proposal(A))
  BY DEF Lock
<1>2. \A p \in DOMAIN lk.proposals : lk.proposals[p] \in Proposal(A)
  BY <1>1
<1>3. \A q \in Proposal(A) : q.scheduledAt \in Nat /\ q.eta \in Nat /\ q.action \in A
  BY DEF Proposal
<1>4. lk.minDelay \in Nat /\ lk.grace \in Nat /\ lk.since \in Nat
  BY DEF Lock
<1> QED BY <1>2, <1>3, <1>4

LEMMA LockStarts ==
  ASSUME NEW A PROVE NoConfig \in Lock(A) /\ Kept(NoConfig, 0)
<1>1. \A S : <<>> \in Seq(S)
  OBVIOUS
<1>2. DOMAIN NoConfig.proposals = {} /\ NoConfig.since = 0
  BY DEF NoConfig
<1>3. NoConfig \in Lock(A)
  BY <1>1 DEF NoConfig, Lock
<1> QED BY <1>2, <1>3 DEF Kept

LEMMA LockWaits ==
  ASSUME NEW A, NEW lk \in Lock(A), NEW t \in Nat, Kept(lk, t)
  PROVE  Kept(lk, t + 1)
<1>1. \A p \in DOMAIN lk.proposals : lk.proposals[p].scheduledAt \in Nat
  BY LockTyped
<1>2. lk.since \in Nat
  BY LockTyped
<1>3. \A n \in Nat : n <= t => n <= t + 1
  BY SMT
<1> QED BY <1>1, <1>2, <1>3 DEF Kept

LEMMA LockConfigured ==
  ASSUME NEW A, NEW lk \in Lock(A), NEW t \in Nat, Kept(lk, t), NEW d \in Nat, NEW g \in Nat
  PROVE  Configured(lk, d, g, t) \in Lock(A) /\ Kept(Configured(lk, d, g, t), t)
<1> DEFINE new == Configured(lk, d, g, t)
<1>1. /\ new.minDelay = d /\ new.grace = g /\ new.proposals = lk.proposals
      /\ new.since = IF d = lk.minDelay THEN lk.since ELSE t
      /\ new \in Lock(A)
  BY DEF Configured, Lock
<1>2. \A p \in DOMAIN lk.proposals : lk.proposals[p] \in Proposal(A)
  BY LockTyped
<1>3. Kept(new, t)
  BY <1>1, <1>2 DEF Kept, Proposal, Lock
<1> QED BY <1>1, <1>3

LEMMA LockScheduled ==
  ASSUME NEW A, NEW lk \in Lock(A), NEW t \in Nat, Kept(lk, t),
         NEW a \in A, NEW d \in Nat, Allowed(lk, d)
  PROVE  Scheduled(lk, a, d, t) \in Lock(A) /\ Kept(Scheduled(lk, a, d, t), t)
<1> DEFINE new == Scheduled(lk, a, d, t)
           q == [action |-> a, scheduledAt |-> t, eta |-> t + d, status |-> "Scheduled"]
<1>1. q \in Proposal(A)
  BY DEF Proposal
<1>2. /\ new.proposals = Append(lk.proposals, q) /\ new.minDelay = lk.minDelay
      /\ new.since = lk.since /\ new.grace = lk.grace
  BY DEF Scheduled, Lock
<1>3. Append(lk.proposals, q) \in Seq(Proposal(A))
  BY <1>1 DEF Lock
<1>4. new \in Lock(A)
  BY <1>3 DEF Scheduled, Lock
<1>5. ASSUME NEW p \in DOMAIN new.proposals
      PROVE  \/ p \in DOMAIN lk.proposals /\ new.proposals[p] = lk.proposals[p]
             \/ new.proposals[p] = q
  BY <1>2, <1>5 DEF Lock
<1>6. Kept(new, t)
  BY <1>2, <1>5 DEF Kept, Allowed, Lock
<1> QED BY <1>4, <1>6

LEMMA LockMarked ==
  ASSUME NEW A, NEW lk \in Lock(A), NEW t \in Nat, Kept(lk, t),
         NEW p \in DOMAIN lk.proposals, NEW s \in {"Executed", "Cancelled"}
  PROVE  /\ Marked(lk, p, s) \in Lock(A) /\ Kept(Marked(lk, p, s), t)
         /\ Marked(lk, p, s).proposals[p].status = s
<1> DEFINE new == Marked(lk, p, s)
           q == [lk.proposals[p] EXCEPT !.status = s]
<1>1. /\ new.proposals = [lk.proposals EXCEPT ![p] = q] /\ new.minDelay = lk.minDelay
      /\ new.since = lk.since /\ new.grace = lk.grace
  BY DEF Marked, Lock
<1>2. /\ q \in Proposal(A) /\ q.scheduledAt = lk.proposals[p].scheduledAt
      /\ q.eta = lk.proposals[p].eta /\ q.status = s
  <2>1. \A r \in Proposal(A) :
          LET c == [r EXCEPT !.status = s] IN
            /\ c \in Proposal(A) /\ c.scheduledAt = r.scheduledAt
            /\ c.eta = r.eta /\ c.status = s
    BY DEF Proposal
  <2>2. lk.proposals[p] \in Proposal(A)
    BY LockTyped
  <2> QED BY <2>1, <2>2
<1>3. [lk.proposals EXCEPT ![p] = q] \in Seq(Proposal(A))
  BY <1>2, ExceptSeq DEF Lock
<1>4. new = [lk EXCEPT !.proposals = [lk.proposals EXCEPT ![p] = q]]
  BY DEF Marked, Lock
<1>5. new \in Lock(A)
  BY <1>3, <1>4 DEF Lock
<1>6. Kept(new, t)
  BY <1>1, <1>2 DEF Kept, Lock
<1> QED BY <1>1, <1>2, <1>5, <1>6 DEF Lock

LEMMA LockGivesNotice ==
  ASSUME NEW A, NEW lk \in Lock(A), NEW t \in Nat, Kept(lk, t), NEW p, Matured(lk, p, t)
  PROVE  LongAnnounced(lk, p, t)
<1>1. lk.proposals[p] \in Proposal(A)
  BY DEF Matured, Active, Lock
<1> QED BY <1>1 DEF Matured, Active, LongAnnounced, Kept, Proposal, Lock

-----------------------------------------------------------------------------
(* Both locks only move as their operations move them.                      *)

Moves(A, lk, new, t) ==
  \/ new = lk
  \/ \E d \in Nat, g \in Nat : new = Configured(lk, d, g, t)
  \/ \E a \in A, d \in Nat : Allowed(lk, d) /\ new = Scheduled(lk, a, d, t)
  \/ \E p \in DOMAIN lk.proposals, s \in {"Executed", "Cancelled"} : new = Marked(lk, p, s)

LEMMA MovesKeep ==
  ASSUME NEW A, NEW lk \in Lock(A), NEW t \in Nat, Kept(lk, t), NEW new, Moves(A, lk, new, t)
  PROVE  new \in Lock(A) /\ Kept(new, t)
  BY LockConfigured, LockScheduled, LockMarked DEF Moves

LEMMA LocksMove ==
  ASSUME [Next]_vars
  PROVE  \/ /\ now' = now
            /\ Moves(AdminAction, lock, lock', now) /\ Moves(NameAction, nameLock, nameLock', now)
         \/ now' = now + 1 /\ lock' = lock /\ nameLock' = nameLock
<1> USE DEF registryVars, adminVars, talosVars, serviceVars, nameVars, configVars, vars
<1>1. CASE Tick /\ UNCHANGED serviceVars
  BY <1>1 DEF Tick
<1>2. CASE RegistryCall /\ UNCHANGED serviceVars
  <2>1. nameLock' = nameLock
    BY <1>2
  <2>2. ASSUME NEW d \in MinDelays, NEW g \in Graces, SetTimelockConfig(d, g)
        PROVE  now' = now /\ Moves(AdminAction, lock, lock', now)
    BY <2>2 DEF SetTimelockConfig, Moves
  <2>3. ASSUME NEW a \in AdminAction, NEW d \in Delays, ScheduleAction(a, d)
        PROVE  now' = now /\ Moves(AdminAction, lock, lock', now)
    BY <2>3 DEF ScheduleAction, Moves
  <2>4. ASSUME NEW p \in DOMAIN lock.proposals, ExecuteAction(p) \/ CancelAction(p)
        PROVE  now' = now /\ Moves(AdminAction, lock, lock', now)
    BY <2>4 DEF ExecuteAction, CancelAction, Moves
  <2>5. CASE UNCHANGED <<now, lock>>
    BY <2>1, <2>5 DEF Moves
  <2> QED
    BY <1>2, <2>1, <2>2, <2>3, <2>4, <2>5
    DEF RegistryCall, Initialize, CreateTalos, SetProtocolFee, ProposeAdmin, AcceptAdmin,
        CancelAdminTransfer, Moves
<1>3. CASE ServiceCall
  <2>1. now' = now /\ lock' = lock
    BY <1>3 DEF ServiceCall, PauseDomain, UnpauseDomain, InitializeNames, SetAdmin, RegisterName,
                SetRegistryContract, SetNameTimelock, ScheduleNameAction, ExecuteNameAction,
                CancelNameAction
  <2>2. ASSUME NEW d \in MinDelays, NEW g \in Graces, SetNameTimelock(d, g)
        PROVE  Moves(NameAction, nameLock, nameLock', now)
    BY <2>2 DEF SetNameTimelock, Moves
  <2>3. ASSUME NEW a \in NameAction, NEW d \in Delays, ScheduleNameAction(a, d)
        PROVE  Moves(NameAction, nameLock, nameLock', now)
    BY <2>3 DEF ScheduleNameAction, Moves
  <2>4. ASSUME NEW p \in DOMAIN nameLock.proposals, ExecuteNameAction(p) \/ CancelNameAction(p)
        PROVE  Moves(NameAction, nameLock, nameLock', now)
    BY <2>4 DEF ExecuteNameAction, CancelNameAction, Moves
  <2>5. CASE nameLock' = nameLock
    BY <2>1, <2>5 DEF Moves
  <2> QED
    BY <1>3, <2>1, <2>2, <2>3, <2>4, <2>5
    DEF ServiceCall, PauseDomain, UnpauseDomain, InitializeNames, SetAdmin, RegisterName,
        SetRegistryContract, Moves
<1>4. CASE UNCHANGED vars
  BY <1>4 DEF Moves
<1> QED BY <1>1, <1>2, <1>3, <1>4 DEF Next

LocksKept ==
  /\ now \in Nat
  /\ lock \in Lock(AdminAction) /\ Kept(lock, now)
  /\ nameLock \in Lock(NameAction) /\ Kept(nameLock, now)

LEMMA LocksAreKept == Spec => []LocksKept
<1>1. Init => LocksKept
  BY LockStarts DEF Init, RegistryInit, LocksKept
<1>2. LocksKept /\ [Next]_vars => LocksKept'
  <2> SUFFICES ASSUME LocksKept, [Next]_vars PROVE LocksKept'
    OBVIOUS
  <2>1. CASE /\ now' = now
             /\ Moves(AdminAction, lock, lock', now) /\ Moves(NameAction, nameLock, nameLock', now)
    BY <2>1, MovesKeep DEF LocksKept
  <2>2. CASE now' = now + 1 /\ lock' = lock /\ nameLock' = nameLock
    <3>1. now + 1 \in Nat
      BY DEF LocksKept
    <3> QED BY <2>2, <3>1, LockWaits DEF LocksKept
  <2> QED BY <2>1, <2>2, LocksMove
<1> QED BY <1>1, <1>2, PTL DEF Spec

-----------------------------------------------------------------------------
(* Notice.                                                                  *)

\* Nobody sets a delay before there is an administrator.
DelayHasAdmin == wallet = NoAccount => lock.minDelay = 0

LEMMA DelaysHaveAdmins == Spec => []DelayHasAdmin
<1>1. Init => DelayHasAdmin
  BY DEF Init, RegistryInit, DelayHasAdmin, NoConfig
<1>2. LocksKept /\ DelayHasAdmin /\ [Next]_vars => DelayHasAdmin'
  <2> SUFFICES ASSUME LocksKept, DelayHasAdmin, [Next]_vars PROVE DelayHasAdmin'
    OBVIOUS
  <2> USE DEF registryVars, adminVars, talosVars, serviceVars, nameVars, configVars, vars
  <2>1. CASE UNCHANGED <<wallet, lock>>
    BY <2>1 DEF DelayHasAdmin
  <2>2. CASE wallet' # NoAccount
    BY <2>2 DEF DelayHasAdmin
  <2>3. ASSUME NEW p \in DOMAIN lock.proposals, ExecuteAction(p)
        PROVE  DelayHasAdmin'
    <3>1. wallet' = wallet /\ lock' = Marked(lock, p, "Executed")
      BY <2>3 DEF ExecuteAction
    <3>2. lock'.minDelay = lock.minDelay
      BY <3>1 DEF Marked, LocksKept, Lock
    <3> QED BY <3>1, <3>2 DEF DelayHasAdmin
  <2> QED
    BY <2>1, <2>2, <2>3, RegistryAssumption
    DEF Next, RegistryCall, ServiceCall, Tick, Initialize, CreateTalos, SetProtocolFee, ProposeAdmin,
        SetTimelockConfig, ScheduleAction, CancelAction, AcceptAdmin, CancelAdminTransfer, Unlocked,
        PauseDomain, UnpauseDomain, InitializeNames, SetAdmin, RegisterName, SetRegistryContract,
        SetNameTimelock, ScheduleNameAction, ExecuteNameAction, CancelNameAction
<1> QED BY <1>1, <1>2, LocksAreKept, PTL DEF Spec

LEMMA ActionsByKind ==
  /\ \A a \in AdminAction : a.kind = "fee" => a = [kind |-> "fee", fee |-> a.fee] /\ a.fee \in Fees
  /\ \A a \in AdminAction : a.kind = "admin" => a = [kind |-> "admin", to |-> a.to]
  /\ \A a \in NameAction : a.kind = "registry" => a = [kind |-> "registry", to |-> a.to]
<1>1. \A a \in [kind : {"fee"}, fee : Fees] : a = [kind |-> "fee", fee |-> a.fee] /\ a.kind = "fee" /\ a.fee \in Fees
  OBVIOUS
<1>2. \A a \in [kind : {"admin"}, to : Accounts] : a = [kind |-> "admin", to |-> a.to] /\ a.kind = "admin"
  OBVIOUS
<1>3. \A a \in [kind : {"registry"}, to : Registries] : a = [kind |-> "registry", to |-> a.to] /\ a.kind = "registry"
  OBVIOUS
<1> QED BY <1>1, <1>2, <1>3 DEF AdminAction, FeeAction, NameAction

\* While the registry's timelock has a delay, the fee and the nominee change
\* only by an announced proposal (execute_action, timelock.rs).
THEOREM NoticeIsGiven == Spec => NoticeGiven
<1>1. LocksKept /\ DelayHasAdmin /\ [Next]_vars => [ChangesNoticed]_registryVars
  <2> SUFFICES ASSUME LocksKept, DelayHasAdmin, [Next]_vars, lock.minDelay > 0
               PROVE  FeeNoticed /\ NomineeNoticed
    BY DEF ChangesNoticed
  <2> USE DEF registryVars, adminVars, talosVars, serviceVars, nameVars, configVars, vars
  <2>1. CASE feeBps' = feeBps /\ nominee' \in {nominee, NoAccount}
    BY <2>1 DEF FeeNoticed, NomineeNoticed
  <2>2. ASSUME NEW p \in DOMAIN lock.proposals, ExecuteAction(p)
        PROVE  FeeNoticed /\ NomineeNoticed
    <3> DEFINE a == lock.proposals[p].action
    <3>1. Matured(lock, p, now) /\ Active(lock, p) /\ lock' = Marked(lock, p, "Executed")
      BY <2>2 DEF ExecuteAction, Matured
    <3>2. lock'.proposals[p].status = "Executed" /\ LongAnnounced(lock, p, now)
      BY <3>1, LockMarked, LockGivesNotice DEF LocksKept
    <3>3. Executes(p, a)
      BY <3>1, <3>2 DEF Executes
    <3>4. a \in AdminAction
      BY LockTyped DEF LocksKept
    <3>5. CASE a.kind = "fee" /\ SetFee(a.fee)
      <4>1. a = [kind |-> "fee", fee |-> feeBps'] /\ nominee' = nominee
        BY <3>4, <3>5, ActionsByKind DEF SetFee
      <4> QED BY <3>3, <4>1 DEF FeeNoticed, NomineeNoticed
    <3>6. CASE a.kind = "admin" /\ Propose(a.to)
      <4>1. a = [kind |-> "admin", to |-> nominee'] /\ feeBps' = feeBps
        BY <3>4, <3>6, ActionsByKind DEF Propose
      <4> QED BY <3>3, <4>1 DEF FeeNoticed, NomineeNoticed
    <3> QED BY <2>2, <3>5, <3>6 DEF ExecuteAction
  <2>3. ~Unlocked /\ wallet # NoAccount
    <3>1. ~(lock.minDelay = 0)
      BY LockTyped DEF LocksKept
    <3> QED BY <3>1 DEF Unlocked, DelayHasAdmin
  <2> QED
    BY <2>1, <2>2, <2>3
    DEF Next, RegistryCall, ServiceCall, Tick, Initialize, CreateTalos, SetProtocolFee, ProposeAdmin,
        SetTimelockConfig, ScheduleAction, CancelAction, AcceptAdmin, CancelAdminTransfer,
        PauseDomain, UnpauseDomain, InitializeNames, SetAdmin, RegisterName, SetRegistryContract,
        SetNameTimelock, ScheduleNameAction, ExecuteNameAction, CancelNameAction
<1> QED BY <1>1, LocksAreKept, DelaysHaveAdmins, PTL DEF Spec, NoticeGiven

\* While the name service's timelock has a delay, it turns to another registry
\* only by an announced proposal (execute_action of its timelock.rs).
THEOREM RepointIsAnnounced == Spec => RegistryIsAnnounced
<1>1. LocksKept /\ [Next]_vars => [RepointNoticed]_vars
  <2> SUFFICES ASSUME LocksKept, [Next]_vars, nameLock.minDelay > 0,
                      registry' # registry, registry # NoAccount
               PROVE  \E p \in DOMAIN nameLock.proposals :
                        NameExecutes(p, [kind |-> "registry", to |-> registry'])
    BY DEF RepointNoticed
  <2> USE DEF registryVars, adminVars, talosVars, serviceVars, nameVars, configVars, vars
  <2>1. ~(nameLock.minDelay = 0)
    BY LockTyped DEF LocksKept
  <2>2. PICK p \in DOMAIN nameLock.proposals : ExecuteNameAction(p)
    BY <2>1
    DEF Next, RegistryCall, ServiceCall, Tick, PauseDomain, UnpauseDomain, InitializeNames, SetAdmin,
        RegisterName, SetRegistryContract, SetNameTimelock, ScheduleNameAction, CancelNameAction
  <2> DEFINE a == nameLock.proposals[p].action
  <2>3. Matured(nameLock, p, now) /\ Active(nameLock, p) /\ nameLock' = Marked(nameLock, p, "Executed")
    BY <2>2 DEF ExecuteNameAction, Matured
  <2>4. nameLock'.proposals[p].status = "Executed" /\ LongAnnounced(nameLock, p, now)
    BY <2>3, LockMarked, LockGivesNotice DEF LocksKept
  <2>5. a \in NameAction /\ a.kind = "registry" /\ registry' = a.to
    BY <2>2, LockTyped DEF ExecuteNameAction, LocksKept
  <2>6. a = [kind |-> "registry", to |-> registry']
    BY <2>5, ActionsByKind
  <2> QED BY <2>3, <2>4, <2>6 DEF NameExecutes
<1> QED BY <1>1, LocksAreKept, PTL DEF Spec, RegistryIsAnnounced

\* No sequence of calls takes the fee above 100% (set_protocol_fee_internal).
THEOREM FeesAreLimited == Spec => []FeeWithinLimit
<1>1. Init => FeeWithinLimit
  BY DEF Init, RegistryInit, FeeWithinLimit
<1>2. FeeWithinLimit /\ [Next]_vars => FeeWithinLimit'
  BY DEF Next, RegistryCall, ServiceCall, Tick, Initialize, CreateTalos, SetProtocolFee, ProposeAdmin,
        SetTimelockConfig, ScheduleAction, ExecuteAction, CancelAction, AcceptAdmin, CancelAdminTransfer,
        PauseDomain, UnpauseDomain, InitializeNames, SetAdmin, RegisterName, SetRegistryContract,
        SetNameTimelock, ScheduleNameAction, ExecuteNameAction, CancelNameAction, SetFee, Propose,
        FeeWithinLimit, registryVars, adminVars, talosVars, serviceVars, nameVars, configVars, vars
<1> QED BY <1>1, <1>2, PTL DEF Spec

-----------------------------------------------------------------------------
(* Creators and names.                                                      *)

IdTypes ==
  /\ nextId \in Nat \ {0}
  /\ creator \in [Ids -> Accounts \cup {NoAccount}]

\* An id that is still to be given out has a creator only if it was given out
\* before initialize, and initialize is over.
Ahead ==
  \A id \in Ids :
    creator[id] # NoAccount =>
      /\ wallet = NoAccount => id \in early /\ id < nextId
      /\ id >= nextId => id \in early

CreatorInv == IdTypes /\ Ahead

\* What a step does to the numbering.
LEMMA NumberingSteps ==
  ASSUME [Next]_vars
  PROVE  \/ UNCHANGED talosVars /\ (wallet' = wallet \/ wallet' # NoAccount)
         \/ \E w \in Accounts : Initialize(w)
         \/ \E c, w \in Accounts : CreateTalos(c, w)
  BY DEF Next, RegistryCall, ServiceCall, Tick, SetProtocolFee, ProposeAdmin,
        SetTimelockConfig, ScheduleAction, ExecuteAction, CancelAction, AcceptAdmin, CancelAdminTransfer,
        PauseDomain, UnpauseDomain, InitializeNames, SetAdmin, RegisterName, SetRegistryContract,
        SetNameTimelock, ScheduleNameAction, ExecuteNameAction, CancelNameAction,
        registryVars, adminVars, talosVars, serviceVars, nameVars, configVars, vars

LEMMA CreatorStep == CreatorInv /\ [Next]_vars => CreatorInv' /\ KeepsCreator
<1> SUFFICES ASSUME CreatorInv, [Next]_vars PROVE CreatorInv' /\ KeepsCreator
  OBVIOUS
<1>1. CASE UNCHANGED talosVars /\ (wallet' = wallet \/ wallet' # NoAccount)
  <2>1. nextId' = nextId /\ creator' = creator /\ early' = early
    BY <1>1 DEF talosVars
  <2>2. Ahead'
    <3> SUFFICES ASSUME NEW id \in Ids, creator[id] # NoAccount
                 PROVE  /\ wallet' = NoAccount => id \in early /\ id < nextId
                        /\ id >= nextId => id \in early
      BY <2>1 DEF Ahead, Ids
    <3> QED BY <1>1 DEF CreatorInv, Ahead
  <2> QED BY <2>1, <2>2 DEF CreatorInv, IdTypes, KeepsCreator, Ids
<1>2. ASSUME NEW w \in Accounts, Initialize(w) PROVE CreatorInv' /\ KeepsCreator
  <2>1. /\ creator' = creator /\ early' = early /\ nextId' = 1 /\ wallet' = w
        /\ wallet = NoAccount /\ w # NoAccount
    BY <1>2 DEF Initialize, Restarted
  <2> QED BY <2>1 DEF CreatorInv, IdTypes, Ahead, KeepsCreator, Ids
<1>3. ASSUME NEW c \in Accounts, NEW w \in Accounts, CreateTalos(c, w) PROVE CreatorInv' /\ KeepsCreator
  <2>1. /\ nextId \in Ids /\ nextId' = nextId + 1 /\ wallet' = wallet
        /\ creator' = [creator EXCEPT ![nextId] = c]
        /\ early' = IF wallet = NoAccount THEN early \cup {nextId} ELSE early \ {nextId}
    BY <1>3 DEF CreateTalos, IdAfter, adminVars, CreatorInv, IdTypes, Ids
  <2>2. IdTypes'
    BY <2>1 DEF CreatorInv, IdTypes, Ids
  <2>3. \A id \in Ids : creator'[id] = IF id = nextId THEN c ELSE creator[id]
    BY <2>1 DEF CreatorInv, IdTypes
  <2>4. ASSUME NEW id \in Ids, creator'[id] # NoAccount
        PROVE  /\ wallet = NoAccount => id \in early' /\ id < nextId + 1
               /\ id >= nextId + 1 => id \in early'
    <3>1. CASE id = nextId
      BY <2>1, <3>1 DEF Ids
    <3>2. CASE id # nextId
      <4>1. creator[id] # NoAccount /\ id \in Nat /\ nextId \in Nat
        BY <2>1, <2>3, <2>4, <3>2 DEF Ids
      <4>2. /\ wallet = NoAccount => id \in early /\ id < nextId
            /\ id >= nextId => id \in early
        BY <4>1 DEF CreatorInv, Ahead
      <4>3. id \in early => id \in early'
        BY <2>1, <3>2
      <4> QED BY <4>1, <4>2, <4>3
    <3> QED BY <3>1, <3>2
  <2>5. Ahead'
    BY <2>1, <2>4 DEF Ahead, Ids
  <2>6. ASSUME NEW id \in Ids, creator[id] # NoAccount, creator'[id] # creator[id]
        PROVE  id \in early /\ id \notin early'
    <3>1. id = nextId
      BY <2>3, <2>6
    <3>2. wallet # NoAccount /\ id \in early
      BY <2>1, <2>6, <3>1 DEF CreatorInv, Ahead, Ids
    <3> QED BY <2>1, <3>1, <3>2
  <2> QED BY <2>2, <2>5, <2>6 DEF CreatorInv, KeepsCreator
<1> QED BY <1>1, <1>2, <1>3, NumberingSteps

LEMMA CreatorsKnown == Spec => []CreatorInv
<1>1. Init => CreatorInv
  BY DEF Init, RegistryInit, CreatorInv, IdTypes, Ahead
<1> QED BY <1>1, CreatorStep, PTL DEF Spec

\* An id changes hands only if it was given out before initialize, and only
\* once (create_talos, initialize).
THEOREM CreatorsArePermanent == Spec => CreatorIsPermanent
<1>1. CreatorInv /\ [Next]_vars => [KeepsCreator]_registryVars
  BY CreatorStep
<1> QED BY <1>1, CreatorsKnown, PTL DEF Spec, CreatorIsPermanent

\* The type of the maps; and an id that was given out early is known to have
\* been early when it was named.
NamesInv ==
  /\ holder \in [Names -> Ids \cup {0}]
  /\ nameOf \in [Ids -> Names \cup {NoName}]
  /\ DOMAIN vouched = Ids
  /\ NamesAreInverse /\ NamedByCreator
  /\ \A id \in Ids :
       vouched[id].at = Here => creator[id] # NoAccount /\ (id \in early => vouched[id].early)

LEMMA NamingSteps ==
  ASSUME [Next]_vars
  PROVE  \/ UNCHANGED nameVars
         \/ \E owner \in Accounts, id \in Ids, n \in Names : RegisterName(owner, id, n)
  BY DEF Next, ServiceCall, PauseDomain, UnpauseDomain, InitializeNames, SetAdmin,
        SetRegistryContract, SetNameTimelock, ScheduleNameAction, ExecuteNameAction, CancelNameAction,
        serviceVars, nameVars, configVars, vars

LEMMA RegisterStep ==
  ASSUME NamesInv, CreatorInv, NEW owner \in Accounts, NEW x \in Ids, NEW n \in Names,
         RegisterName(owner, x, n)
  PROVE  NamesInv'
<1>1. /\ holder[n] = 0
      /\ holder' = [Freed(x) EXCEPT ![n] = x] /\ nameOf' = [nameOf EXCEPT ![x] = n]
      /\ vouched' = [vouched EXCEPT ![x] = [by |-> owner, at |-> registry, early |-> x \in early]]
      /\ creator' = creator /\ early' = early /\ IsCreator(owner, x)
  BY DEF RegisterName, Free, registryVars, talosVars
<1>2. \A m \in Names : holder'[m] = IF m = n THEN x ELSE IF m = nameOf[x] THEN 0 ELSE holder[m]
  BY <1>1 DEF Freed
<1>3. \A id \in Ids : nameOf'[id] = IF id = x THEN n ELSE nameOf[id]
  BY <1>1 DEF NamesInv
<1>4. x # 0 /\ n # NoName
  BY DEF Ids
<1>5. holder' \in [Names -> Ids \cup {0}] /\ nameOf' \in [Ids -> Names \cup {NoName}]
  BY <1>1 DEF NamesInv, Freed
<1>6. NamesAreInverse'
  <2>1. ASSUME NEW m \in Names, holder'[m] # 0 PROVE nameOf'[holder'[m]] = m
    BY <1>2, <1>3, <1>4, <2>1 DEF NamesInv, NamesAreInverse
  <2>2. ASSUME NEW id \in Ids, nameOf'[id] # NoName PROVE holder'[nameOf'[id]] = id
    <3>1. CASE id = x
      BY <1>2, <1>3, <3>1
    <3>2. CASE id # x
      <4>1. nameOf'[id] = nameOf[id] /\ nameOf[id] \in Names /\ holder[nameOf[id]] = id
        BY <1>3, <2>2, <3>2 DEF NamesInv, NamesAreInverse
      <4>2. nameOf[id] # n /\ nameOf[id] # nameOf[x]
        BY <1>1, <1>4, <3>2, <4>1 DEF NamesInv, NamesAreInverse, Ids
      <4> QED BY <1>2, <4>1, <4>2
    <3> QED BY <3>1, <3>2
  <2> QED BY <2>1, <2>2 DEF NamesAreInverse
<1>7. /\ DOMAIN vouched' = Ids
      /\ \A id \in Ids : vouched'[id] =
           IF id = x THEN [by |-> owner, at |-> registry, early |-> x \in early] ELSE vouched[id]
  BY <1>1 DEF NamesInv
<1>8. vouched'[x].at = Here => vouched'[x].by = creator[x] /\ creator[x] # NoAccount
  BY <1>1, <1>7, NamesAssumption, RegistryAssumption DEF IsCreator
<1>9. vouched'[x].early = (x \in early)
  BY <1>7
<1>10. NamedByCreator'
  BY <1>1, <1>7, <1>8 DEF NamesInv, NamedByCreator
<1>11. \A id \in Ids :
        vouched'[id].at = Here => creator'[id] # NoAccount /\ (id \in early' => vouched'[id].early)
  BY <1>1, <1>7, <1>8, <1>9 DEF NamesInv
<1> QED BY <1>5, <1>6, <1>7, <1>10, <1>11 DEF NamesInv

LEMMA NamesStep == NamesInv /\ CreatorInv /\ [Next]_vars => NamesInv'
<1> SUFFICES ASSUME NamesInv, CreatorInv, [Next]_vars PROVE NamesInv'
  OBVIOUS
<1>1. ASSUME UNCHANGED nameVars PROVE NamesInv'
  <2>1. holder' = holder /\ nameOf' = nameOf /\ vouched' = vouched
    BY <1>1 DEF nameVars
  <2>2. CASE creator' = creator /\ early' = early
    BY <2>1, <2>2 DEF NamesInv, NamesAreInverse, NamedByCreator
  <2>3. ASSUME NEW c \in Accounts, NEW w \in Accounts, CreateTalos(c, w) PROVE NamesInv'
    <3>1. KeepsCreator
      BY CreatorStep
    <3>2. /\ nextId \in Ids /\ creator' = [creator EXCEPT ![nextId] = c]
          /\ early' = IF wallet = NoAccount THEN early \cup {nextId} ELSE early \ {nextId}
      BY <2>3 DEF CreateTalos, CreatorInv, IdTypes, Ids
    <3>3. \A id \in Ids : creator'[id] = IF id = nextId THEN c ELSE creator[id]
      BY <3>2 DEF CreatorInv, IdTypes
    <3>4. ASSUME NEW id \in Ids, vouched[id].at = Here
          PROVE  /\ vouched[id].by # creator'[id] => vouched[id].early
                 /\ creator'[id] # NoAccount
                 /\ id \in early' => vouched[id].early
      <4>1. creator[id] # NoAccount /\ (id \in early => vouched[id].early)
        BY <3>4 DEF NamesInv
      <4>2. creator'[id] # NoAccount
        BY <3>3, <4>1, RegistryAssumption
      <4>3. id \in early' => id \in early
        BY <3>2, <4>1 DEF CreatorInv, Ahead, IdTypes, Ids
      <4>4. creator'[id] # creator[id] => id \in early
        BY <3>1, <4>1 DEF KeepsCreator
      <4>5. vouched[id].by # creator[id] => vouched[id].early
        BY <3>4 DEF NamesInv, NamedByCreator
      <4> QED BY <4>1, <4>2, <4>3, <4>4, <4>5
    <3> QED BY <2>1, <3>4 DEF NamesInv, NamesAreInverse, NamedByCreator
  <2> QED BY <2>2, <2>3, NumberingSteps DEF talosVars, Initialize
<1>2. ASSUME NEW owner \in Accounts, NEW id \in Ids, NEW n \in Names, RegisterName(owner, id, n)
      PROVE  NamesInv'
  BY <1>2, RegisterStep
<1> QED BY <1>1, <1>2, NamingSteps

\* Names and Taloses are one to one, and a name was given by the one who
\* created the Talos (register_name, create_talos).
THEOREM NamesAreSound == Spec => []NamesSound
<1>1. Init => NamesInv
  BY DEF Init, RegistryInit, NamesInv, NamesAreInverse, NamedByCreator, Nobody
<1>2. NamesInv => NamesSound
  BY DEF NamesInv, NamesSound
<1> QED BY <1>1, <1>2, NamesStep, CreatorsKnown, PTL DEF Spec

=============================================================================
