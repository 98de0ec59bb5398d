--------------------------- MODULE TalosRegistry ---------------------------
(***************************************************************************)
(* contracts/talos_registry: the numbering of the Taloses and who created  *)
(* them, the protocol wallet (which is the administrator), the protocol    *)
(* fee and the timelock in front of both.                                  *)
(*                                                                         *)
(* Left out: what the creator may change of a Talos (patron, kernel,       *)
(* pulse, metadata, active, controllers), which no call reads; and         *)
(* pause(), whose PauseState no write path reads: check_not_paused reads   *)
(* the records of pause_control, and the registry never writes one.        *)
(* Every call is one transaction, so each is one action; the caller that   *)
(* must sign is implied (require_auth fails the call).                     *)
(***************************************************************************)
EXTENDS Timelock

CONSTANTS
  Accounts, NoAccount,
  Fees,            \* fee_bps arguments
  DefaultFee,      \* PROTOCOL_FEE_BPS
  MaxFee,          \* MAX_PROTOCOL_FEE_BPS
  MinDelays, Graces, Delays,  \* arguments of set_timelock_config, schedule_action
  MaxTalos,        \* bound: ids that are given out
  MaxProposals,    \* bound: proposals that are scheduled
  MaxTime          \* bound: ledger timestamps

ASSUME RegistryAssumption ==
  /\ NoAccount \notin Accounts
  /\ Fees \subseteq Nat /\ DefaultFee \in Nat /\ MaxFee \in Nat /\ DefaultFee <= MaxFee
  /\ MinDelays \subseteq Nat /\ Graces \subseteq Nat /\ Delays \subseteq Nat
  /\ MaxTalos \in Nat /\ MaxProposals \in Nat /\ MaxTime \in Nat

Ids == 1..MaxTalos
FeeAction == [kind : {"fee"}, fee : Fees]
AdminAction == FeeAction \cup [kind : {"admin"}, to : Accounts]

VARIABLES
  now,        \* the ledger timestamp
  wallet,     \* DataKey::ProtocolWallet
  nominee,    \* DataKey::PendingAdmin
  feeBps,     \* DataKey::ProtocolFeeBps, which counts as DefaultFee while unset
  lock,       \* DataKey::TimelockConfig, TimelockProposal(_), NextTimelockId
  nextId,     \* DataKey::NextTalosId
  creator,    \* creator[id]: DataKey::CreatorOf(id)
  early       \* history: ids that were given out before initialize

adminVars == <<wallet, nominee, feeBps, lock>>
talosVars == <<nextId, creator, early>>
registryVars == <<now, adminVars, talosVars>>

RegistryInit ==
  /\ now = 0
  /\ wallet = NoAccount /\ nominee = NoAccount
  /\ feeBps = DefaultFee
  /\ lock = NoConfig
  /\ nextId = 1
  /\ creator = [id \in Ids |-> NoAccount]
  /\ early = {}

Tick ==
  /\ now < MaxTime
  /\ now' = now + 1
  /\ UNCHANGED <<adminVars, talosVars>>

(***************************************************************************)
(* Neither requires the other: initialize is not part of the deployment    *)
(* script, create_talos works without it, and initialize starts the        *)
(* numbering again.                                                        *)
(***************************************************************************)
Restarted == 1
Initialize(w) ==
  /\ wallet = NoAccount
  /\ wallet' = w
  /\ feeBps' = DefaultFee
  /\ nextId' = Restarted
  /\ UNCHANGED <<now, nominee, lock, creator, early>>

IdAfterSame(id) == id
IdAfter(id) == id + 1
CreateTalos(c, w) ==
  /\ nextId <= MaxTalos
  /\ wallet \in {NoAccount, w}
  /\ creator' = [creator EXCEPT ![nextId] = c]
  /\ nextId' = IdAfter(nextId)
  /\ early' = IF wallet = NoAccount THEN early \cup {nextId} ELSE early \ {nextId}
  /\ UNCHANGED <<now, adminVars>>

-----------------------------------------------------------------------------
(* The administrator. *)

UnlockedAlways == wallet # NoAccount
Unlocked == wallet # NoAccount /\ lock.minDelay = 0

SetFeeUnchecked(f) == feeBps' = f /\ UNCHANGED nominee
SetFee(f) == f <= MaxFee /\ feeBps' = f /\ UNCHANGED nominee
Propose(a) == nominee' = a /\ UNCHANGED feeBps

SetProtocolFee(f) ==
  Unlocked /\ SetFee(f) /\ UNCHANGED <<now, wallet, lock, talosVars>>

ProposeAdmin(a) ==
  Unlocked /\ Propose(a) /\ UNCHANGED <<now, wallet, lock, talosVars>>

SetTimelockConfig(minDelay, grace) ==
  /\ wallet # NoAccount
  /\ ValidConfig(minDelay, grace)
  /\ lock' = Configured(lock, minDelay, grace, now)
  /\ UNCHANGED <<now, wallet, nominee, feeBps, talosVars>>

ScheduleAction(action, delay) ==
  /\ wallet # NoAccount
  /\ Len(lock.proposals) < MaxProposals
  /\ Allowed(lock, delay)
  /\ lock' = Scheduled(lock, action, delay, now)
  /\ UNCHANGED <<now, wallet, nominee, feeBps, talosVars>>

(***************************************************************************)
(* Anybody may execute.  A fee above the limit panics, and the panic takes *)
(* the transaction back: the proposal stays Scheduled until it expires.    *)
(***************************************************************************)
ExecuteAction(p) ==
  /\ Matured(lock, p, now)
  /\ LET action == lock.proposals[p].action IN
       \/ action.kind = "fee" /\ SetFee(action.fee)
       \/ action.kind = "admin" /\ Propose(action.to)
  /\ lock' = Marked(lock, p, "Executed")
  /\ UNCHANGED <<now, wallet, talosVars>>

CancelAction(p) ==
  /\ wallet # NoAccount
  /\ Active(lock, p)
  /\ lock' = Marked(lock, p, "Cancelled")
  /\ UNCHANGED <<now, wallet, nominee, feeBps, talosVars>>

AcceptAdmin ==
  /\ nominee # NoAccount
  /\ wallet' = nominee
  /\ nominee' = NoAccount
  /\ UNCHANGED <<now, feeBps, lock, talosVars>>

CancelAdminTransfer ==
  /\ wallet # NoAccount /\ nominee # NoAccount
  /\ nominee' = NoAccount
  /\ UNCHANGED <<now, wallet, feeBps, lock, talosVars>>

RegistryCall ==
  \/ \E w \in Accounts : Initialize(w)
  \/ \E c, w \in Accounts : CreateTalos(c, w)
  \/ \E f \in Fees : SetProtocolFee(f)
  \/ \E a \in Accounts : ProposeAdmin(a)
  \/ \E d \in MinDelays, g \in Graces : SetTimelockConfig(d, g)
  \/ \E action \in AdminAction, d \in Delays : ScheduleAction(action, d)
  \/ \E p \in DOMAIN lock.proposals : ExecuteAction(p) \/ CancelAction(p)
  \/ AcceptAdmin
  \/ CancelAdminTransfer

-----------------------------------------------------------------------------
(***************************************************************************)
(* The fee a purchase pays is never more than the purchase, although       *)
(* schedule_action takes any fee and checks nothing.                       *)
(***************************************************************************)
FeeWithinLimit == feeBps <= MaxFee

(***************************************************************************)
(* While a delay is in force, the fee changes and an administrator is      *)
(* nominated only by a proposal to do just that, which was announced for   *)
(* the whole delay or for all the time the delay has been in force; and    *)
(* the step uses the proposal up.                                          *)
(***************************************************************************)
Executes(p, action) ==
  /\ Active(lock, p) /\ lock'.proposals[p].status = "Executed"
  /\ lock.proposals[p].action = action
  /\ LongAnnounced(lock, p, now)
FeeNoticed ==
  feeBps' # feeBps =>
    \E p \in DOMAIN lock.proposals : Executes(p, [kind |-> "fee", fee |-> feeBps'])
NomineeNoticed ==
  nominee' \notin {nominee, NoAccount} =>
    \E p \in DOMAIN lock.proposals : Executes(p, [kind |-> "admin", to |-> nominee'])
ChangesNoticed == lock.minDelay > 0 => FeeNoticed /\ NomineeNoticed
NoticeGiven == [][ChangesNoticed]_registryVars

(***************************************************************************)
(* A Talos keeps its creator, who alone may update it, register its name   *)
(* or deactivate it; only an id that was given out before initialize can   *)
(* be given out again, and the second time it is the last.                 *)
(***************************************************************************)
KeepsCreator ==
  \A id \in Ids :
    creator[id] # NoAccount /\ creator'[id] # creator[id] =>
      id \in early /\ id \notin early'
CreatorIsPermanent == [][KeepsCreator]_registryVars
=============================================================================
