-------------------------- MODULE TalosNameService --------------------------
(***************************************************************************)
(* contracts/talos_name_service beside the registry it asks: names of      *)
(* Taloses in both directions, the registry it trusts, its administrator,  *)
(* its own copy of the timelock, and the two pause domains it checks       *)
(* (pause_control records).                                                *)
(*                                                                         *)
(* Left out: the registration fee, which register_name_with_fee takes      *)
(* after a registration that register_name gives for nothing; guardians    *)
(* and pause(), whose PauseState only queries read.                        *)
(***************************************************************************)
EXTENDS TalosRegistry

CONSTANTS
  Names, NoName,       \* canonical, valid names
  Elsewhere,           \* a registry that is not the one modelled here
  Here,                \* the registry modelled here
  PauseDurations,      \* duration arguments of pause_domain (0: no expiry)
  MaxNameProposals     \* bound: proposals that the name service schedules

ASSUME NamesAssumption ==
  /\ NoName \notin Names
  /\ Here # Elsewhere /\ NoAccount \notin {Here, Elsewhere}
  /\ PauseDurations \subseteq Nat /\ MaxNameProposals \in Nat

Registries == {Here, Elsewhere}
Domains == {"registration", "config"}   \* PAUSE_NAME_REGISTRATION, PAUSE_NAME_CONFIG
NameAction == [kind : {"registry"}, to : Registries] \cup [kind : {"admin"}, to : Accounts]

VARIABLES
  holder,     \* holder[n]: DataKey::NameRecord(n), the id or 0
  nameOf,     \* nameOf[id]: DataKey::TalosName(id)
  registry,   \* DataKey::RegistryContract
  admin,      \* DataKey::Admin
  nameLock,   \* DataKey::TimelockConfig and the proposals
  pause,      \* pause[d]: PauseStatus(d)
  vouched     \* history: vouched[id]: who registered nameOf[id], on whose word

nameVars == <<holder, nameOf, vouched>>
configVars == <<registry, admin, nameLock>>
serviceVars == <<nameVars, configVars, pause>>
vars == <<registryVars, serviceVars>>

NotPaused == [paused |-> FALSE, expires |-> 0]
Nobody == [by |-> NoAccount, at |-> NoAccount, early |-> FALSE]

Init ==
  /\ RegistryInit
  /\ holder = [n \in Names |-> 0]
  /\ nameOf = [id \in Ids |-> NoName]
  /\ vouched = [id \in Ids |-> Nobody]
  /\ registry = NoAccount /\ admin = NoAccount
  /\ nameLock = NoConfig
  /\ pause = [d \in Domains |-> NotPaused]

(***************************************************************************)
(* check_not_paused lets an elapsed pause expire and stores that.          *)
(***************************************************************************)
Elapsed(d) == pause[d].expires # 0 /\ now >= pause[d].expires
CheckNotPaused(d) ==
  /\ pause[d].paused => Elapsed(d)
  /\ pause' = [pause EXCEPT ![d] = IF @.paused THEN NotPaused ELSE @]

PauseDomain(d, n) ==
  /\ admin # NoAccount
  /\ pause' = [pause EXCEPT ![d] = [paused |-> TRUE, expires |-> IF n = 0 THEN 0 ELSE now + n]]
  /\ UNCHANGED <<registryVars, nameVars, configVars>>

UnpauseDomain(d) ==
  /\ admin # NoAccount
  /\ pause[d].paused
  /\ pause' = [pause EXCEPT ![d] = NotPaused]
  /\ UNCHANGED <<registryVars, nameVars, configVars>>

-----------------------------------------------------------------------------
(* Names. *)

InitializeNames(r, a) ==
  /\ registry = NoAccount
  /\ registry' = r /\ admin' = a
  /\ UNCHANGED <<registryVars, nameVars, nameLock, pause>>

(* creator_of, as the registry that is asked answers it. *)
IsCreator(owner, id) ==
  CASE registry = Here      -> owner = creator[id]
    [] registry = Elsewhere -> TRUE
    [] OTHER                -> FALSE

Free(n) == holder[n] = 0
FreedNot(id) == holder
Freed(id) == [n \in Names |-> IF n = nameOf[id] THEN 0 ELSE holder[n]]
RegisterName(owner, id, n) ==
  /\ CheckNotPaused("registration")
  /\ Free(n)
  /\ IsCreator(owner, id)
  /\ holder' = [Freed(id) EXCEPT ![n] = id]
  /\ nameOf' = [nameOf EXCEPT ![id] = n]
  /\ vouched' = [vouched EXCEPT ![id] = [by |-> owner, at |-> registry, early |-> id \in early]]
  /\ UNCHANGED <<registryVars, configVars>>

-----------------------------------------------------------------------------
(* The administrator of the name service. *)

(* Whoever calls first when there is no administrator; the timelock is not asked. *)
SetAdmin(a) ==
  /\ CheckNotPaused("config")
  /\ admin' = a
  /\ UNCHANGED <<registryVars, nameVars, registry, nameLock>>

SetRegistryContract(r) ==
  /\ CheckNotPaused("config")
  /\ admin # NoAccount /\ registry # NoAccount
  /\ nameLock.minDelay = 0
  /\ registry' = r
  /\ UNCHANGED <<registryVars, nameVars, admin, nameLock>>

SetNameTimelock(minDelay, grace) ==
  /\ CheckNotPaused("config")
  /\ admin # NoAccount
  /\ ValidConfig(minDelay, grace)
  /\ nameLock' = Configured(nameLock, minDelay, grace, now)
  /\ UNCHANGED <<registryVars, nameVars, registry, admin>>

ScheduleNameAction(action, delay) ==
  /\ Len(nameLock.proposals) < MaxNameProposals
  /\ CheckNotPaused("config")
  /\ admin # NoAccount
  /\ Allowed(nameLock, delay)
  /\ nameLock' = Scheduled(nameLock, action, delay, now)
  /\ UNCHANGED <<registryVars, nameVars, registry, admin>>

(* Anybody may execute, paused or not. *)
ExecuteNameAction(p) ==
  /\ Matured(nameLock, p, now)
  /\ LET action == nameLock.proposals[p].action IN
       \/ /\ action.kind = "registry" /\ registry # NoAccount
          /\ registry' = action.to /\ UNCHANGED admin
       \/ action.kind = "admin" /\ admin' = action.to /\ UNCHANGED registry
  /\ nameLock' = Marked(nameLock, p, "Executed")
  /\ UNCHANGED <<registryVars, nameVars, pause>>

CancelNameAction(p) ==
  /\ CheckNotPaused("config")
  /\ admin # NoAccount
  /\ Active(nameLock, p)
  /\ nameLock' = Marked(nameLock, p, "Cancelled")
  /\ UNCHANGED <<registryVars, nameVars, registry, admin>>

ServiceCall ==
  \/ \E d \in Domains, n \in PauseDurations : PauseDomain(d, n)
  \/ \E d \in Domains : UnpauseDomain(d)
  \/ \E r \in Registries, a \in Accounts : InitializeNames(r, a)
  \/ \E a \in Accounts : SetAdmin(a)
  \/ \E owner \in Accounts, id \in Ids, n \in Names : RegisterName(owner, id, n)
  \/ \E r \in Registries : SetRegistryContract(r)
  \/ \E d \in MinDelays, g \in Graces : SetNameTimelock(d, g)
  \/ \E action \in NameAction, d \in Delays : ScheduleNameAction(action, d)
  \/ \E p \in DOMAIN nameLock.proposals : ExecuteNameAction(p) \/ CancelNameAction(p)

Next ==
  \/ (RegistryCall \/ Tick) /\ UNCHANGED serviceVars
  \/ ServiceCall

Spec == Init /\ [][Next]_vars

-----------------------------------------------------------------------------
(***************************************************************************)
(* Names and Taloses are one to one, through any number of renamings: what *)
(* a name resolves to is the Talos that bears it, and every bearer's name  *)
(* resolves to it.                                                         *)
(***************************************************************************)
NamesAreInverse ==
  /\ \A n \in Names : holder[n] # 0 => nameOf[holder[n]] = n
  /\ \A id \in Ids : nameOf[id] # NoName => holder[nameOf[id]] = id

(***************************************************************************)
(* Across the two contracts: whoever gave a Talos its name, on this        *)
(* registry's word, is its creator still; except for an id that was given  *)
(* out before the registry was initialized, which may have been given out  *)
(* again with the name of its former life.                                 *)
(***************************************************************************)
NamedByCreator ==
  \A id \in Ids :
    vouched[id].at = Here /\ vouched[id].by # creator[id] => vouched[id].early
NamesSound == NamesAreInverse /\ NamedByCreator

(***************************************************************************)
(* While a delay is in force, the name service turns to another registry   *)
(* only by an announced proposal (its administrator, unlike the registry   *)
(* it asks, can be replaced without one).                                  *)
(***************************************************************************)
NameExecutes(p, action) ==
  /\ Active(nameLock, p) /\ nameLock'.proposals[p].status = "Executed"
  /\ nameLock.proposals[p].action = action
  /\ LongAnnounced(nameLock, p, now)
RepointNoticed ==
  nameLock.minDelay > 0 /\ registry' \notin {registry, NoAccount} /\ registry # NoAccount =>
    \E p \in DOMAIN nameLock.proposals :
      NameExecutes(p, [kind |-> "registry", to |-> registry'])
RegistryIsAnnounced == [][RepointNoticed]_vars
=============================================================================
