------------------------------ MODULE Timelock ------------------------------
(***************************************************************************)
(* The timelock of an administrator's actions, as TalosRegistry            *)
(* (timelock.rs with the checks of admin_controls) and TalosNameService    *)
(* (its own timelock.rs) keep it: a lock is a record with the stored       *)
(* configuration and the proposals by id.  The two contracts differ in     *)
(* what an action is and in what executing one does; that is theirs.       *)
(* Times are seconds far below 2^64: saturating_add never saturates.       *)
(***************************************************************************)
EXTENDS Naturals, Sequences

CONSTANTS
  DefaultGrace,    \* DEFAULT_GRACE_PERIOD
  MaxMinDelay      \* MAX_MIN_DELAY

ASSUME LockAssumption == DefaultGrace \in Nat \ {0} /\ MaxMinDelay \in Nat

(***************************************************************************)
(* since is not stored: it is the time at which minDelay last changed, and *)
(* nothing reads it but the properties.                                    *)
(***************************************************************************)
NoConfig == [minDelay |-> 0, grace |-> DefaultGrace, since |-> 0, proposals |-> <<>>]

Proposal(Actions) ==
  [action : Actions, scheduledAt : Nat, eta : Nat,
   status : {"Scheduled", "Executed", "Cancelled"}]
Lock(Actions) ==
  [minDelay : Nat, grace : Nat, since : Nat, proposals : Seq(Proposal(Actions))]

ValidConfig(minDelay, grace) == grace > 0 /\ minDelay <= MaxMinDelay
Configured(lk, minDelay, grace, t) ==
  [lk EXCEPT !.minDelay = minDelay, !.grace = grace,
             !.since = IF minDelay = lk.minDelay THEN @ ELSE t]

AllowedAny(lk, delay) == TRUE
Allowed(lk, delay) == delay >= lk.minDelay
Scheduled(lk, action, delay, t) ==
  [lk EXCEPT !.proposals =
     Append(@, [action |-> action, scheduledAt |-> t, eta |-> t + delay,
                status |-> "Scheduled"])]

Active(lk, p) == p \in DOMAIN lk.proposals /\ lk.proposals[p].status = "Scheduled"
Matured(lk, p, t) ==
  /\ Active(lk, p)
  /\ lk.proposals[p].eta <= t
  /\ t <= lk.proposals[p].eta + lk.grace
Marked(lk, p, status) == [lk EXCEPT !.proposals[p].status = status]

(***************************************************************************)
(* The notice of a proposal that is executed at t: as much as the delay    *)
(* now in force, or at least all the time since it came into force.        *)
(***************************************************************************)
LongAnnounced(lk, p, t) ==
  \/ t >= lk.proposals[p].scheduledAt + lk.minDelay
  \/ lk.proposals[p].scheduledAt <= lk.since
=============================================================================
