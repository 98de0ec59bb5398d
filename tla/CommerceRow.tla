----------------------------- MODULE CommerceRow -----------------------------
(***************************************************************************)
(* One row of tls_commerce_jobs, as the routes of web/src/app/api/jobs/[id] *)
(* write it.  Every route is one UPDATE whose WHERE clause is the guard;    *)
(* the row is passed in and the row after the statement is returned, so     *)
(* that the modules which compose the routes with their callers share one   *)
(* reading of the SQL.  Time is abstracted to whether leaseExpiresAt is     *)
(* NULL, still ahead ("live") or reached ("lapsed").                        *)
(***************************************************************************)
EXTENDS Naturals

CONSTANTS
  Taloses,          \* agents that call the lease routes
  NoTalos,          \* SQL NULL in leasedBy
  Results,          \* result bodies
  NoResult          \* SQL NULL in result

ASSUME NoTalosAssumption == NoTalos \notin Taloses
ASSUME NoResultAssumption == NoResult \notin Results

Terminal == {"completed", "cancelled", "payment_failed"}
Row == [status : {"pending"} \cup Terminal, by : Taloses \cup {NoTalos},
        lease : {"none", "live", "lapsed"}, token : Nat, result : Results \cup {NoResult}]

NewRow == [status |-> "pending", by |-> NoTalos, lease |-> "none", token |-> 0,
           result |-> NoResult]

\* The OR of three conditions that the claim and the pending route share.  The
\* second is written eq(leasedBy, null), "leasedBy" = NULL in SQL, and selects
\* no row: a job that nobody has leased yet is not available to anybody.
Available(j, t) == j.by = t \/ j.lease = "lapsed"

\* POST /api/jobs/:id/claim and its three fields of the lease.
Claimable(j, t) == j.status = "pending" /\ Available(j, t)
Claimed(j, t) == [j EXCEPT !.by = t, !.lease = "live", !.token = j.token + 1]

Holds(j, t, token) == j.by = t /\ j.token = token

\* POST /api/jobs/:id/heartbeat: the expiry is not looked at, so a lapsed lease
\* is live again.
Renewable(j, t, token) == j.status = "pending" /\ Holds(j, t, token)
\* POST /api/jobs/:id/extend-lease: only a lease that is still live.
Extendable(j, t, token) == Renewable(j, t, token) /\ j.lease = "live"
Renewed(j) == [j EXCEPT !.lease = "live"]

\* POST /api/jobs/:id/release, whatever the status of the job.
Released(j) == [j EXCEPT !.by = NoTalos, !.lease = "none"]

\* POST /api/jobs/:id/result for the provider t: the lease of another agent is
\* refused while it is live; the UPDATE compares the token and the status, not
\* the holder, so a released or lapsed lease still completes.
CompletableAgain(j, t, token) ==
  j.token = token /\ ~(j.by \notin {NoTalos, t} /\ j.lease = "live")
Completable(j, t, token) ==
  /\ j.status = "pending" /\ j.token = token
  /\ ~(j.by \notin {NoTalos, t} /\ j.lease = "live")
Completed(j, r) == [j EXCEPT !.status = "completed", !.result = r]

\* The UPDATE of the cross-chain webhook, by the id alone: whatever the row has
\* become, it gets the status s that follows from the service's mode, and its
\* result is replaced or, with status pending, erased.
Bridged(j, s, r) == [j EXCEPT !.status = s, !.result = r]

\* The statements that cancel an agent's pending jobs when it is paused.
Cancelled(j) == [j EXCEPT !.status = "cancelled", !.by = NoTalos, !.lease = "none"]
=============================================================================
