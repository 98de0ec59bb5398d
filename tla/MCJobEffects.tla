---------------------------- MODULE MCJobEffects ----------------------------
(* One agent process in which the scheduler's dispatch and fulfill_job() run   *)
(* at once, under the worker id they share.  A result with a float in it is    *)
(* read back as one with a whole number, as JavaScript writes 5.0.             *)
EXTENDS JobEffects
CONSTANTS tick, tool, process, float, whole, other
OneProcess == [t \in {tick, tool} |-> process]
AsJson == [r \in {float, whole, other} |-> IF r = float THEN whole ELSE r]
\* Faults happen to the result that survives its JSON.  Deliveries of the webhook
\* come one at a time, to an active agent without faults and its first lease.
Calm == faults = 0 /\ job.token <= 1
OneStory ==
  /\ effect.result = float => faults = 0
  /\ bridge # {} => Calm /\ active /\ bridge # {"pending", "completed"}
  /\ paid = 2 => Calm
=============================================================================
