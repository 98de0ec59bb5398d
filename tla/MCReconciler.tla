---------------------------- MODULE MCReconciler ----------------------------
(* Instances of Reconciler for TLC: one job and one token purchase, or      *)
(* only the job.                                                            *)
EXTENDS Reconciler, TLC

CONSTANT Purchase
MixedSource == [t \in Txs |-> IF t = Purchase THEN "token_purchase" ELSE "commerce_job"]

Symmetry == Permutations(Ticks)

\* Bound: while the purchase is not yet on the ledger the job is alone, with
\* overlapping ticks and faults, webhook deliveries only before the first fault;
\* from then on there are two records, but one tick at a time, no fault, no
\* delivery, and a purchase that landed early and is in time.
OverlapOrTwoRecords ==
  \/ /\ chain[Purchase].status = "not_found"
     /\ faults > 0 => \A t \in Txs : bridge[t] = "none"
  \/ /\ chain[Purchase] = [status |-> "confirmed", ledger |-> 1]
     /\ Purchase \notin expired /\ faults = 0
     /\ \A t \in Txs : bridge[t] = "none"
     /\ \A s \in Servers : \E k \in Ticks : proc[s].tick[k] = NoTick
=============================================================================
