------------------------- MODULE MCTalosGovernance -------------------------
(* Instances of TalosGovernance for TLC.                                   *)
EXTENDS TalosGovernance, TLC

CONSTANT t1

Symmetry == Permutations(Accounts)
Cfg(q, c, p, o, b) == [quorum |-> q, consensus |-> c, period |-> p, offset |-> o, bps |-> b]
Act(k, q) == [kind |-> k, talos |-> t1, quorum |-> q, consensus |-> 5000, period |-> 1]

\* A quorum of 2 units, more than half, one ledger of voting.
OneInit == {Cfg(2, 5001, 1, NoOffset, NoBps)}
\* Half of the supply as quorum; and a config with no quorum at all, refused.
HalfOfSupply == {Cfg(0, 5001, 1, 1, 5000), Cfg(0, 5001, 1, 1, NoBps)}
\* Three quarters of the supply as quorum; and no quorum or no consensus, refused.
OtherQuorum == {Cfg(0, 5001, 1, 0, 7500), Cfg(0, 5001, 1, 1, NoBps), Cfg(1, 0, 1, 1, NoBps)}
NoConfigs == {}
NegativeOrTwo == {-1, 2}
Signal == {Act("none", 1)}
\* Pausing, resuming, and a change of the configuration.
AllActions == {Act("none", 1), Act("pause", 1), Act("resume", 1), Act("config", 1)}
\* A share of the supply as quorum only while there is one admin.
ShareAlone ==
  config.bps # NoBps => transfers = 0
=============================================================================
