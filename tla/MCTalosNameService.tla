------------------------- MODULE MCTalosNameService -------------------------
(***************************************************************************)
(* Small instances of the registry and the name service.  The two          *)
(* administrations and the names go on beside each other without reading   *)
(* each other's state, so their product shows nothing new: a behaviour     *)
(* exercises one administration, the registry's with the Taloses or the    *)
(* name service's, or the names with the Taloses, the registry's           *)
(* initialization and the repointing of the name service.                  *)
(***************************************************************************)
EXTENDS TalosNameService, TLC

CONSTANTS a1, a2, n1, n2

TwoAccounts == {a1, a2}
TwoNames == {n1, n2}
SmallFees == {2, 3}   \* MaxFee is 2
Alike == Permutations(TwoAccounts) \cup Permutations(TwoNames)

ServiceIdle == vouched = [id \in Ids |-> Nobody] /\ registry = NoAccount /\ admin = NoAccount
RegistryIdle == nextId = 1 /\ wallet = NoAccount
RegistryUnlocked == lock = NoConfig /\ nominee = NoAccount /\ feeBps = DefaultFee
ConfigIdle == nameLock = NoConfig /\ pause["config"] = NotPaused

Focused ==
  \/ ServiceIdle /\ (lock = NoConfig \/ nextId = 1)
  \/ RegistryIdle
  \/ RegistryUnlocked /\ ConfigIdle
=============================================================================
