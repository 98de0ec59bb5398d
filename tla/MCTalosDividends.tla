-------------------------- MODULE MCTalosDividends --------------------------
(* Instances of TalosDividends for TLC.                                    *)
EXTENDS TalosDividends, TLC

CONSTANTS a1, a2, a3, r1, r2, r3, talos, other

TheAddresses == {a1, a2, a3}
TheRegistries == {r1, r2, r3}
\* One compatible registry, one whose minor version is too old, and a contract
\* of another kind.
TheVersions == [r \in TheRegistries |-> IF r = r2 THEN <<1, 0, 9>> ELSE <<1, 2, 0>>]
TheInterfaces == [r \in TheRegistries |-> IF r = r3 THEN other ELSE talos]

Split(c, i, t) == [creator |-> c, investor |-> i, treasury |-> t]
ThreePatrons == [creator |-> a1, investor |-> a2, treasury |-> a3]
\* a1 is both the creator and the treasury.
TwoPatrons == [creator |-> a1, investor |-> a2, treasury |-> a1]

ThePatrons == {ThreePatrons, TwoPatrons}
OnlyThree == {ThreePatrons}
\* One split that is accepted, one that does not sum to 100, and one whose
\* product with an amount of 7 exceeds MaxI128 = 450.
TheSplits == {Split(60, 25, 15), Split(50, 30, 25), Split(70, 20, 10)}
Windows == {<<1, 2>>, <<2, 1>>}
=============================================================================
