------------------------- MODULE MCCommercePurchase -------------------------
(* Instances of CommercePurchase for TLC.                                  *)
EXTENDS CommercePurchase, TLC

CONSTANTS k1, t1, t2, t3, t4, p1, p2, agent, human

O(route, buyer, token, key, payload, bid, instant) ==
  [route |-> route, buyer |-> buyer, token |-> token, key |-> key, payload |-> payload,
   bid |-> bid, instant |-> instant]

\* One key tried with two tokens, with another payload, and by a human; a bid and a
\* legacy transaction without a key; a bridge payment of the agent's, both modes.
FewOrders ==
  {O("service", agent, t1, k1, p1, FALSE, FALSE), O("service", agent, t2, k1, p1, FALSE, TRUE),
   O("service", agent, t1, k1, p2, FALSE, FALSE), O("service", agent, t1, NoKey, p1, TRUE, TRUE),
   O("jobs", human, t3, k1, p1, FALSE, TRUE), O("legacy", human, t3, NoKey, p1, FALSE, FALSE),
   O("bridge", agent, t4, NoKey, p1, FALSE, TRUE),
   O("bridge", agent, t4, NoKey, p1, FALSE, FALSE)}

Symmetry == Permutations(Requests)
=============================================================================
