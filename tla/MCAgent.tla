------------------------------- MODULE MCAgent -------------------------------
(* Instances of Agent for TLC: up to three events, two metrics, two producers. *)
EXTENDS Agent, TLC

CONSTANTS e1, e2, e3, m1, m2, p1, p2, auto, w1, host, stop, none

MCItems == {e1, e2, e3, m1}
MCMetrics == {m1, m2}
MCPoison == {m1}
MCTwoEvents == {e1, e2}
MCKindOf == [i \in Items |-> IF i \in {m1, m2} THEN "metric" ELSE "event"]
MCKinds == {"event", "metric"}
MCEventOnly == {"event"}
MCProducers == {p1, p2}
MCOneProducer == {p1}
MCWake == {w1}
MCHost == {host}
MCNone == {}
Symmetry == Permutations({e1, e2, e3} \intersect Items) \union Permutations(Producers)
=============================================================================
