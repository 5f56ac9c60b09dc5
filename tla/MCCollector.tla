----------------------------- MODULE MCCollector -----------------------------
(* Instances of Collector: one cluster whose Deployment has one or two pods. *)
EXTENDS Collector, TLC

CONSTANTS c1, p1, p2

OnlyC1 == {c1}
OnePod == {p1}
TwoPods == {p1, p2}
AllInC1 == [p \in Pod |-> c1]
OneSalt == [c \in Cluster |-> "salt"]
=============================================================================
