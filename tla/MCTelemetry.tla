----------------------------- MODULE MCTelemetry -----------------------------
(* Instances of Telemetry: two clusters, whose counters both start at 0. *)
EXTENDS Telemetry, TLC

CONSTANTS a, b, pa, pa2, pb, w1, w2

AB == {a, b}
OnlyA == {a}
OnePodEach == {pa, pb}
TwoPodsOfA == {pa, pa2}
Home == [p \in Pod |-> IF p = pb THEN b ELSE a]
SameSalt == [c \in Cluster |-> "salt"]
NoNoise == {}
OneWorker == {w1}
TwoWorkers == {w1, w2}
=============================================================================
