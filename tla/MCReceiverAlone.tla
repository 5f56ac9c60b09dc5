--------------------------- MODULE MCReceiverAlone ---------------------------
(***************************************************************************)
(* Instances of ReceiverAlone.  Clusters a and b hold the right salt, c    *)
(* another one.  All counters start at 0, so the clusters' messages meet.  *)
(***************************************************************************)
EXTENDS ReceiverAlone, TLC

CONSTANTS a, b, c, w1, w2, stray

AB == {a, b}
ABC == {a, b, c}
TwoWorkers == {w1, w2}
OneWorker == {w1}
Stray == {stray}
NoNoise == {}
Salts == [x \in Cluster |-> IF x = c THEN "other" ELSE "salt"]

\* All the frames of a cycle of cluster x that took message id msg.
Frames(x, msg, epoch, count) ==
  {FrameOf(x, msg, [epoch |-> epoch, count |-> count], k, 1 + (k - 1) * NodesPerFrame) :
     k \in 1 .. TotalFrames(count)}

\* b has three frames under id 0, a has one: their messages meet.
Crossing == Frames(a, 0, 1, 2) \cup Frames(b, 0, 1, 5) \cup {stray}
\* a restarts and uses id 0 for two snapshots, of two and of three frames.
Reused == Frames(a, 0, 1, 4) \cup Frames(a, 0, 2, 5)
\* One frame per message; c has another salt.
Singles == Frames(a, 0, 1, 1) \cup Frames(a, 1, 2, 2) \cup Frames(c, 0, 1, 1)
\* The emulator plays a cluster b of five nodes, more than NodesPerFrame, beside a
\* under the same id.  (Their ids differ in width; the model lets them meet.)
EmulatedB ==
  LET text == [cluster |-> b, epoch |-> 1, count |-> 5, lines |-> 1 .. 5]
  IN  [src |-> b, msg |-> 1, frame |-> 1, total |-> 1, text |-> text,
       mac |-> MAC(SaltOf[b], <<text>>)]
LoadTest == {EmulatedB} \cup Frames(a, 1, 1, 3)
AllTraffics == {Crossing, Reused, Singles, LoadTest}
OneLargeCluster == {Frames(a, 0, 1, 4)}
=============================================================================
