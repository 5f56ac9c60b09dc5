--------------------------- MODULE CollectorProofs ---------------------------
(***************************************************************************)
(* Proofs about Collector, for any clusters and pods, any frame size and   *)
(* any bounds: the types, that the frames of a cycle are slices of one     *)
(* snapshot, that a finished cycle has sent all of it, and what message    *)
(* ids do before the counter wraps.                                        *)
(*                                                                         *)
(* The second needs to know whose frames they are.  A cycle's epoch is     *)
(* taken by one pod only (Fresh, Alone), and while that pod is in its loop *)
(* every frame sent with that epoch has the pod's message id and snapshot, *)
(* a smaller frame number, and only N lines before the loop variable       *)
(* (SentBefore).  The third adds the converse: every N line before the     *)
(* loop variable is in a frame already sent (Covered).                     *)
(*                                                                         *)
(* For the message ids: while a cluster's counter is in step, at most one  *)
(* pod exists, the counter it holds or will read from the file is above    *)
(* every id sent in earlier cycles, and is at most the number of cycles    *)
(* (InStep), so that it does not wrap before the bound on cycles.          *)
(***************************************************************************)
EXTENDS Collector, FiniteSetTheorems, TLAPS

Sending(p) == pc[p] = "send"
InCluster(p, q) == ClusterOf[p] = ClusterOf[q]

\* A pod in its loop has the snapshot of a cycle its cluster has begun.
Fresh ==
  /\ \A p \in Pod : Sending(p) =>
       snap[p].epoch \in 1 .. clock[ClusterOf[p]] /\ snap[p].count \in NodeLine
  /\ \A d \in net : d.text.epoch <= clock[d.src]

\* No two pods of a cluster are in the loop of the same cycle.
Alone ==
  \A p, q \in Pod : (Sending(p) /\ Sending(q) /\ InCluster(p, q) /\ p # q) =>
    snap[p].epoch # snap[q].epoch

Before(p, d) ==
  /\ d.msg = counter[p]
  /\ d.total = TotalFrames(snap[p].count)
  /\ d.text.count = snap[p].count
  /\ d.frame < frame[p]
  /\ \A k \in d.text.lines : k < line[p]

\* What a pod in its loop has sent in this cycle.
SentBefore ==
  \A p \in Pod, d \in net :
    (Sending(p) /\ d.src = ClusterOf[p] /\ d.text.epoch = snap[p].epoch) => Before(p, d)

\* SlicesDisjoint without the bound on epochs.
Slices ==
  \A d1, d2 \in net : (d1.src = d2.src /\ d1.text.epoch = d2.text.epoch) =>
    /\ d1.msg = d2.msg /\ d1.total = d2.total /\ d1.text.count = d2.text.count
    /\ d1 # d2 => d1.frame # d2.frame /\ d1.text.lines \cap d2.text.lines = {}

CollectorIInv == CollectorTypeOK /\ Fresh /\ Alone /\ SentBefore /\ Slices

-----------------------------------------------------------------------------
\* The wire format.

\* A frame announces at least one frame, whatever the node count.
LEMMA TotalFramesPositive ==
  ASSUME NEW n \in NodeLine
  PROVE  TotalFrames(n) \in Nat \ {0}
<1>1. NodesPerFrame \in Nat \ {0} /\ n \in Nat \ {0}
  BY WireAssumption DEF NodeLine
<1>2. (n + NodesPerFrame - 1) \div NodesPerFrame \in Nat
  BY <1>1
<1> QED BY <1>2 DEF TotalFrames

\* What SendFrame writes is a datagram of the pod's cluster, cycle and message.
LEMMA FrameIsDatagram ==
  ASSUME NEW c \in Cluster, NEW m \in MsgId, NEW f \in Nat \ {0}, NEW s \in Nat \ {0},
         NEW e \in Nat, NEW n \in NodeLine
  PROVE  LET d == FrameOf(c, m, [epoch |-> e, count |-> n], f, s) IN
         /\ d \in Datagram
         /\ d.src = c /\ d.msg = m /\ d.frame = f /\ d.total = TotalFrames(n)
         /\ d.text.epoch = e /\ d.text.count = n /\ d.text.lines = Chunk(n, s)
<1> DEFINE text == [cluster |-> c, epoch |-> e, count |-> n, lines |-> Chunk(n, s)]
           d == FrameOf(c, m, [epoch |-> e, count |-> n], f, s)
<1>1. d = [src |-> c, msg |-> m, frame |-> f, total |-> TotalFrames(n), text |-> text,
           mac |-> [salt |-> SaltOf[c], over |-> <<text>>]]
  BY DEF FrameOf, MAC
<1>2. Chunk(n, s) \subseteq NodeLine
  <2>1. MaxNodes \in Nat /\ n \in Nat /\ n <= MaxNodes
    BY WireAssumption DEF NodeLine
  <2> QED BY <2>1 DEF Chunk, NodeLine
<1>3. text \in Text
  BY <1>2 DEF Text
<1>4. SaltOf[c] \in Salt
  BY DEF Salt
<1>5. <<text>> \in Seq(Text)
  BY <1>3
<1>6. TotalFrames(n) \in Nat \ {0}
  BY TotalFramesPositive
<1>7. d \in Datagram
  <2> DEFINE mac == [salt |-> SaltOf[c], over |-> <<text>>]
  <2> HIDE DEF text
  <2>1. mac \in [salt : Salt, over : Seq(Text)]
    BY <1>3, <1>4, <1>5
  <2> HIDE DEF mac
  <2>2. [src |-> c, msg |-> m, frame |-> f, total |-> TotalFrames(n), text |-> text, mac |-> mac]
          \in Datagram
    BY <2>1, <1>3, <1>6 DEF Datagram
  <2> QED BY <2>2, <1>1 DEF mac
<1> QED BY <1>1, <1>7

\* At the start no pod is in its loop and nothing is sent.
LEMMA CollectorInitEstablishes == CollectorInit => CollectorIInv
<1> SUFFICES ASSUME CollectorInit PROVE CollectorIInv
  OBVIOUS
<1>1. CollectorTypeOK
  <2>1. 0 \in MsgId /\ 0 \in 0 .. MaxEpoch /\ 0 \in 0 .. MaxNodes /\ 0 \in 0 .. MaxFaults
    BY WireAssumption, CollectorAssumption DEF MsgId
  <2>2. snap \in [Pod -> [epoch : 0 .. MaxEpoch, count : 0 .. MaxNodes]]
    BY <2>1 DEF CollectorInit, NoSnap
  <2> QED BY <2>1, <2>2 DEF CollectorInit, CollectorTypeOK, SeqContent
<1>2. net = {} /\ \A p \in Pod : ~Sending(p)
  BY DEF CollectorInit, Sending
<1> QED BY <1>1, <1>2 DEF CollectorIInv, Fresh, Alone, SentBefore, Slices

\* SendFrame: the new frame is cut from the pod's snapshot, behind all the
\* frames sent before it in this cycle.
LEMMA SendFrameKeeps ==
  ASSUME CollectorIInv, NEW p \in Pod, SendFrame(p)
  PROVE  CollectorIInv'
<1> DEFINE c == ClusterOf[p]
           new == FrameOf(c, counter[p], snap[p], frame[p], line[p])
<1>1. /\ Sending(p) /\ line[p] <= snap[p].count
      /\ net' = net \cup {new}
      /\ line' = [line EXCEPT ![p] = line[p] + NodesPerFrame]
      /\ frame' = [frame EXCEPT ![p] = frame[p] + 1]
      /\ UNCHANGED <<pc, counter, snap, seqFile, payload, clock, orderly, faults>>
  BY DEF SendFrame, Sending
<1>2. CollectorTypeOK /\ Fresh /\ Alone /\ SentBefore /\ Slices
  BY DEF CollectorIInv
<1>3. /\ c \in Cluster /\ NodesPerFrame \in Nat \ {0} /\ MaxNodes \in Nat /\ MaxEpoch \in Nat
  BY WireAssumption, CollectorAssumption
<1>4. /\ counter[p] \in MsgId /\ frame[p] \in Nat \ {0} /\ line[p] \in Nat \ {0}
      /\ snap[p] \in [epoch : 0 .. MaxEpoch, count : 0 .. MaxNodes]
      /\ clock[c] \in 0 .. MaxEpoch
      /\ line \in [Pod -> Nat \ {0}] /\ frame \in [Pod -> Nat \ {0}]
  BY <1>2, <1>3 DEF CollectorTypeOK
<1>5. /\ snap[p].epoch \in Nat /\ snap[p].epoch <= clock[c] /\ snap[p].count \in NodeLine
      /\ snap[p] = [epoch |-> snap[p].epoch, count |-> snap[p].count]
  BY <1>1, <1>2, <1>3, <1>4 DEF Fresh
<1>6. /\ new \in Datagram
      /\ new.src = c /\ new.msg = counter[p] /\ new.frame = frame[p]
      /\ new.total = TotalFrames(snap[p].count)
      /\ new.text.epoch = snap[p].epoch /\ new.text.count = snap[p].count
      /\ new.text.lines = Chunk(snap[p].count, line[p])
  BY <1>3, <1>4, <1>5, FrameIsDatagram
<1>7. \A k \in new.text.lines :
        k \in Nat /\ line[p] <= k /\ k < line[p] + NodesPerFrame
  BY <1>3, <1>4, <1>5, <1>6 DEF Chunk, NodeLine
<1>8. \A d \in net : d \in Datagram /\ d.frame \in Nat /\ d.text.lines \subseteq NodeLine
  BY <1>2 DEF CollectorTypeOK, Datagram, Text
<1>9. \A d \in net : (d.src = c /\ d.text.epoch = snap[p].epoch) => Before(p, d)
  BY <1>1, <1>2 DEF SentBefore
<1>10. CollectorTypeOK'
  <2>1. line' \in [Pod -> Nat \ {0}] /\ frame' \in [Pod -> Nat \ {0}]
    BY <1>1, <1>3, <1>4
  <2>2. net' \subseteq Datagram
    BY <1>1, <1>2, <1>6 DEF CollectorTypeOK
  <2> QED BY <1>1, <1>2, <2>1, <2>2 DEF CollectorTypeOK
<1>11. Fresh'
  BY <1>1, <1>2, <1>5, <1>6 DEF Fresh, Sending
<1>12. Alone'
  BY <1>1, <1>2 DEF Alone, Sending, InCluster
<1>13. SentBefore'
  <2> SUFFICES ASSUME NEW q \in Pod, NEW d \in net', Sending(q), d.src = ClusterOf[q],
                      d.text.epoch = snap[q].epoch
               PROVE  Before(q, d)'
    BY <1>1 DEF SentBefore, Sending
  <2>1. CASE d \in net /\ q # p
    <3>1. Before(q, d)
      BY <2>1, <1>2 DEF SentBefore
    <3>2. line'[q] = line[q] /\ frame'[q] = frame[q]
      BY <2>1, <1>1, <1>4
    <3> QED BY <3>1, <3>2, <1>1 DEF Before
  <2>2. CASE d \in net /\ q = p
    <3>1. Before(p, d)
      BY <2>2, <1>9
    <3>2. line'[p] = line[p] + NodesPerFrame /\ frame'[p] = frame[p] + 1
      BY <1>1, <1>4
    <3>3. \A k \in d.text.lines : k \in Nat
      BY <2>2, <1>8, <1>3 DEF NodeLine
    <3>4. d.frame < frame'[p] /\ \A k \in d.text.lines : k < line'[p]
      BY <3>1, <3>2, <3>3, <1>3, <1>4, <1>8, <2>2 DEF Before
    <3> QED BY <3>1, <3>4, <1>1, <2>2 DEF Before
  <2>3. CASE d = new
    <3>1. q = p
      BY <2>3, <1>1, <1>2, <1>6 DEF Alone, InCluster
    <3>2. line'[p] = line[p] + NodesPerFrame /\ frame'[p] = frame[p] + 1
      BY <1>1, <1>4
    <3>3. d.frame < frame'[p] /\ \A k \in d.text.lines : k < line'[p]
      BY <2>3, <3>2, <1>4, <1>6, <1>7
    <3> QED BY <2>3, <3>1, <3>3, <1>1, <1>6 DEF Before
  <2> QED BY <2>1, <2>2, <2>3, <1>1
<1>14. Slices'
  <2>1. ASSUME NEW d \in net, d.src = c, d.text.epoch = snap[p].epoch
        PROVE  /\ d.msg = new.msg /\ d.total = new.total /\ d.text.count = new.text.count
               /\ d.frame # new.frame /\ d.text.lines \cap new.text.lines = {}
    <3>1. Before(p, d)
      BY <2>1, <1>9
    <3>2. d.frame # new.frame
      BY <3>1, <1>4, <1>6, <1>8 DEF Before
    <3>3. \A k \in d.text.lines : k \notin new.text.lines
      BY <3>1, <1>4, <1>7 DEF Before
    <3> QED BY <3>1, <3>2, <3>3, <1>6 DEF Before
  <2> SUFFICES ASSUME NEW d1 \in net', NEW d2 \in net', d1.src = d2.src,
                      d1.text.epoch = d2.text.epoch
               PROVE  /\ d1.msg = d2.msg /\ d1.total = d2.total
                      /\ d1.text.count = d2.text.count
                      /\ d1 # d2 => d1.frame # d2.frame
                                    /\ d1.text.lines \cap d2.text.lines = {}
    BY DEF Slices
  <2>2. CASE d1 \in net /\ d2 \in net
    BY <2>2, <1>2 DEF Slices
  <2>3. CASE d1 \in net /\ d2 = new
    BY <2>3, <2>1, <1>6
  <2>4. CASE d1 = new /\ d2 \in net
    BY <2>4, <2>1, <1>6
  <2>5. CASE d1 = new /\ d2 = new
    BY <2>5
  <2> QED BY <2>2, <2>3, <2>4, <2>5, <1>1
<1> QED BY <1>10, <1>11, <1>12, <1>13, <1>14 DEF CollectorIInv

\* BeginCycle: the pod takes an epoch no frame and no other pod has.
LEMMA BeginCycleKeeps ==
  ASSUME CollectorIInv, NEW p \in Pod, BeginCycle(p)
  PROVE  CollectorIInv'
<1> DEFINE c == ClusterOf[p]
<1>1. /\ clock[c] < MaxEpoch
      /\ clock' = [clock EXCEPT ![c] = clock[c] + 1]
      /\ snap' = [snap EXCEPT ![p] = [epoch |-> clock[c] + 1, count |-> payload[c]]]
      /\ line' = [line EXCEPT ![p] = 1] /\ frame' = [frame EXCEPT ![p] = 1]
      /\ pc' = [pc EXCEPT ![p] = "send"]
      /\ UNCHANGED <<counter, seqFile, payload, orderly, faults, net>>
  BY DEF BeginCycle
<1>2. CollectorTypeOK /\ Fresh /\ Alone /\ SentBefore /\ Slices
  BY DEF CollectorIInv
<1>3. c \in Cluster /\ MaxNodes \in Nat /\ MaxEpoch \in Nat /\ ClusterOf \in [Pod -> Cluster]
  BY WireAssumption, CollectorAssumption
<1>4. /\ clock \in [Cluster -> 0 .. MaxEpoch] /\ payload \in [Cluster -> NodeLine]
      /\ snap \in [Pod -> [epoch : 0 .. MaxEpoch, count : 0 .. MaxNodes]]
      /\ pc \in [Pod -> {"absent", "boot", "cycle", "send", "write", "sleep"}]
      /\ line \in [Pod -> Nat \ {0}] /\ frame \in [Pod -> Nat \ {0}]
  BY <1>2 DEF CollectorTypeOK
<1>5. /\ clock[c] \in Nat /\ clock[c] + 1 \in 1 .. MaxEpoch
      /\ payload[c] \in NodeLine /\ payload[c] \in 0 .. MaxNodes
  BY <1>1, <1>3, <1>4 DEF NodeLine
<1>6. /\ snap'[p] = [epoch |-> clock[c] + 1, count |-> payload[c]]
      /\ clock'[c] = clock[c] + 1
      /\ \A q \in Pod : q # p => snap'[q] = snap[q] /\ pc'[q] = pc[q]
                               /\ line'[q] = line[q] /\ frame'[q] = frame[q]
      /\ \A e \in Cluster : clock'[e] \in Nat /\ clock[e] \in Nat /\ clock[e] <= clock'[e]
  BY <1>1, <1>3, <1>4, <1>5
<1>7. \A d \in net : d.src \in Cluster /\ d.text.epoch \in Nat /\ d.text.epoch <= clock[d.src]
  BY <1>2 DEF CollectorTypeOK, Fresh, Datagram, Text
<1>8. CollectorTypeOK'
  <2> clock[c] + 1 \in 0 .. MaxEpoch
    BY <1>3, <1>5
  <2> HIDE DEF c
  <2>1. clock' \in [Cluster -> 0 .. MaxEpoch]
    BY <1>1, <1>3, <1>4
  <2>0. [epoch |-> clock[c] + 1, count |-> payload[c]] \in [epoch : 0 .. MaxEpoch, count : 0 .. MaxNodes]
    BY <1>5
  <2>2. snap' \in [Pod -> [epoch : 0 .. MaxEpoch, count : 0 .. MaxNodes]]
    BY <1>1, <1>4, <2>0
  <2>3. /\ pc' \in [Pod -> {"absent", "boot", "cycle", "send", "write", "sleep"}]
        /\ line' \in [Pod -> Nat \ {0}] /\ frame' \in [Pod -> Nat \ {0}]
    BY <1>1, <1>4
  <2>4. /\ counter' \in [Pod -> MsgId] /\ seqFile' \in [Cluster -> SeqContent]
        /\ payload' \in [Cluster -> NodeLine] /\ orderly' \in [Cluster -> BOOLEAN]
        /\ faults' \in 0 .. MaxFaults /\ net' \subseteq Datagram
    BY <1>1, <1>2 DEF CollectorTypeOK
  <2> QED BY <2>1, <2>2, <2>3, <2>4 DEF CollectorTypeOK
<1>9. \A q \in Pod : (q # p /\ Sending(q)') =>
        /\ Sending(q) /\ snap'[q].epoch \in Nat /\ snap'[q].epoch >= 1
        /\ snap'[q].epoch <= clock[ClusterOf[q]] /\ snap'[q].count \in NodeLine
  BY <1>2, <1>3, <1>4, <1>6 DEF Fresh, Sending
<1>10. Fresh'
  <2>1. ASSUME NEW q \in Pod, Sending(q)'
        PROVE  snap'[q].epoch \in 1 .. clock'[ClusterOf[q]] /\ snap'[q].count \in NodeLine
    <3>1. CASE q = p
      BY <3>1, <1>5, <1>6
    <3>2. CASE q # p
      <4>1. ClusterOf[q] \in Cluster
        BY <1>3
      <4> QED BY <3>2, <4>1, <2>1, <1>6, <1>9
    <3> QED BY <3>1, <3>2
  <2>2. \A d \in net' : d.text.epoch <= clock'[d.src]
    BY <1>1, <1>6, <1>7
  <2> QED BY <2>1, <2>2 DEF Fresh, Sending
<1>11. Alone'
  <2>1. \A q \in Pod : (q # p /\ Sending(q)' /\ InCluster(p, q)) => snap'[q].epoch # snap'[p].epoch
    BY <1>5, <1>6, <1>9 DEF InCluster
  <2> QED BY <2>1, <1>2, <1>6, <1>9 DEF Alone, InCluster, Sending
<1>12. SentBefore'
  <2> SUFFICES ASSUME NEW q \in Pod, NEW d \in net, Sending(q)', d.src = ClusterOf[q],
                      d.text.epoch = snap'[q].epoch
               PROVE  Before(q, d)'
    BY <1>1 DEF SentBefore, Sending
  <2>1. q # p
    BY <1>5, <1>6, <1>7
  <2>2. Before(q, d)
    BY <2>1, <1>2, <1>6, <1>9 DEF SentBefore
  <2> QED BY <2>1, <2>2, <1>1, <1>6 DEF Before
<1>13. Slices'
  BY <1>1, <1>2 DEF Slices
<1> QED BY <1>8, <1>10, <1>11, <1>12, <1>13 DEF CollectorIInv

\* A step that sends nothing, begins no cycle and takes no pod into its loop.
LEMMA OtherStepKeeps ==
  ASSUME CollectorIInv, CollectorTypeOK', UNCHANGED <<net, clock>>,
         \A q \in Pod : Sending(q)' =>
           /\ Sending(q) /\ counter'[q] = counter[q] /\ snap'[q] = snap[q]
           /\ line'[q] = line[q] /\ frame'[q] = frame[q]
  PROVE  CollectorIInv'
<1>1. Fresh /\ Alone /\ SentBefore /\ Slices
  BY DEF CollectorIInv
<1>2. Fresh'
  BY <1>1 DEF Fresh, Sending
<1>3. Alone'
  BY <1>1 DEF Alone, Sending, InCluster
<1>4. SentBefore'
  <2> SUFFICES ASSUME NEW q \in Pod, NEW d \in net, Sending(q)', d.src = ClusterOf[q],
                      d.text.epoch = snap'[q].epoch
               PROVE  Before(q, d)'
    BY DEF SentBefore, Sending
  <2> QED BY <1>1 DEF SentBefore, Before
<1>5. Slices'
  BY <1>1 DEF Slices
<1> QED BY <1>2, <1>3, <1>4, <1>5 DEF CollectorIInv

\* Every step keeps the invariant.
LEMMA CollectorStepKeeps ==
  CollectorIInv /\ [CollectorNext \/ (ClockExhausted /\ UNCHANGED collectorVars)]_collectorVars
    => CollectorIInv'
<1> SUFFICES ASSUME CollectorIInv,
                    [CollectorNext \/ (ClockExhausted /\ UNCHANGED collectorVars)]_collectorVars
             PROVE  CollectorIInv'
  OBVIOUS
<1>t. /\ pc \in [Pod -> {"absent", "boot", "cycle", "send", "write", "sleep"}]
      /\ counter \in [Pod -> MsgId]
      /\ snap \in [Pod -> [epoch : 0 .. MaxEpoch, count : 0 .. MaxNodes]]
      /\ line \in [Pod -> Nat \ {0}] /\ frame \in [Pod -> Nat \ {0}]
      /\ seqFile \in [Cluster -> SeqContent]
      /\ payload \in [Cluster -> NodeLine]
      /\ clock \in [Cluster -> 0 .. MaxEpoch] /\ orderly \in [Cluster -> BOOLEAN]
      /\ faults \in 0 .. MaxFaults /\ net \subseteq Datagram
  BY DEF CollectorIInv, CollectorTypeOK
<1>c. /\ ClusterOf \in [Pod -> Cluster] /\ MaxFaults \in Nat /\ MaxSeq \in Nat
      /\ MaxEpoch \in Nat /\ MaxNodes \in Nat
  BY WireAssumption, CollectorAssumption
<1>m. 0 \in MsgId /\ MsgId \subseteq SeqContent /\ Missing \in SeqContent /\ Empty \in SeqContent
  BY <1>c DEF MsgId, SeqContent
<1>1. ASSUME NEW p \in Pod, Boot(p) PROVE CollectorIInv'
  <2>1. /\ pc[p] = "boot" /\ pc' = [pc EXCEPT ![p] = "cycle"]
        /\ counter' = [counter EXCEPT ![p] =
             IF seqFile[ClusterOf[p]] \in {Missing, Empty} THEN 0 ELSE seqFile[ClusterOf[p]]]
        /\ UNCHANGED <<snap, line, frame, seqFile, payload, clock, orderly, faults, net>>
    BY <1>1 DEF Boot
  <2>2. seqFile[ClusterOf[p]] \in SeqContent
    BY <1>t, <1>c
  <2>3. counter' \in [Pod -> MsgId]
    BY <2>1, <2>2, <1>t, <1>m DEF SeqContent
  <2>4. CollectorTypeOK'
    BY <2>1, <2>3, <1>t DEF CollectorTypeOK
  <2>5. \A q \in Pod : Sending(q)' => q # p /\ Sending(q)
    BY <2>1, <1>t DEF Sending
  <2>6. \A q \in Pod : q # p => counter'[q] = counter[q]
    BY <2>1, <1>t
  <2> QED BY <2>1, <2>4, <2>5, <2>6, OtherStepKeeps
<1>2. ASSUME NEW p \in Pod, BeginCycle(p) PROVE CollectorIInv'
  BY <1>2, BeginCycleKeeps
<1>3. ASSUME NEW p \in Pod, SendFrame(p) PROVE CollectorIInv'
  BY <1>3, SendFrameKeeps
<1>4. ASSUME NEW p \in Pod, EndCycle(p) PROVE CollectorIInv'
  <2>1. /\ pc' = [pc EXCEPT ![p] = "write"]
        /\ counter' = [counter EXCEPT ![p] = IF counter[p] >= MaxSeq THEN 0 ELSE counter[p] + 1]
        /\ seqFile' = [seqFile EXCEPT ![ClusterOf[p]] = Empty]
        /\ UNCHANGED <<snap, line, frame, payload, clock, orderly, faults, net>>
    BY <1>4 DEF EndCycle
  <2>2. (IF counter[p] >= MaxSeq THEN 0 ELSE counter[p] + 1) \in MsgId
    BY <1>t, <1>c DEF MsgId
  <2>3. counter' \in [Pod -> MsgId] /\ seqFile' \in [Cluster -> SeqContent]
    BY <2>1, <2>2, <1>t, <1>m
  <2>4. CollectorTypeOK'
    BY <2>1, <2>3, <1>t DEF CollectorTypeOK
  <2>5. \A q \in Pod : Sending(q)' => q # p /\ Sending(q) /\ counter'[q] = counter[q]
    BY <2>1, <1>t DEF Sending
  <2> QED BY <2>1, <2>4, <2>5, OtherStepKeeps
<1>5. ASSUME NEW p \in Pod, WriteSeq(p) PROVE CollectorIInv'
  <2>1. /\ pc' = [pc EXCEPT ![p] = "sleep"]
        /\ seqFile' = [seqFile EXCEPT ![ClusterOf[p]] = counter[p]]
        /\ UNCHANGED <<counter, snap, line, frame, payload, clock, orderly, faults, net>>
    BY <1>5 DEF WriteSeq, localVars
  <2>2. seqFile' \in [Cluster -> SeqContent]
    BY <2>1, <1>t, <1>m
  <2>3. CollectorTypeOK'
    BY <2>1, <2>2, <1>t DEF CollectorTypeOK
  <2>4. \A q \in Pod : Sending(q)' => Sending(q)
    BY <2>1, <1>t DEF Sending
  <2> QED BY <2>1, <2>3, <2>4, OtherStepKeeps
<1>o. ASSUME NEW c \in Cluster, NEW b \in BOOLEAN, orderly' = [orderly EXCEPT ![c] = b]
      PROVE  orderly' \in [Cluster -> BOOLEAN]
  BY <1>o, <1>t
<1>6. ASSUME NEW p \in Pod, Wake(p) \/ StartPod(p) PROVE CollectorIInv'
  <2>1. /\ \E next \in {"cycle", "boot"} : pc' = [pc EXCEPT ![p] = next]
        /\ UNCHANGED <<counter, snap, line, frame, seqFile, payload, clock, faults, net>>
    BY <1>6 DEF Wake, StartPod, localVars
  <2>2. orderly' \in [Cluster -> BOOLEAN]
    BY <1>6, <1>t, <1>c, <1>o DEF Wake, StartPod, Disorder
  <2>3. CollectorTypeOK'
    BY <2>1, <2>2, <1>t DEF CollectorTypeOK
  <2>4. \A q \in Pod : Sending(q)' => Sending(q)
    BY <2>1, <1>t DEF Sending
  <2> QED BY <2>1, <2>3, <2>4, OtherStepKeeps
<1>7. ASSUME NEW p \in Pod, ExitScript(p) \/ StopPod(p) PROVE CollectorIInv'
  <2>1. /\ \E next \in {"boot", "absent"} : pc' = [pc EXCEPT ![p] = next]
        /\ faults < MaxFaults /\ faults' = faults + 1
        /\ counter' = [counter EXCEPT ![p] = 0] /\ snap' = [snap EXCEPT ![p] = NoSnap]
        /\ line' = [line EXCEPT ![p] = 1] /\ frame' = [frame EXCEPT ![p] = 1]
        /\ UNCHANGED <<seqFile, payload, clock, net>>
    BY <1>7 DEF ExitScript, StopPod, Forget
  <2>o. orderly' \in [Cluster -> BOOLEAN]
    BY <1>7, <1>t, <1>c, <1>o DEF ExitScript, StopPod, Disorder
  <2>2. NoSnap \in [epoch : 0 .. MaxEpoch, count : 0 .. MaxNodes]
    BY <1>c DEF NoSnap
  <2>3. /\ counter' \in [Pod -> MsgId] /\ faults' \in 0 .. MaxFaults
        /\ snap' \in [Pod -> [epoch : 0 .. MaxEpoch, count : 0 .. MaxNodes]]
    BY <2>1, <2>2, <1>t, <1>m, <1>c
  <2>4. CollectorTypeOK'
    BY <2>1, <2>3, <2>o, <1>t DEF CollectorTypeOK
  <2>5. \A q \in Pod : Sending(q)' => q # p /\ Sending(q)
    BY <2>1, <1>t DEF Sending
  <2>6. \A q \in Pod : q # p => /\ counter'[q] = counter[q] /\ snap'[q] = snap[q]
                               /\ line'[q] = line[q] /\ frame'[q] = frame[q]
    BY <2>1, <1>t
  <2> QED BY <2>1, <2>4, <2>5, <2>6, OtherStepKeeps
<1>8. ASSUME NEW c \in Cluster, DeleteVolume(c) PROVE CollectorIInv'
  <2>1. /\ faults < MaxFaults /\ faults' = faults + 1
        /\ seqFile' = [seqFile EXCEPT ![c] = Missing]
        /\ UNCHANGED <<pc, counter, snap, line, frame, payload, clock, net>>
    BY <1>8 DEF DeleteVolume, localVars
  <2>o. orderly' \in [Cluster -> BOOLEAN]
    BY <1>8, <1>t, <1>o DEF DeleteVolume, Disorder
  <2>2. seqFile' \in [Cluster -> SeqContent] /\ faults' \in 0 .. MaxFaults
    BY <2>1, <1>t, <1>m, <1>c
  <2>3. CollectorTypeOK'
    BY <2>1, <2>o, <2>2, <1>t DEF CollectorTypeOK
  <2> QED BY <2>1, <2>3, OtherStepKeeps DEF Sending
<1>9. ASSUME NEW c \in Cluster, Repayload(c) PROVE CollectorIInv'
  <2>1. /\ \E n \in NodeLine : payload' = [payload EXCEPT ![c] = n]
        /\ UNCHANGED <<pc, counter, snap, line, frame, seqFile, clock, orderly, faults, net>>
    BY <1>9 DEF Repayload, localVars
  <2>2. CollectorTypeOK'
    BY <2>1, <1>t DEF CollectorTypeOK
  <2> QED BY <2>1, <2>2, OtherStepKeeps DEF Sending
<1>10. ASSUME UNCHANGED collectorVars PROVE CollectorIInv'
  <2>1. UNCHANGED <<pc, counter, snap, line, frame, seqFile, payload, clock, orderly, faults, net>>
    BY <1>10 DEF collectorVars
  <2>2. CollectorTypeOK'
    BY <2>1, <1>t DEF CollectorTypeOK
  <2> QED BY <2>1, <2>2, OtherStepKeeps DEF Sending
<1> QED
  BY <1>1, <1>2, <1>3, <1>4, <1>5, <1>6, <1>7, <1>8, <1>9, <1>10
     DEF CollectorNext, PodNext, ScriptStep

-----------------------------------------------------------------------------
\* The strengthened invariant holds of every behaviour of the collectors.
THEOREM CollectorInvariant == CollectorSpec => []CollectorIInv
BY CollectorInitEstablishes, CollectorStepKeeps, PTL DEF CollectorSpec

\* Script variables, counter file and datagrams keep their types: the counter
\* never passes its largest value and every datagram is well formed.
THEOREM CollectorTypeCorrect == CollectorSpec => []CollectorTypeOK
<1>1. CollectorIInv => CollectorTypeOK
  BY DEF CollectorIInv
<1> QED BY <1>1, CollectorInvariant, PTL

\* The frames of a cycle are slices of one snapshot, whatever pods run at once,
\* whatever script exits and whenever the payload changes.
THEOREM SlicesStayDisjoint == CollectorSpec => []SlicesDisjoint
<1>1. CollectorIInv => SlicesDisjoint
  BY DEF CollectorIInv, Slices, SlicesDisjoint, Cycle
<1> QED BY <1>1, CollectorInvariant, PTL

-----------------------------------------------------------------------------
\* That the frames of a cycle are all of the snapshot needs in addition how the
\* loop variable and the frame number go together, and what has been sent up to
\* them (Covered).

InCycle(p) == pc[p] \in {"send", "write", "sleep"}

\* Every frame is numbered within its total and lists lines of its snapshot.
WellCut ==
  \A d \in net : /\ d.text.lines \subseteq 1 .. d.text.count
                 /\ d.frame \in 1 .. TotalFrames(d.text.count)

\* A datagram of the cycle pod p is in, and of its snapshot.
SentBy(p, d) ==
  d.src = ClusterOf[p] /\ d.text.epoch = snap[p].epoch /\ d.text.count = snap[p].count

SentUpTo(p) ==
  /\ snap[p].count \in NodeLine
  /\ line[p] = (frame[p] - 1) * NodesPerFrame + 1
  /\ \A f \in 1 .. frame[p] - 1 : \E d \in net : SentBy(p, d) /\ d.frame = f
  /\ \A k \in 1 .. snap[p].count : k < line[p] =>
        \E d \in net : SentBy(p, d) /\ k \in d.text.lines

Covered == \A p \in Pod : InCycle(p) => SentUpTo(p)

\* Rounding up: frames of b lines, one fewer of which would not do.
LEMMA RoundedUp ==
  ASSUME NEW n \in NodeLine
  PROVE  /\ TotalFrames(n) \in Nat \ {0}
         /\ (TotalFrames(n) - 1) * NodesPerFrame < n
         /\ n <= TotalFrames(n) * NodesPerFrame
<1> DEFINE b == NodesPerFrame
           x == n + b - 1
           f == x \div b
<1>1. b \in Nat \ {0} /\ n \in Nat \ {0} /\ x \in Nat
  BY WireAssumption DEF NodeLine
<1>2. f \in Nat /\ b * f <= x /\ x < b * f + b
  <2> HIDE DEF x
  <2> QED BY <1>1
<1>3. f # 0
  BY <1>1, <1>2
<1>4. TotalFrames(n) = f
  BY <1>3 DEF TotalFrames
<1>5. f * b = b * f /\ (f - 1) * b = b * f - b
  <2> HIDE DEF f
  <2> QED BY <1>1, <1>2
<1> QED BY <1>1, <1>2, <1>3, <1>4, <1>5

\* Multiples are ordered like their factors.
LEMMA FactorsOrdered ==
  ASSUME NEW x \in Nat, NEW y \in Nat, NEW b \in Nat \ {0}, x * b < y * b
  PROVE  x < y
<1>1. ASSUME y <= x PROVE FALSE
  <2>1. PICK z \in Nat : x = y + z
    <3>1. x - y \in Nat /\ x = y + (x - y)
      BY <1>1
    <3> QED BY <3>1
  <2>2. (y + z) * b = y * b + z * b
    OBVIOUS
  <2>3. z * b \in Nat /\ y * b \in Nat
    OBVIOUS
  <2> QED BY <2>1, <2>2, <2>3
<1> QED BY <1>1

\* Later datagrams take nothing away.
LEMMA SentUpToKept ==
  ASSUME NEW p \in Pod, SentUpTo(p), net \subseteq net',
         snap'[p] = snap[p], line'[p] = line[p], frame'[p] = frame[p]
  PROVE  SentUpTo(p)'
BY DEF SentUpTo, SentBy

\* SendFrame: the next slice follows the lines covered, under the next number.
LEMMA SendFrameCovers ==
  ASSUME CollectorIInv, WellCut, Covered, NEW p \in Pod, SendFrame(p)
  PROVE  WellCut' /\ Covered'
<1> DEFINE c == ClusterOf[p]
           b == NodesPerFrame
           n == snap[p].count
           new == FrameOf(c, counter[p], snap[p], frame[p], line[p])
<1>1. /\ pc[p] = "send" /\ line[p] <= n
      /\ net' = net \cup {new}
      /\ line' = [line EXCEPT ![p] = line[p] + b]
      /\ frame' = [frame EXCEPT ![p] = frame[p] + 1]
      /\ UNCHANGED <<pc, counter, snap, seqFile, payload, clock, orderly, faults>>
  BY DEF SendFrame
<1>2. /\ c \in Cluster /\ b \in Nat \ {0} /\ n \in NodeLine /\ n \in Nat
      /\ counter[p] \in MsgId /\ frame[p] \in Nat \ {0} /\ line[p] \in Nat \ {0}
      /\ snap[p] = [epoch |-> snap[p].epoch, count |-> n] /\ snap[p].epoch \in Nat
      /\ line \in [Pod -> Nat \ {0}] /\ frame \in [Pod -> Nat \ {0}]
  <2>1. CollectorTypeOK /\ Fresh
    BY DEF CollectorIInv
  <2>2. c \in Cluster /\ b \in Nat \ {0} /\ MaxNodes \in Nat
    BY WireAssumption, CollectorAssumption
  <2>3. /\ counter[p] \in MsgId /\ frame[p] \in Nat \ {0} /\ line[p] \in Nat \ {0}
        /\ snap[p] \in [epoch : 0 .. MaxEpoch, count : 0 .. MaxNodes]
        /\ line \in [Pod -> Nat \ {0}] /\ frame \in [Pod -> Nat \ {0}]
    BY <2>1 DEF CollectorTypeOK
  <2>4. n \in NodeLine
    BY <1>1, <2>1 DEF Fresh, Sending
  <2> QED BY <2>2, <2>3, <2>4 DEF NodeLine
<1>3. /\ new.src = c /\ new.frame = frame[p] /\ new.text.epoch = snap[p].epoch
      /\ new.text.count = n /\ new.text.lines = Chunk(n, line[p])
  BY <1>2, FrameIsDatagram
<1>4. SentUpTo(p)
  BY <1>1 DEF Covered, InCycle
<1>5. frame[p] <= TotalFrames(n)
  <2>1. (frame[p] - 1) * b < TotalFrames(n) * b /\ TotalFrames(n) \in Nat
    <3>1. TotalFrames(n) \in Nat /\ n <= TotalFrames(n) * b
      BY <1>2, RoundedUp
    <3>2. (frame[p] - 1) * b \in Nat /\ TotalFrames(n) * b \in Nat
      BY <3>1, <1>2
    <3>3. (frame[p] - 1) * b + 1 <= n
      BY <1>1, <1>4 DEF SentUpTo
    <3> HIDE DEF b, n
    <3> QED BY <3>1, <3>2, <3>3, <1>2
  <2>2. frame[p] - 1 < TotalFrames(n)
    BY <2>1, <1>2, FactorsOrdered
  <2> QED BY <2>1, <2>2, <1>2
<1>6. WellCut'
  <2>1. new.text.lines \subseteq 1 .. new.text.count
    BY <1>3 DEF Chunk
  <2>2. new.frame \in 1 .. TotalFrames(new.text.count)
    BY <1>2, <1>3, <1>5, RoundedUp
  <2> HIDE DEF new
  <2> QED BY <1>1, <2>1, <2>2 DEF WellCut
<1>7. SentUpTo(p)'
  <2>1. line'[p] = line[p] + b /\ frame'[p] = frame[p] + 1 /\ snap' = snap
    BY <1>1, <1>2
  <2>2. line'[p] = (frame'[p] - 1) * b + 1
    <3>1. line[p] = (frame[p] - 1) * b + 1
      BY <1>4 DEF SentUpTo
    <3>2. (frame[p] + 1 - 1) * b = (frame[p] - 1) * b + b
      BY <1>2
    <3>3. (frame[p] - 1) * b \in Nat
      BY <1>2
    <3> QED BY <2>1, <3>1, <3>2, <3>3, <1>2
  <2>3. \E d \in net' : SentBy(p, d)' /\ d.frame = frame[p] /\ d.text.lines = Chunk(n, line[p])
    BY <1>1, <1>3, <2>1 DEF SentBy
  <2> HIDE DEF new
  <2>4. ASSUME NEW f \in 1 .. frame'[p] - 1
        PROVE  \E d \in net' : SentBy(p, d)' /\ d.frame = f
    <3>1. CASE f = frame[p]
      BY <3>1, <2>3
    <3>2. CASE f # frame[p]
      <4>1. f \in 1 .. frame[p] - 1
        BY <3>2, <2>1, <1>2
      <4> QED BY <4>1, <1>1, <1>4 DEF SentUpTo, SentBy
    <3> QED BY <3>1, <3>2
  <2>5. ASSUME NEW k \in 1 .. n, k < line'[p]
        PROVE  \E d \in net' : SentBy(p, d)' /\ k \in d.text.lines
    <3>1. CASE k < line[p]
      BY <3>1, <1>1, <1>4 DEF SentUpTo, SentBy
    <3>2. CASE ~(k < line[p])
      <4>1. k \in Chunk(n, line[p])
        BY <3>2, <2>1, <2>5, <1>2 DEF Chunk
      <4> QED BY <4>1, <2>3
    <3> QED BY <3>1, <3>2
  <2> QED BY <2>1, <2>2, <2>4, <2>5, <1>2 DEF SentUpTo
<1>8. ASSUME NEW q \in Pod, q # p, InCycle(q)' PROVE SentUpTo(q)'
  <2>1. SentUpTo(q)
    BY <1>1, <1>8 DEF Covered, InCycle
  <2>2. net \subseteq net' /\ snap'[q] = snap[q] /\ line'[q] = line[q] /\ frame'[q] = frame[q]
    BY <1>1, <1>2, <1>8
  <2> QED BY <2>1, <2>2, SentUpToKept
<1> QED BY <1>6, <1>7, <1>8 DEF Covered

\* A step that sends nothing: a pod that is in its cycle afterwards was in the
\* same one before, or has just begun it.
LEMMA OtherStepCovers ==
  ASSUME WellCut, Covered, net' = net,
         \A q \in Pod : InCycle(q)' =>
           \/ InCycle(q) /\ snap'[q] = snap[q] /\ line'[q] = line[q] /\ frame'[q] = frame[q]
           \/ snap'[q].count \in NodeLine /\ line'[q] = 1 /\ frame'[q] = 1
  PROVE  WellCut' /\ Covered'
<1>1. WellCut'
  BY DEF WellCut
<1>2. ASSUME NEW q \in Pod, InCycle(q)' PROVE SentUpTo(q)'
  <2>1. CASE InCycle(q) /\ snap'[q] = snap[q] /\ line'[q] = line[q] /\ frame'[q] = frame[q]
    BY <2>1, SentUpToKept DEF Covered
  <2>2. CASE snap'[q].count \in NodeLine /\ line'[q] = 1 /\ frame'[q] = 1
    <3>1. NodesPerFrame \in Nat
      BY WireAssumption
    <3>2. (1 - 1) * NodesPerFrame + 1 = 1
      BY <3>1
    <3> QED BY <2>2, <3>2 DEF SentUpTo
  <2> QED BY <1>2, <2>1, <2>2
<1> QED BY <1>1, <1>2 DEF Covered

LEMMA CoveredStep ==
  CollectorIInv /\ WellCut /\ Covered
    /\ [CollectorNext \/ (ClockExhausted /\ UNCHANGED collectorVars)]_collectorVars
      => WellCut' /\ Covered'
<1> SUFFICES ASSUME CollectorIInv, WellCut, Covered,
                    [CollectorNext \/ (ClockExhausted /\ UNCHANGED collectorVars)]_collectorVars
             PROVE  WellCut' /\ Covered'
  OBVIOUS
<1>t. /\ pc \in [Pod -> {"absent", "boot", "cycle", "send", "write", "sleep"}]
      /\ snap \in [Pod -> [epoch : 0 .. MaxEpoch, count : 0 .. MaxNodes]]
      /\ line \in [Pod -> Nat \ {0}] /\ frame \in [Pod -> Nat \ {0}]
      /\ payload \in [Cluster -> NodeLine] /\ ClusterOf \in [Pod -> Cluster]
  BY CollectorAssumption DEF CollectorIInv, CollectorTypeOK
<1>1. ASSUME NEW p \in Pod, SendFrame(p) PROVE WellCut' /\ Covered'
  BY <1>1, SendFrameCovers
<1>2. ASSUME NEW p \in Pod, BeginCycle(p) PROVE WellCut' /\ Covered'
  <2>1. /\ net' = net /\ pc' = [pc EXCEPT ![p] = "send"]
        /\ \E e : snap' = [snap EXCEPT ![p] = [epoch |-> e, count |-> payload[ClusterOf[p]]]]
        /\ line' = [line EXCEPT ![p] = 1] /\ frame' = [frame EXCEPT ![p] = 1]
    BY <1>2 DEF BeginCycle
  <2>2. payload[ClusterOf[p]] \in NodeLine
    BY <1>t
  <2>3. snap'[p].count \in NodeLine /\ line'[p] = 1 /\ frame'[p] = 1
    BY <2>1, <2>2, <1>t
  <2>4. \A q \in Pod : (q # p /\ InCycle(q)') =>
          InCycle(q) /\ snap'[q] = snap[q] /\ line'[q] = line[q] /\ frame'[q] = frame[q]
    BY <2>1, <1>t DEF InCycle
  <2> QED BY <2>1, <2>3, <2>4, OtherStepCovers
<1>3. ASSUME NEW p \in Pod, EndCycle(p) \/ WriteSeq(p) \/ Wake(p) \/ Boot(p) \/ StartPod(p)
      PROVE  WellCut' /\ Covered'
  <2>1. /\ UNCHANGED <<net, snap, line, frame>>
        /\ \/ pc[p] = "send" /\ pc' = [pc EXCEPT ![p] = "write"]
           \/ pc[p] = "write" /\ pc' = [pc EXCEPT ![p] = "sleep"]
           \/ \E next \in {"cycle", "boot"} : pc' = [pc EXCEPT ![p] = next]
    BY <1>3 DEF EndCycle, WriteSeq, Wake, Boot, StartPod, localVars
  <2>2. \A q \in Pod : InCycle(q)' => InCycle(q)
    BY <2>1, <1>t DEF InCycle
  <2> QED BY <2>1, <2>2, OtherStepCovers
<1>4. ASSUME NEW p \in Pod, ExitScript(p) \/ StopPod(p) PROVE WellCut' /\ Covered'
  <2>1. /\ net' = net /\ \E next \in {"boot", "absent"} : pc' = [pc EXCEPT ![p] = next]
        /\ snap' = [snap EXCEPT ![p] = NoSnap]
        /\ line' = [line EXCEPT ![p] = 1] /\ frame' = [frame EXCEPT ![p] = 1]
    BY <1>4 DEF ExitScript, StopPod, Forget
  <2>2. \A q \in Pod : InCycle(q)' =>
          InCycle(q) /\ snap'[q] = snap[q] /\ line'[q] = line[q] /\ frame'[q] = frame[q]
    BY <2>1, <1>t DEF InCycle
  <2> QED BY <2>1, <2>2, OtherStepCovers
<1>5. ASSUME NEW c \in Cluster, DeleteVolume(c) \/ Repayload(c) PROVE WellCut' /\ Covered'
  <2>1. UNCHANGED <<net, pc, snap, line, frame>>
    BY <1>5 DEF DeleteVolume, Repayload, localVars
  <2> QED BY <2>1, OtherStepCovers DEF InCycle
<1>6. ASSUME UNCHANGED collectorVars PROVE WellCut' /\ Covered'
  <2>1. UNCHANGED <<net, pc, snap, line, frame>>
    BY <1>6 DEF collectorVars
  <2> QED BY <2>1, OtherStepCovers DEF InCycle
<1> QED BY <1>1, <1>2, <1>3, <1>4, <1>5, <1>6 DEF CollectorNext, PodNext, ScriptStep

\* When the for loop of a cycle has ended, the frames sent for it carry all N
\* lines of the snapshot and the numbers 1 to TOTAL_FRAMES, for any node count
\* and frame size, whatever other pods send and whenever the payload changes.
THEOREM CyclesAreComplete == CollectorSpec => []CycleComplete
<1>1. CollectorInit => WellCut /\ Covered
  <2>1. CollectorInit => net = {} /\ \A p \in Pod : ~InCycle(p)
    BY DEF CollectorInit, InCycle
  <2> QED BY <2>1 DEF WellCut, Covered
<1>2. CollectorIInv /\ WellCut /\ Covered => CycleComplete
  <2> SUFFICES ASSUME CollectorIInv, WellCut, Covered, NEW p \in Pod, InCycle(p),
                      line[p] > snap[p].count
               PROVE  LET sent == Cycle(ClusterOf[p], snap[p].epoch) IN
                      /\ UNION {d.text.lines : d \in sent} = 1 .. snap[p].count
                      /\ {d.frame : d \in sent} = 1 .. TotalFrames(snap[p].count)
    BY DEF CycleComplete, InCycle
  <2> DEFINE n == snap[p].count
             b == NodesPerFrame
             sent == Cycle(ClusterOf[p], snap[p].epoch)
  <2>1. SentUpTo(p) /\ Slices
    BY DEF Covered, CollectorIInv
  <2>2. n \in NodeLine /\ n \in Nat \ {0} /\ b \in Nat \ {0} /\ frame[p] - 1 \in Nat
    BY <2>1, WireAssumption DEF SentUpTo, NodeLine, CollectorIInv, CollectorTypeOK
  <2>3. TotalFrames(n) <= frame[p] - 1 /\ TotalFrames(n) \in Nat \ {0}
    <3>1. TotalFrames(n) \in Nat \ {0} /\ (TotalFrames(n) - 1) * b < n
      BY <2>2, RoundedUp
    <3>2. (frame[p] - 1) * b \in Nat /\ (TotalFrames(n) - 1) * b \in Nat
          /\ TotalFrames(n) - 1 \in Nat
      BY <2>2, <3>1
    <3>3. (frame[p] - 1) * b + 1 > n
      BY <2>1 DEF SentUpTo
    <3> HIDE DEF n, b
    <3>4. (TotalFrames(n) - 1) * b < (frame[p] - 1) * b
      BY <2>2, <3>1, <3>2, <3>3
    <3>5. TotalFrames(n) - 1 < frame[p] - 1
      BY <2>2, <3>2, <3>4, FactorsOrdered
    <3> QED BY <2>2, <3>1, <3>5
  <2>4. \A f \in 1 .. TotalFrames(n) : \E d \in sent : d.frame = f /\ d.text.count = n
    BY <2>1, <2>2, <2>3 DEF SentUpTo, SentBy, Cycle
  <2>5. \A d \in sent : d.text.count = n
    <3>1. PICK first \in sent : first.text.count = n
      BY <2>3, <2>4
    <3> QED BY <2>1, <3>1 DEF Slices, Cycle
  <2>6. \A d \in sent : d.text.lines \subseteq 1 .. n /\ d.frame \in 1 .. TotalFrames(n)
    BY <2>5 DEF WellCut, Cycle
  <2>7. \A k \in 1 .. n : \E d \in sent : k \in d.text.lines
    <3>1. \A k \in 1 .. n : k < line[p]
      BY <2>2 DEF CollectorIInv, CollectorTypeOK
    <3> QED BY <2>1, <3>1 DEF SentUpTo, SentBy, Cycle
  <2> HIDE DEF sent, n
  <2>8. UNION {d.text.lines : d \in sent} = 1 .. n
    BY <2>6, <2>7
  <2>9. {d.frame : d \in sent} = 1 .. TotalFrames(n)
    BY <2>4, <2>6
  <2> QED BY <2>8, <2>9 DEF sent, n
<1> QED BY <1>1, <1>2, CollectorInvariant, CoveredStep, PTL DEF CollectorSpec

-----------------------------------------------------------------------------
\* Message ids.  For the first MaxSeq + 1 cycles of a cluster: the counter goes
\* through its values once.

\* The id a script that starts now would take.
NextId(c) == IF seqFile[c] \in {Missing, Empty} THEN 0 ELSE seqFile[c]

\* n is above every id the cluster has sent and no larger than the number of its
\* cycles; or the cluster will not begin another one.
Above(c, n) ==
  \/ clock[c] = MaxEpoch
  \/ n <= clock[c] /\ \A d \in net : d.src = c => d.msg < n

\* What a pod knows of the counter of its cluster, wherever its script is.
KnowsCounter(p) ==
  LET c == ClusterOf[p] IN
  /\ pc[p] \in {"cycle", "sleep"} => counter[p] = NextId(c)
  /\ pc[p] = "write" => Above(c, counter[p])
  /\ pc[p] = "send" =>
       /\ counter[p] = NextId(c) /\ counter[p] < clock[c] /\ snap[p].epoch = clock[c]
       /\ \A d \in net : d.src = c =>
            \/ d.msg < counter[p]
            \/ frame[p] > 1 /\ d.msg = counter[p] /\ d.text.epoch = clock[c]

InStep(c) ==
  /\ \A p, q \in PodsOf(c) : pc[p] # "absent" /\ pc[q] # "absent" => p = q
  /\ \A p \in PodsOf(c) : KnowsCounter(p)
  /\ (\A p \in PodsOf(c) : pc[p] \notin {"send", "write"}) => Above(c, NextId(c))
  /\ \A d1, d2 \in net : (d1.src = c /\ LaterCycle(d1, d2)) => d1.msg < d2.msg

OrderlyInStep == \A c \in Cluster : orderly[c] => InStep(c)

\* The types that the proofs below look up.
LEMMA CollectorTypes ==
  ASSUME CollectorIInv
  PROVE  /\ pc \in [Pod -> {"absent", "boot", "cycle", "send", "write", "sleep"}]
         /\ counter \in [Pod -> MsgId]
         /\ snap \in [Pod -> [epoch : 0 .. MaxEpoch, count : 0 .. MaxNodes]]
         /\ line \in [Pod -> Nat \ {0}] /\ frame \in [Pod -> Nat \ {0}]
         /\ seqFile \in [Cluster -> SeqContent]
         /\ clock \in [Cluster -> 0 .. MaxEpoch] /\ orderly \in [Cluster -> BOOLEAN]
         /\ net \subseteq Datagram
         /\ ClusterOf \in [Pod -> Cluster] /\ MaxSeq \in Nat /\ MaxEpoch \in Nat
BY WireAssumption, CollectorAssumption DEF CollectorIInv, CollectorTypeOK

\* What a pod's step changes for message ids; the rest of its cluster stays.
Starts(p) ==   \* Boot
  /\ pc[p] = "boot" /\ pc'[p] = "cycle" /\ counter'[p] = NextId(ClusterOf[p])
  /\ UNCHANGED <<snap, frame, seqFile, clock, orderly, net>>

Begins(p) ==   \* BeginCycle
  LET c == ClusterOf[p] IN
  /\ pc[p] = "cycle" /\ pc'[p] = "send"
  /\ clock[c] < MaxEpoch /\ clock'[c] = clock[c] + 1
  /\ \A k \in Cluster : k # c => clock'[k] = clock[k]
  /\ snap'[p].epoch = clock[c] + 1 /\ frame'[p] = 1
  /\ UNCHANGED <<counter, seqFile, orderly, net>>

Sends(p) ==    \* SendFrame
  LET new == FrameOf(ClusterOf[p], counter[p], snap[p], frame[p], line[p]) IN
  /\ pc[p] = "send" /\ pc' = pc /\ net' = net \cup {new}
  /\ new.src = ClusterOf[p] /\ new.msg = counter[p] /\ new.text.epoch = snap[p].epoch
  /\ frame'[p] > 1
  /\ UNCHANGED <<counter, snap, seqFile, orderly, clock>>

Ends(p) ==     \* EndCycle
  /\ pc[p] = "send" /\ pc'[p] = "write"
  /\ counter'[p] = IF counter[p] = MaxSeq THEN 0 ELSE counter[p] + 1
  /\ seqFile' = [seqFile EXCEPT ![ClusterOf[p]] = Empty]
  /\ UNCHANGED <<snap, frame, orderly, clock, net>>

Writes(p) ==   \* WriteSeq
  /\ pc[p] = "write" /\ pc'[p] = "sleep"
  /\ seqFile' = [seqFile EXCEPT ![ClusterOf[p]] = counter[p]]
  /\ UNCHANGED <<counter, snap, frame, orderly, clock, net>>

Wakes(p) ==    \* Wake
  /\ pc[p] = "sleep" /\ pc'[p] = "cycle"
  /\ UNCHANGED <<counter, snap, frame, seqFile, orderly, clock, net>>

Appears(p) ==  \* StartPod
  LET c == ClusterOf[p] IN
  /\ pc[p] = "absent" /\ pc'[p] = "boot"
  /\ orderly'[c] => orderly[c] /\ \A q \in PodsOf(c) : pc[q] = "absent"
  /\ \A k \in Cluster : k # c => orderly'[k] = orderly[k]
  /\ UNCHANGED <<counter, snap, frame, seqFile, clock, net>>

Stops(p) ==    \* ExitScript and StopPod
  LET c == ClusterOf[p] IN
  /\ pc[p] # "absent" /\ pc'[p] \in {"absent", "boot"}
  /\ orderly'[c] => orderly[c] /\ ~Midway(p)
  /\ \A k \in Cluster : k # c => orderly'[k] = orderly[k]
  /\ UNCHANGED <<seqFile, clock, net>>

LEMMA PodStep ==
  ASSUME CollectorIInv, NEW p \in Pod, PodNext(p)
  PROVE  /\ \/ Starts(p) \/ Begins(p) \/ Sends(p) \/ Ends(p)
            \/ Writes(p) \/ Wakes(p) \/ Appears(p) \/ Stops(p)
         /\ \A q \in Pod : q # p => /\ pc'[q] = pc[q] /\ counter'[q] = counter[q]
                                    /\ snap'[q] = snap[q] /\ frame'[q] = frame[q]
<1>t. /\ pc \in [Pod -> {"absent", "boot", "cycle", "send", "write", "sleep"}]
      /\ counter \in [Pod -> MsgId] /\ counter[p] \in 0 .. MaxSeq
      /\ snap \in [Pod -> [epoch : 0 .. MaxEpoch, count : 0 .. MaxNodes]]
      /\ frame \in [Pod -> Nat \ {0}]
      /\ seqFile \in [Cluster -> SeqContent]
      /\ clock \in [Cluster -> 0 .. MaxEpoch] /\ orderly \in [Cluster -> BOOLEAN]
      /\ ClusterOf[p] \in Cluster /\ MaxSeq \in Nat /\ MaxEpoch \in Nat
  BY CollectorTypes DEF MsgId
<1>1. CASE Boot(p)
  BY <1>1, <1>t DEF Boot, Starts, NextId
<1>2. CASE BeginCycle(p)
  BY <1>2, <1>t DEF BeginCycle, Begins
<1>3. CASE SendFrame(p)
  <2> DEFINE new == FrameOf(ClusterOf[p], counter[p], snap[p], frame[p], line[p])
  <2>1. new.src = ClusterOf[p] /\ new.msg = counter[p] /\ new.text.epoch = snap[p].epoch
    BY DEF FrameOf
  <2> HIDE DEF new
  <2>2. frame[p] \in Nat \ {0} /\ frame'[p] = frame[p] + 1
    BY <1>3, <1>t DEF SendFrame
  <2>3. frame'[p] > 1
    BY <2>2
  <2>4. net' = net \cup {new}
    BY <1>3 DEF SendFrame, new
  <2>5. /\ pc[p] = "send" /\ UNCHANGED <<pc, counter, snap, seqFile, orderly, clock>>
        /\ \A q \in Pod : q # p => frame'[q] = frame[q]
    BY <1>3, <1>t DEF SendFrame
  <2>6. Sends(p)
    BY <2>1, <2>3, <2>4, <2>5 DEF Sends, new
  <2> QED BY <2>5, <2>6
<1>4. CASE EndCycle(p)
  <2>1. counter'[p] = IF counter[p] >= MaxSeq THEN 0 ELSE counter[p] + 1
    BY <1>4, <1>t DEF EndCycle
  <2>2. counter'[p] = IF counter[p] = MaxSeq THEN 0 ELSE counter[p] + 1
    BY <2>1, <1>t
  <2> QED BY <1>4, <1>t, <2>2 DEF EndCycle, Ends
<1>5. CASE WriteSeq(p) \/ Wake(p)
  BY <1>5, <1>t DEF WriteSeq, Wake, localVars, Writes, Wakes
<1>6. CASE StartPod(p)
  <2> DEFINE c == ClusterOf[p]
             beside == \E q \in PodsOf(c) : pc[q] # "absent"
  <2>1. orderly' = [orderly EXCEPT ![c] = orderly[c] /\ ~beside]
    BY <1>6 DEF StartPod, Disorder
  <2>2. orderly'[c] = (orderly[c] /\ ~beside) /\ \A k \in Cluster : k # c => orderly'[k] = orderly[k]
    BY <2>1, <1>t
  <2>3. /\ pc[p] = "absent" /\ pc' = [pc EXCEPT ![p] = "boot"]
        /\ UNCHANGED <<counter, snap, frame, seqFile, clock, net>>
    BY <1>6 DEF StartPod, localVars
  <2> QED BY <2>2, <2>3, <1>t DEF Appears
<1>7. CASE ExitScript(p) \/ StopPod(p)
  <2> DEFINE c == ClusterOf[p]
  <2>1. orderly' = [orderly EXCEPT ![c] = orderly[c] /\ ~Midway(p)]
    BY <1>7 DEF ExitScript, StopPod, Disorder
  <2>2. orderly'[c] = (orderly[c] /\ ~Midway(p))
        /\ \A k \in Cluster : k # c => orderly'[k] = orderly[k]
    BY <2>1, <1>t
  <2>3. /\ pc[p] # "absent" /\ \E next \in {"absent", "boot"} : pc' = [pc EXCEPT ![p] = next]
        /\ counter' = [counter EXCEPT ![p] = 0] /\ snap' = [snap EXCEPT ![p] = NoSnap]
        /\ frame' = [frame EXCEPT ![p] = 1]
        /\ UNCHANGED <<seqFile, clock, net>>
    BY <1>7 DEF ExitScript, StopPod, Forget
  <2> QED BY <2>2, <2>3, <1>t DEF Stops
<1> QED BY <1>1, <1>2, <1>3, <1>4, <1>5, <1>6, <1>7 DEF PodNext, ScriptStep

\* A step of a pod keeps the other clusters' counters in step.
LEMMA StepsStayHome ==
  ASSUME CollectorIInv, NEW p \in Pod, PodNext(p), NEW c \in Cluster, c # ClusterOf[p],
         InStep(c)
  PROVE  InStep(c)'
<1>1. /\ \A q \in PodsOf(c) : /\ q \in Pod /\ q # p /\ ClusterOf[q] = c
                              /\ pc'[q] = pc[q] /\ counter'[q] = counter[q]
                              /\ snap'[q] = snap[q] /\ frame'[q] = frame[q]
  BY PodStep DEF PodsOf
<1>2. clock'[c] = clock[c] /\ seqFile'[c] = seqFile[c]
  BY PodStep, CollectorTypes DEF Starts, Begins, Sends, Ends, Writes, Wakes, Appears, Stops
<1>3. \A d : (d \in net' /\ d.src = c) <=> (d \in net /\ d.src = c)
  BY PodStep DEF Starts, Begins, Sends, Ends, Writes, Wakes, Appears, Stops
<1>4. NextId(c)' = NextId(c) /\ \A n : Above(c, n)' <=> Above(c, n)
  BY <1>2, <1>3 DEF NextId, Above
<1>5. \A q \in PodsOf(c) : KnowsCounter(q)' <=> KnowsCounter(q)
  BY <1>1, <1>2, <1>3, <1>4 DEF KnowsCounter
<1>6. PodsOf(c)' = PodsOf(c)
  BY DEF PodsOf
<1> QED BY <1>1, <1>3, <1>4, <1>5, <1>6 DEF InStep, LaterCycle

\* A step of the pod of a cluster whose counter is in step.
LEMMA PodStaysInStep ==
  ASSUME MaxEpoch <= MaxSeq + 1, CollectorIInv, NEW p \in Pod, PodNext(p),
         NEW c \in Cluster, c = ClusterOf[p], InStep(c), orderly'[c]
  PROVE  InStep(c)'
<1>t. /\ pc[p] \in {"absent", "boot", "cycle", "send", "write", "sleep"}
      /\ counter[p] \in 0 .. MaxSeq /\ frame[p] \in Nat \ {0}
      /\ clock[c] \in Nat /\ clock[c] <= MaxEpoch /\ MaxSeq \in Nat /\ MaxEpoch \in Nat
      /\ seqFile \in [Cluster -> SeqContent]
      /\ p \in PodsOf(c) /\ PodsOf(c)' = PodsOf(c)
      /\ \A q \in PodsOf(c) : q \in Pod /\ ClusterOf[q] = c
      /\ \A d \in net : d.msg \in Nat /\ d.text.epoch \in Nat
  <2>1. /\ pc \in [Pod -> {"absent", "boot", "cycle", "send", "write", "sleep"}]
        /\ counter \in [Pod -> 0 .. MaxSeq] /\ frame \in [Pod -> Nat \ {0}]
        /\ seqFile \in [Cluster -> SeqContent] /\ clock \in [Cluster -> 0 .. MaxEpoch]
        /\ net \subseteq Datagram /\ MaxSeq \in Nat /\ MaxEpoch \in Nat
    BY CollectorTypes DEF MsgId
  <2>2. \A d \in net : d.msg \in Nat /\ d.text.epoch \in Nat
    BY <2>1 DEF Datagram, Text, MsgId
  <2>3. clock[c] \in 0 .. MaxEpoch
    BY <2>1
  <2> QED BY <2>1, <2>2, <2>3 DEF PodsOf
<1>e. \A d \in net : d.src = c => d.text.epoch <= clock[c]
  BY DEF CollectorIInv, Fresh
<1>n. NextId(c) \in Nat
  BY <1>t DEF NextId, SeqContent, MsgId
<1>1. \A q \in Pod : q # p => /\ pc'[q] = pc[q] /\ counter'[q] = counter[q]
                              /\ snap'[q] = snap[q] /\ frame'[q] = frame[q]
  BY PodStep
<1>2. /\ Starts(p) \/ Begins(p) \/ Sends(p) \/ Ends(p)
         \/ Writes(p) \/ Wakes(p) \/ Appears(p) \/ Stops(p)
  BY PodStep
<1>3. \A q \in PodsOf(c) : q # p => pc[q] = "absent" /\ pc'[q] = "absent"
  <2>1. CASE pc[p] # "absent"
    BY <2>1, <1>1, <1>t DEF InStep
  <2>2. CASE pc[p] = "absent"
    <3>1. Appears(p)
      BY <2>2, <1>2 DEF Starts, Begins, Sends, Ends, Writes, Wakes, Stops
    <3> QED BY <3>1, <1>1, <1>t DEF Appears
  <2> QED BY <2>1, <2>2
<1>4. \A q1, q2 \in PodsOf(c) : pc'[q1] # "absent" /\ pc'[q2] # "absent" => q1 = q2
  BY <1>3
<1>5. \A q \in PodsOf(c) : q # p => KnowsCounter(q)'
  BY <1>3 DEF KnowsCounter
<1>6. SUFFICES /\ KnowsCounter(p)'
               /\ pc'[p] \notin {"send", "write"} => Above(c, NextId(c))'
               /\ \A d1, d2 \in net' : (d1.src = c /\ LaterCycle(d1, d2)) => d1.msg < d2.msg
  BY <1>4, <1>5, <1>t DEF InStep, LaterCycle
<1>7. /\ KnowsCounter(p)
      /\ pc[p] \notin {"send", "write"} => Above(c, NextId(c))
      /\ \A d1, d2 \in net : (d1.src = c /\ LaterCycle(d1, d2)) => d1.msg < d2.msg
  BY <1>3, <1>t DEF InStep
<1>8. CASE Starts(p) \/ Wakes(p) \/ Appears(p)
  <2>1. /\ clock' = clock /\ net' = net /\ NextId(c)' = NextId(c)
        /\ pc[p] \notin {"send", "write"} /\ pc'[p] \in {"boot", "cycle"}
        /\ pc'[p] = "cycle" => counter'[p] = NextId(c)
    BY <1>8, <1>7 DEF Starts, Wakes, Appears, NextId, KnowsCounter
  <2> QED BY <2>1, <1>7, <1>t DEF KnowsCounter, Above
<1>9. CASE Begins(p)
  <2>1. /\ pc'[p] = "send" /\ counter'[p] = counter[p] /\ counter[p] = NextId(c)
        /\ NextId(c)' = NextId(c) /\ clock'[c] = clock[c] + 1 /\ clock[c] < MaxEpoch
        /\ snap'[p].epoch = clock'[c] /\ net' = net
    BY <1>9, <1>7 DEF Begins, NextId, KnowsCounter
  <2>2. counter[p] <= clock[c] /\ \A d \in net : d.src = c => d.msg < counter[p]
    BY <1>9, <2>1, <1>7, <1>t DEF Begins, Above
  <2>3. counter'[p] < clock'[c]
    BY <2>1, <2>2, <1>t
  <2> QED BY <2>1, <2>2, <2>3, <1>7, <1>t DEF KnowsCounter
<1>10. CASE Sends(p)
  <2> DEFINE new == FrameOf(ClusterOf[p], counter[p], snap[p], frame[p], line[p])
  <2>1. /\ pc[p] = "send" /\ pc'[p] = "send" /\ net' = net \cup {new}
        /\ new.src = c /\ new.msg = counter[p] /\ new.text.epoch = clock[c]
        /\ frame'[p] > 1 /\ NextId(c)' = NextId(c)
        /\ UNCHANGED <<counter, snap, clock>>
    BY <1>10, <1>7 DEF Sends, NextId, KnowsCounter
  <2> HIDE DEF new
  <2>2. \A d \in net : d.src = c =>
          d.msg < counter[p] \/ (d.msg = counter[p] /\ d.text.epoch = clock[c])
    BY <2>1, <1>7, <1>t DEF KnowsCounter
  <2>3. KnowsCounter(p)'
    BY <2>1, <2>2, <1>7, <1>t DEF KnowsCounter
  <2>4. ASSUME NEW d1 \in net', NEW d2 \in net', d1.src = c, d2.src = c,
               d1.text.epoch < d2.text.epoch
        PROVE  d1.msg < d2.msg
    <3>1. CASE d1 \in net /\ d2 \in net
      BY <3>1, <2>4, <1>7 DEF LaterCycle
    <3>2. CASE d1 = new
      BY <3>2, <2>1, <2>4, <1>e, <1>t
    <3>3. CASE d1 \in net /\ d2 = new
      BY <3>3, <2>1, <2>2, <2>4, <1>t
    <3> QED BY <2>1, <3>1, <3>2, <3>3
  <2> QED BY <2>1, <2>3, <2>4 DEF LaterCycle
<1>11. CASE Ends(p)
  <2>1. /\ pc[p] = "send" /\ pc'[p] = "write" /\ net' = net /\ clock' = clock
        /\ counter'[p] = IF counter[p] = MaxSeq THEN 0 ELSE counter[p] + 1
    BY <1>11 DEF Ends
  <2>2. counter[p] < clock[c] /\ \A d \in net : d.src = c => d.msg <= counter[p]
    BY <2>1, <1>7, <1>t DEF KnowsCounter
  <2>3. Above(c, counter'[p])
    <3>1. CASE counter[p] = MaxSeq
      BY <3>1, <2>2, <1>t DEF Above
    <3>2. CASE counter[p] # MaxSeq
      BY <3>2, <2>1, <2>2, <1>t DEF Above
    <3> QED BY <3>1, <3>2
  <2>4. Above(c, counter[p])'
    BY <2>1, <2>3 DEF Above
  <2> QED BY <2>1, <2>4, <1>7, <1>t DEF KnowsCounter
<1>12. CASE Writes(p)
  <2>1. /\ pc[p] = "write" /\ pc'[p] = "sleep" /\ net' = net /\ clock' = clock
        /\ counter' = counter /\ seqFile'[c] = counter[p]
    BY <1>12, <1>t DEF Writes
  <2>2. NextId(c)' = counter[p]
    BY <2>1, <1>t DEF NextId, Missing, Empty
  <2>3. Above(c, counter[p])
    BY <2>1, <1>7 DEF KnowsCounter
  <2>4. Above(c, NextId(c))'
    BY <2>1, <2>2, <2>3 DEF Above
  <2> QED BY <2>1, <2>2, <2>4, <1>7, <1>t DEF KnowsCounter
<1>13. CASE Stops(p)
  <2>1. /\ pc'[p] \in {"absent", "boot"} /\ net' = net /\ clock' = clock
        /\ NextId(c)' = NextId(c) /\ ~Midway(p)
    BY <1>13 DEF Stops, NextId
  <2>2. Above(c, NextId(c))
    <3>1. CASE pc[p] = "send"
      <4>1. ~(frame[p] > 1)
        BY <2>1, <3>1 DEF Midway
      <4> QED BY <3>1, <4>1, <1>7, <1>t DEF KnowsCounter, Above
    <3>2. CASE pc[p] # "send"
      BY <2>1, <3>2, <1>7 DEF Midway
    <3> QED BY <3>1, <3>2
  <2>3. Above(c, NextId(c))'
    BY <2>1, <2>2 DEF Above
  <2> QED BY <2>1, <2>3, <1>7, <1>t DEF KnowsCounter
<1> QED BY <1>2, <1>8, <1>9, <1>10, <1>11, <1>12, <1>13

LEMMA OrderlyStep ==
  ASSUME MaxEpoch <= MaxSeq + 1, CollectorIInv, OrderlyInStep,
         [CollectorNext \/ (ClockExhausted /\ UNCHANGED collectorVars)]_collectorVars
  PROVE  OrderlyInStep'
<1> SUFFICES ASSUME NEW c \in Cluster, orderly'[c] PROVE InStep(c)'
  BY DEF OrderlyInStep
<1>1. ASSUME NEW p \in Pod, PodNext(p) PROVE InStep(c)'
  <2>1. orderly[c]
    BY <1>1, PodStep DEF Starts, Begins, Sends, Ends, Writes, Wakes, Appears, Stops
  <2>2. InStep(c)
    BY <2>1 DEF OrderlyInStep
  <2> QED BY <1>1, <2>2, StepsStayHome, PodStaysInStep
<1>2. ASSUME UNCHANGED <<pc, counter, snap, frame, clock, net>>, seqFile'[c] = seqFile[c],
             orderly[c]
      PROVE  InStep(c)'
  <2>1. InStep(c)
    BY <1>2 DEF OrderlyInStep
  <2>2. NextId(c)' = NextId(c) /\ \A n : Above(c, n)' <=> Above(c, n)
    BY <1>2 DEF NextId, Above
  <2>3. \A q \in PodsOf(c) : ClusterOf[q] = c
    BY DEF PodsOf
  <2>4. \A q \in PodsOf(c) : KnowsCounter(q)' <=> KnowsCounter(q)
    BY <1>2, <2>2, <2>3 DEF KnowsCounter
  <2> QED BY <1>2, <2>1, <2>2, <2>4 DEF InStep, PodsOf, LaterCycle
<1>3. ASSUME NEW d \in Cluster, DeleteVolume(d) PROVE InStep(c)'
  <2>1. /\ UNCHANGED <<pc, counter, snap, frame, clock, net>>
        /\ seqFile' = [seqFile EXCEPT ![d] = Missing]
        /\ orderly' = [orderly EXCEPT ![d] = orderly[d] /\ ~TRUE]
    BY <1>3 DEF DeleteVolume, localVars, Disorder
  <2>2. c # d
    BY <2>1, CollectorTypes
  <2> QED BY <2>1, <2>2, <1>2, CollectorTypes
<1>4. CASE UNCHANGED collectorVars \/ \E d \in Cluster : Repayload(d)
  <2>1. UNCHANGED <<pc, counter, snap, frame, clock, orderly, net, seqFile>>
    BY <1>4 DEF Repayload, localVars, collectorVars
  <2> QED BY <2>1, <1>2
<1> QED BY <1>1, <1>3, <1>4 DEF CollectorNext

\* README.md 158-160, as far as the code keeps it: a later cycle has a larger
\* message id, across any number of script exits, pod replacements and payload
\* changes, until a pod is started beside another, a script ends between using an
\* id and storing the next, the volume is lost, or the counter has wrapped.
THEOREM IdsIncrease ==
  ASSUME MaxEpoch <= MaxSeq + 1
  PROVE  CollectorSpec => []MsgIdsIncrease
<1>1. CollectorInit => OrderlyInStep
  <2> SUFFICES ASSUME CollectorInit, NEW c \in Cluster PROVE InStep(c)
    BY DEF OrderlyInStep
  <2>1. net = {} /\ clock[c] = 0 /\ NextId(c) = 0 /\ \A p \in PodsOf(c) : pc[p] = "absent"
    BY DEF CollectorInit, NextId, PodsOf
  <2> QED BY <2>1 DEF InStep, KnowsCounter, Above
<1>2. CollectorIInv /\ OrderlyInStep
        /\ [CollectorNext \/ (ClockExhausted /\ UNCHANGED collectorVars)]_collectorVars
          => OrderlyInStep'
  BY OrderlyStep
<1>3. CollectorIInv /\ OrderlyInStep => MsgIdsIncrease
  <2> SUFFICES ASSUME CollectorIInv, OrderlyInStep, NEW d1 \in net, NEW d2 \in net,
                      orderly[d1.src], LaterCycle(d1, d2)
               PROVE  d1.msg < d2.msg
    BY DEF MsgIdsIncrease
  <2>1. d1.src \in Cluster
    BY DEF CollectorIInv, CollectorTypeOK, Datagram
  <2> QED BY <2>1 DEF OrderlyInStep, InStep
<1> QED BY <1>1, <1>2, <1>3, CollectorInvariant, PTL DEF CollectorSpec
=============================================================================
