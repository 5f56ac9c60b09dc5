------------------------------ MODULE Collector ------------------------------
(***************************************************************************)
(* The collector pods.  The operator's Deployment "clustersize" runs the   *)
(* bash loop of deployWorkloads (clustersizeconfig_controller.go:422-488)  *)
(* in a container per pod: read .seq_counter, then for ever snapshot the   *)
(* payload, slice its N lines into frames, sign and send every frame,      *)
(* advance the counter, rewrite .seq_counter and sleep.                    *)
(*                                                                         *)
(* A cluster has one Deployment but may have several pods at once: a       *)
(* rolling update starts the new pod before it stops the old one, and both *)
(* mount the same clustersize-log-pvc.  Under "set -e" any command that    *)
(* fails ends the script and the kubelet restarts the container.           *)
(***************************************************************************)
EXTENDS Wire

CONSTANTS
  Pod,        \* collector pods
  ClusterOf,  \* the cluster a pod runs in
  MaxFaults   \* bound: container exits, pod stops and volume deletions

ASSUME CollectorAssumption ==
  /\ IsFiniteSet(Pod)
  /\ ClusterOf \in [Pod -> Cluster]
  /\ MaxFaults \in Nat

VARIABLES
  pc,       \* where each pod's script is
  counter,  \* the shell variable COUNTER
  snap,     \* live_payload_base.txt of the current cycle
  line,     \* the loop variable s
  frame,    \* CURRENT_FRAME
  seqFile,  \* contents of .seq_counter on the cluster's volume
  payload,  \* number of N lines in the ConfigMap clustersize-payload-cm
  clock,    \* cycles a cluster has begun: the next LIVE_EPOCH
  orderly,  \* history: nothing has yet taken a cluster's counter out of step
  faults,   \* bound variable: exits, stops and volume deletions so far
  net       \* datagrams in flight

localVars == <<counter, snap, line, frame>>
collectorVars ==
  <<pc, counter, snap, line, frame, seqFile, payload, clock, orderly, faults, net>>

NoSnap == [epoch |-> 0, count |-> 0]
Missing == -1  \* no .seq_counter on the volume
Empty == -2    \* the redirection has truncated it, echo has not written

PodsOf(c) == {p \in Pod : ClusterOf[p] = c}

CollectorInit ==
  /\ pc = [p \in Pod |-> "absent"]
  /\ counter = [p \in Pod |-> 0]
  /\ snap = [p \in Pod |-> NoSnap]
  /\ line = [p \in Pod |-> 1]
  /\ frame = [p \in Pod |-> 1]
  /\ seqFile = [c \in Cluster |-> Missing]
  /\ payload \in [Cluster -> NodeLine]
  /\ clock = [c \in Cluster |-> 0]
  /\ orderly = [c \in Cluster |-> TRUE]
  /\ faults = 0
  /\ net = {}

-----------------------------------------------------------------------------
\* The script.

\* Mutant of Boot: the counter file is not read.
BootAtZero(p) ==
  /\ pc[p] = "boot"
  /\ counter' = [counter EXCEPT ![p] = 0]
  /\ pc' = [pc EXCEPT ![p] = "cycle"]
  /\ UNCHANGED <<snap, line, frame, seqFile, payload, clock, orderly, faults, net>>

\* COUNTER is the file's number.  A missing file gives 0, and so does an empty
\* one: printf and $(( )) both read an empty COUNTER as 0.
Boot(p) ==
  LET c == ClusterOf[p] IN
  /\ pc[p] = "boot"
  /\ counter' = [counter EXCEPT
       ![p] = IF seqFile[c] \in {Missing, Empty} THEN 0 ELSE seqFile[c]]
  /\ pc' = [pc EXCEPT ![p] = "cycle"]
  /\ UNCHANGED <<snap, line, frame, seqFile, payload, clock, orderly, faults, net>>

\* LIVE_EPOCH=$(date +%s), sed of the mounted payload, the greps and the frame
\* arithmetic.  A cluster that runs the pod has a node, so TOTAL_NODES > 0.
BeginCycle(p) ==
  LET c == ClusterOf[p] IN
  /\ pc[p] = "cycle"
  /\ clock[c] < MaxEpoch
  /\ clock' = [clock EXCEPT ![c] = @ + 1]
  /\ snap' = [snap EXCEPT ![p] = [epoch |-> clock[c] + 1, count |-> payload[c]]]
  /\ line' = [line EXCEPT ![p] = 1]
  /\ frame' = [frame EXCEPT ![p] = 1]
  /\ pc' = [pc EXCEPT ![p] = "send"]
  /\ UNCHANGED <<counter, seqFile, payload, orderly, faults, net>>

\* Mutant of SendFrame: s < TOTAL_NODES in the loop's condition.
SendFrameStopsEarly(p) ==
  /\ pc[p] = "send"
  /\ line[p] < snap[p].count
  /\ net' = net \cup {FrameOf(ClusterOf[p], counter[p], snap[p], frame[p], line[p])}
  /\ line' = [line EXCEPT ![p] = @ + NodesPerFrame]
  /\ frame' = [frame EXCEPT ![p] = @ + 1]
  /\ UNCHANGED <<pc, counter, snap, seqFile, payload, clock, orderly, faults>>

\* One round of the for loop: cut the chunk, sign it, write the datagram.
SendFrame(p) ==
  /\ pc[p] = "send"
  /\ line[p] <= snap[p].count
  /\ net' = net \cup {FrameOf(ClusterOf[p], counter[p], snap[p], frame[p], line[p])}
  /\ line' = [line EXCEPT ![p] = @ + NodesPerFrame]
  /\ frame' = [frame EXCEPT ![p] = @ + 1]
  /\ UNCHANGED <<pc, counter, snap, seqFile, payload, clock, orderly, faults>>

\* Mutant of EndCycle: COUNTER passes its largest value.
EndCyclePastMax(p) ==
  /\ pc[p] = "send"
  /\ line[p] > snap[p].count
  /\ counter' = [counter EXCEPT ![p] = IF @ > MaxSeq THEN 0 ELSE @ + 1]
  /\ seqFile' = [seqFile EXCEPT ![ClusterOf[p]] = Empty]
  /\ pc' = [pc EXCEPT ![p] = "write"]
  /\ UNCHANGED <<snap, line, frame, payload, clock, orderly, faults, net>>

\* COUNTER wraps or advances, and "> ${SEQ_FILE}" truncates the file.
EndCycle(p) ==
  /\ pc[p] = "send"
  /\ line[p] > snap[p].count
  /\ counter' = [counter EXCEPT ![p] = IF @ >= MaxSeq THEN 0 ELSE @ + 1]
  /\ seqFile' = [seqFile EXCEPT ![ClusterOf[p]] = Empty]
  /\ pc' = [pc EXCEPT ![p] = "write"]
  /\ UNCHANGED <<snap, line, frame, payload, clock, orderly, faults, net>>

\* echo ${COUNTER} reaches the file.
WriteSeq(p) ==
  /\ pc[p] = "write"
  /\ seqFile' = [seqFile EXCEPT ![ClusterOf[p]] = counter[p]]
  /\ pc' = [pc EXCEPT ![p] = "sleep"]
  /\ UNCHANGED <<localVars, payload, clock, orderly, faults, net>>

\* sleep ${CHECK_INTERVAL_SEC} returns.
Wake(p) ==
  /\ pc[p] = "sleep"
  /\ pc' = [pc EXCEPT ![p] = "cycle"]
  /\ UNCHANGED <<localVars, seqFile, payload, clock, orderly, faults, net>>

-----------------------------------------------------------------------------
\* The pod's life.

Forget(p) ==
  /\ counter' = [counter EXCEPT ![p] = 0]
  /\ snap' = [snap EXCEPT ![p] = NoSnap]
  /\ line' = [line EXCEPT ![p] = 1]
  /\ frame' = [frame EXCEPT ![p] = 1]

\* The script has used COUNTER and not yet stored the next one.
Midway(p) == pc[p] = "write" \/ (pc[p] = "send" /\ frame[p] > 1)

Disorder(c, when) == orderly' = [orderly EXCEPT ![c] = @ /\ ~when]

\* The Deployment's ReplicaSet starts a pod; during a rollout the previous one
\* may still run.
StartPod(p) ==
  /\ pc[p] = "absent"
  /\ clock[ClusterOf[p]] < MaxEpoch
  /\ pc' = [pc EXCEPT ![p] = "boot"]
  /\ Disorder(ClusterOf[p], \E q \in PodsOf(ClusterOf[p]) : pc[q] # "absent")
  /\ UNCHANGED <<localVars, seqFile, payload, clock, faults, net>>

\* A command fails under set -e, or the container is killed: the kubelet starts
\* the script again in the same pod.
ExitScript(p) ==
  /\ pc[p] \notin {"absent", "boot"}
  /\ faults < MaxFaults
  /\ faults' = faults + 1
  /\ pc' = [pc EXCEPT ![p] = "boot"]
  /\ Forget(p)
  /\ Disorder(ClusterOf[p], Midway(p))
  /\ UNCHANGED <<seqFile, payload, clock, net>>

\* The pod is deleted: end of a rollout, eviction, suspension.
StopPod(p) ==
  /\ pc[p] # "absent"
  /\ faults < MaxFaults
  /\ faults' = faults + 1
  /\ pc' = [pc EXCEPT ![p] = "absent"]
  /\ Forget(p)
  /\ Disorder(ClusterOf[p], Midway(p))
  /\ UNCHANGED <<seqFile, payload, clock, net>>

\* teardownWorkloads deletes clustersize-log-pvc; volume protection delays it
\* until no pod mounts the volume.
DeleteVolume(c) ==
  /\ \A p \in PodsOf(c) : pc[p] = "absent"
  /\ seqFile[c] # Missing
  /\ faults < MaxFaults
  /\ faults' = faults + 1
  /\ seqFile' = [seqFile EXCEPT ![c] = Missing]
  /\ Disorder(c, TRUE)
  /\ UNCHANGED <<pc, localVars, payload, clock, net>>

\* A reconcile rewrites the ConfigMap and the kubelet refreshes the mount.
Repayload(c) ==
  /\ clock[c] < MaxEpoch
  /\ \E n \in NodeLine \ {payload[c]} : payload' = [payload EXCEPT ![c] = n]
  /\ UNCHANGED <<pc, localVars, seqFile, clock, orderly, faults, net>>

ScriptStep(p) ==
  \/ Boot(p) \/ BeginCycle(p) \/ SendFrame(p)
  \/ EndCycle(p) \/ WriteSeq(p) \/ Wake(p)

PodNext(p) == ScriptStep(p) \/ StartPod(p) \/ ExitScript(p) \/ StopPod(p)

CollectorNext ==
  \/ \E p \in Pod : PodNext(p)
  \/ \E c \in Cluster : DeleteVolume(c) \/ Repayload(c)

\* The bound MaxEpoch has ended every cluster's cycles.
ClockExhausted ==
  \A p \in Pod : pc[p] \in {"absent", "cycle"} /\ clock[ClusterOf[p]] = MaxEpoch

CollectorSpec ==
  CollectorInit /\ [][CollectorNext \/ (ClockExhausted /\ UNCHANGED collectorVars)]_collectorVars

-----------------------------------------------------------------------------
\* Properties.  In this specification nothing takes datagrams out of net, so
\* net is everything the pods have sent.

SeqContent == MsgId \cup {Missing, Empty}

CollectorTypeOK ==
  /\ pc \in [Pod -> {"absent", "boot", "cycle", "send", "write", "sleep"}]
  /\ counter \in [Pod -> MsgId]
  /\ snap \in [Pod -> [epoch : 0 .. MaxEpoch, count : 0 .. MaxNodes]]
  /\ line \in [Pod -> Nat \ {0}]
  /\ frame \in [Pod -> Nat \ {0}]
  /\ seqFile \in [Cluster -> SeqContent]
  /\ payload \in [Cluster -> NodeLine]
  /\ clock \in [Cluster -> 0 .. MaxEpoch]
  /\ orderly \in [Cluster -> BOOLEAN]
  /\ faults \in 0 .. MaxFaults
  /\ net \subseteq Datagram

Cycle(c, e) == {d \in net : d.src = c /\ d.text.epoch = e}

\* The frames of one cycle are slices of one snapshot: same message, same
\* total, same node count, no N line in two frames, and frame numbers that do
\* not repeat, whatever crashes, rollouts or payload changes happen around it.
SlicesDisjoint ==
  \A c \in Cluster, e \in 1 .. MaxEpoch : \A d1, d2 \in Cycle(c, e) :
    /\ d1.msg = d2.msg /\ d1.total = d2.total /\ d1.text.count = d2.text.count
    /\ d1 # d2 => d1.frame # d2.frame /\ d1.text.lines \cap d2.text.lines = {}

\* Once the for loop of a cycle has ended, the frames sent for it carry every
\* N line of the snapshot, and they are numbered 1 .. TOTAL_FRAMES: the
\* receiver can complete exactly the message the collector meant.
CycleComplete ==
  \A p \in Pod :
    (pc[p] \in {"send", "write", "sleep"} /\ line[p] > snap[p].count) =>
      LET sent == Cycle(ClusterOf[p], snap[p].epoch) IN
      /\ UNION {d.text.lines : d \in sent} = 1 .. snap[p].count
      /\ {d.frame : d \in sent} = 1 .. TotalFrames(snap[p].count)

LaterCycle(d1, d2) == d1.src = d2.src /\ d1.text.epoch < d2.text.epoch

\* The ids of a cluster keep increasing from cycle to cycle over any number of
\* script exits, pod replacements and payload changes: the counter carries over in
\* the file.  Only three things take it out of step: a pod started beside
\* another, an end of the script after it used an id and before it stored the
\* next one, and the loss of the volume.  (Until the counter wraps, so this is
\* checked with MaxEpoch <= MaxSeq + 1.)
MsgIdsIncrease ==
  \A d1, d2 \in net : (orderly[d1.src] /\ LaterCycle(d1, d2)) => d1.msg < d2.msg

\* README.md:156: the ids let the receiver "uniquely identify transmission
\* windows".  No two cycles of a cluster send the same id.
IdsUnique == \A d1, d2 \in net : LaterCycle(d1, d2) => d1.msg # d2.msg
=============================================================================
