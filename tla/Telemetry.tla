------------------------------ MODULE Telemetry ------------------------------
(***************************************************************************)
(* The transport end to end: the collector pods of all clusters, UDP, and  *)
(* the receiver.  The two components share only net, the datagrams in      *)
(* flight.  UDP loses, reorders (net is a set) and repeats datagrams.      *)
(***************************************************************************)
EXTENDS Wire

CONSTANTS
  Pod, ClusterOf, MaxFaults,             \* of Collector
  Noise, Worker, MaxRepeats, MaxMishaps, \* of Receiver
  MaxLosses                              \* bound: datagrams the network loses

ASSUME TelemetryAssumption ==
  /\ IsFiniteSet(Pod) /\ ClusterOf \in [Pod -> Cluster] /\ MaxFaults \in Nat
  /\ IsFiniteSet(Worker) /\ MaxRepeats \in Nat /\ MaxMishaps \in Nat
  /\ MaxLosses \in Nat

VARIABLES
  pc, counter, snap, line, frame, seqFile, payload, clock, orderly, faults,
  net, status,
  buffer, jobs, worker, broken, log, idFile, lost, unread, repeats, mishaps,
  losses  \* bound variable

C == INSTANCE Collector
R == INSTANCE Receiver

pods == <<pc, counter, snap, line, frame, seqFile, payload, clock, orderly, faults>>
receiver == <<status, buffer, jobs, worker, broken, log, idFile, lost, unread, repeats, mishaps>>
vars == <<pods, net, receiver, losses>>

Init == C!CollectorInit /\ R!ReceiverInitExceptNet /\ losses = 0

\* UDP drops a datagram: its text is among those cut off.
Lose(d) ==
  /\ losses < MaxLosses
  /\ losses' = losses + 1
  /\ net' = net \ {d}
  /\ lost' = lost \cup {d.text}
  /\ UNCHANGED <<pods, status, buffer, jobs, worker, broken, log, idFile, unread, repeats, mishaps>>

CollectorStep == C!CollectorNext /\ UNCHANGED <<receiver, losses>>
ReceiverStep == R!ReceiverNext /\ UNCHANGED <<pods, losses>>

\* The bound on cycles has ended the collectors and nothing is left to process.
Finished ==
  C!ClockExhausted /\ status = "up" /\ net = {} /\ jobs = <<>> /\ worker = R!AllIdle

Next ==
  \/ CollectorStep
  \/ ReceiverStep
  \/ \E d \in net : Lose(d)
  \/ Finished /\ UNCHANGED vars

Spec == Init /\ [][Next]_vars

\* The Deployment gets its pods, and a running script, the receiver's loop and
\* the pool's workers keep executing.  Nothing obliges an exit, a stop, a loss
\* or a mishap of the receiver to happen.
Fairness ==
  /\ \A p \in Pod :
       WF_vars((C!StartPod(p) \/ C!ScriptStep(p)) /\ UNCHANGED <<receiver, losses>>)
  /\ WF_vars(status = "failed" /\ R!StartReceiver /\ UNCHANGED <<pods, losses>>)
  /\ WF_vars(R!Stopped /\ UNCHANGED <<pods, losses>>)
  /\ WF_vars((\E d \in net : R!MainLoop(d)) /\ UNCHANGED <<pods, losses>>)
  /\ \A w \in Worker : WF_vars(R!WorkerStep(w) /\ UNCHANGED <<pods, losses>>)

FairSpec == Spec /\ Fairness

-----------------------------------------------------------------------------
\* Properties.

SnapshotOf(e) == [cluster |-> e.texts[1].cluster, epoch |-> e.texts[1].epoch]

\* The snapshots of a log's OK reports, in log order.
OkReports(entries) ==
  LET upTo[n \in 0 .. Len(entries)] ==
        IF n = 0 THEN <<>>
        ELSE IF entries[n].status = "VERIFIED"
             THEN Append(upTo[n - 1], SnapshotOf(entries[n]))
             ELSE upTo[n - 1]
  IN  upTo[Len(entries)]

\* The audit trail the log is.
Audit == INSTANCE AuditTrail WITH latest <- clock, recorded <- OkReports(log)

\* Whatever is lost, repeated, reordered, mixed, restarted or killed, the OK
\* reports of the log are snapshots really taken, recorded at most once per
\* delivery.
RefinesAudit == Audit!AuditSpec

\* The network or a mishap of the receiver has cut off the message of this cycle,
\* or it is in flight to a receiver an interrupt has ended, which only its
\* administrator starts again.
CutOff(c, e) ==
  \/ \E t \in lost : t.cluster = c /\ t.epoch = e
  \/ status = "stopped" /\ \E d \in net : d.src = c /\ d.text.epoch = e

\* With one frame per message, and clusters that use the same ids: every datagram
\* sent ends up in an OK report, through the end or the restart of the receiver
\* and whatever befalls other messages, unless the network loses it or a mishap of
\* the receiver cuts off that very message.
SentIsRecorded ==
  \A c \in Cluster, e \in 1 .. MaxEpoch :
    (\E d \in net : d.src = c /\ d.text.epoch = e) ~> (Audit!Times(c, e) > 0 \/ CutOff(c, e))

\* And while no script has been interrupted, so does every snapshot a cluster
\* takes, although pods overlap and use the same ids.
TakenIsRecorded ==
  \A c \in Cluster, e \in 1 .. MaxEpoch :
    clock[c] >= e ~> (Audit!Times(c, e) > 0 \/ CutOff(c, e) \/ faults > 0)
=============================================================================
