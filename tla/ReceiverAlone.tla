---------------------------- MODULE ReceiverAlone ----------------------------
(***************************************************************************)
(* The receiver by itself: any part of one of the given traffics, sets of  *)
(* genuine and stray datagrams, arrives in any order.                      *)
(***************************************************************************)
EXTENDS Receiver

CONSTANT Traffics  \* sets of datagrams that may arrive together

Signed(d) == d.text.cluster = d.src /\ d.mac = MAC(SaltOf[d.src], <<d.text>>)
IsWhole(t) == t.lines = 1 .. t.count

\* What a collector's SendFrame puts on the wire (Collector!SendFrame): a text per
\* frame, which is the whole snapshot if there is only one.
Collected ==
  {d \in Datagram : /\ Signed(d)
                    /\ d.frame \in 1 .. d.total
                    /\ d.total = 1 => IsWhole(d.text)}

\* What telemetry_traffic_emulator.py sends: all nodes in one text, whose gzip
\* stays below the 8192 bytes of a chunk; so it never sends a second frame.
Emulated == {d \in Datagram : Signed(d) /\ d.frame = 1 /\ d.total = 1 /\ IsWhole(d.text)}

Genuine == Collected \cup Emulated

\* Two frames never have the same text: cycles differ in LIVE_EPOCH and the slices of
\* one snapshot in their lines (Collector!SlicesDisjoint).
ASSUME TrafficAssumption ==
  /\ \A traffic \in Traffics : \A d \in traffic \ Noise : d \in Genuine
  /\ \A traffic \in Traffics : \A d1, d2 \in traffic \ Noise : d1.text = d2.text => d1 = d2
  /\ Noise \cap Datagram = {}

Init == (\E traffic \in Traffics : net \in SUBSET traffic) /\ ReceiverInitExceptNet

\* recvfrom blocks and every worker waits for work.
Quiet == status = "up" /\ net = {} /\ jobs = <<>> /\ worker = AllIdle

Next == ReceiverNext \/ (Quiet /\ UNCHANGED receiverVars)

Spec == Init /\ [][Next]_receiverVars

\* What the pool has accepted and can join is neither dropped by the executor's
\* exit, nor by another message's failure, nor by a restart: it stays accepted until
\* it is in the daily log or a mishap cuts off that very message.
AcceptedUntilLogged ==
  [][\A t \in {d.text : d \in UNION Traffics \ Noise} :
       Accepted(t) => (Accepted(t) \/ Logged(t) \/ t \in lost)']_receiverVars
=============================================================================
