-------------------------- MODULE TelemetryProofs --------------------------
(***************************************************************************)
(* Telemetry implements AuditTrail, for any clusters and pods, any number  *)
(* of pool processes and any bounds: every step of the pods, the network   *)
(* and the receiver is a new snapshot, one OK report or nothing.           *)
(*                                                                         *)
(* What makes the recording step legal is a count.  A snapshot of one      *)
(* frame is with the pod that took it, in a datagram, in a submitted job,  *)
(* with a worker or in the log, and each delivery moves it on; so it is in *)
(* at most 1 + repeats of these places (Placed).  A message of several     *)
(* frames is never an OK report, because every HMAC is over one text.      *)
(***************************************************************************)
EXTENDS Telemetry, FiniteSetTheorems, WellFoundedInduction, TLAPS

\* A set of numbers that is not empty has a smallest one: what the proofs about
\* positions in a log use for induction.
LEMMA SmallestOf ==
  ASSUME NEW T, T \subseteq Nat, T # {}
  PROVE  \E x \in T : \A y \in T : x <= y
<1>1. IsWellFoundedOn(OpToRel(<, Nat), Nat)
  BY NatLessThanWellFounded
<1>2. PICK x \in T : \A y \in T : <<y, x>> \notin OpToRel(<, Nat)
  BY <1>1, WFMin
<1>3. \A y \in T : ~(y < x)
  BY <1>2 DEF OpToRel
<1> QED BY <1>3

\* What upTo of OkReports does with the n-th entry.
Longer(q, e) == IF e.status = "VERIFIED" THEN Append(q, SnapshotOf(e)) ELSE q

\* g is upTo for the first n entries of s.
IsTrail(g, s, n) ==
  g = [k \in 0 .. n |-> IF k = 0 THEN <<>> ELSE Longer(g[k - 1], s[k])]

Trail(s) == CHOOSE g : IsTrail(g, s, Len(s))

LEMMA TrailOf == ASSUME NEW s PROVE OkReports(s) = Trail(s)[Len(s)]
BY Zenon DEF OkReports, Trail, IsTrail, Longer

LEMMA TrailExists ==
  ASSUME NEW s, NEW n \in Nat
  PROVE  \E g : IsTrail(g, s, n)
<1> DEFINE T == {k \in Nat : ~ \E g : IsTrail(g, s, k)}
<1>1. CASE T = {}
  BY <1>1
<1>2. CASE T # {}
  <2>1. PICK x \in T : \A y \in T : x <= y
    BY <1>2, SmallestOf
  <2>2. CASE x = 0
    <3>1. IsTrail([k \in 0 .. 0 |-> <<>>], s, 0)
      BY DEF IsTrail
    <3> QED BY <2>1, <2>2, <3>1
  <2>3. CASE x # 0
    <3>1. x - 1 \in Nat /\ x - 1 \notin T /\ x \in Nat
      BY <2>1, <2>3
    <3>2. PICK g : IsTrail(g, s, x - 1)
      BY <3>1
    <3> DEFINE h == [k \in 0 .. x |-> IF k = x THEN Longer(g[x - 1], s[x]) ELSE g[k]]
    <3>3. \A k \in 0 .. x : h[k] = IF k = 0 THEN <<>> ELSE Longer(h[k - 1], s[k])
      <4> SUFFICES ASSUME NEW k \in 0 .. x
                   PROVE  h[k] = IF k = 0 THEN <<>> ELSE Longer(h[k - 1], s[k])
        OBVIOUS
      <4>1. CASE k = x
        BY <3>1, <4>1, <2>3
      <4>2. CASE k # x
        <5>1. k \in 0 .. x - 1 /\ h[k] = g[k]
          BY <3>1, <4>2
        <5>2. g[k] = IF k = 0 THEN <<>> ELSE Longer(g[k - 1], s[k])
          BY <3>2, <5>1 DEF IsTrail
        <5>3. k # 0 => k - 1 \in 0 .. x /\ k - 1 # x
          BY <5>1, <3>1
        <5> QED BY <5>1, <5>2, <5>3
      <4> QED BY <4>1, <4>2
    <3>4. IsTrail(h, s, x)
      <4> HIDE DEF h
      <4>1. DOMAIN h = 0 .. x /\ h = [k \in DOMAIN h |-> h[k]]
        BY DEF h
      <4> QED BY <4>1, <3>3 DEF IsTrail
    <3> QED BY <2>1, <3>4
  <2> QED BY <2>2, <2>3
<1> QED BY <1>1, <1>2

SameUpTo(s, t, n) == \A k \in 1 .. n : s[k] = t[k]

\* Two trails agree where the logs do.
LEMMA TrailsAgree ==
  ASSUME NEW f, NEW g, NEW s, NEW t, NEW m \in Nat, NEW n \in Nat,
         IsTrail(f, s, m), IsTrail(g, t, n), m <= n, SameUpTo(s, t, m)
  PROVE  f[m] = g[m]
<1> DEFINE T == {k \in 0 .. m : f[k] # g[k]}
<1>1. CASE T = {}
  BY <1>1
<1>2. CASE T # {}
  <2>1. PICK x \in T : \A y \in T : x <= y
    <3>1. T \subseteq Nat
      OBVIOUS
    <3> HIDE DEF T
    <3> QED BY <1>2, <3>1, SmallestOf
  <2>2. \A k \in 0 .. m : /\ f[k] = IF k = 0 THEN <<>> ELSE Longer(f[k - 1], s[k])
                          /\ g[k] = IF k = 0 THEN <<>> ELSE Longer(g[k - 1], t[k])
    <3>1. \A k \in 0 .. m : k \in 0 .. n
      OBVIOUS
    <3>2. \A k \in 0 .. n : g[k] = IF k = 0 THEN <<>> ELSE Longer(g[k - 1], t[k])
      BY DEF IsTrail
    <3>3. \A k \in 0 .. m : f[k] = IF k = 0 THEN <<>> ELSE Longer(f[k - 1], s[k])
      BY DEF IsTrail
    <3> QED BY <3>1, <3>2, <3>3
  <2>3. x \in Nat /\ x <= m /\ x # 0 /\ x - 1 \in 0 .. m /\ x - 1 \notin T
    BY <2>1, <2>2
  <2>4. f[x - 1] = g[x - 1] /\ s[x] = t[x]
    BY <2>3 DEF SameUpTo
  <2> QED BY <2>1, <2>2, <2>3, <2>4
<1> QED BY <1>1, <1>2

\* A report appended to the log is appended to its OK reports exactly if its
\* integrity is OK.
LEMMA OkReportsAppend ==
  ASSUME NEW S, NEW s \in Seq(S), NEW e \in S
  PROVE  OkReports(Append(s, e)) = Longer(OkReports(s), e)
<1> DEFINE t == Append(s, e)
           n == Len(s)
<1>1. /\ n \in Nat /\ t \in Seq(S) /\ Len(t) = n + 1 /\ t[n + 1] = e
      /\ \A k \in 1 .. n : s[k] = t[k]
  OBVIOUS
<1> HIDE DEF t, n
<1>2. IsTrail(Trail(s), s, n) /\ IsTrail(Trail(t), t, n + 1)
  <2>1. \E g : IsTrail(g, s, Len(s))
    BY <1>1, TrailExists DEF n
  <2>2. \E g : IsTrail(g, t, Len(t))
    BY <1>1, TrailExists
  <2> QED BY <2>1, <2>2, <1>1, Zenon DEF Trail, n
<1>3. Trail(s)[n] = Trail(t)[n]
  <2>1. n + 1 \in Nat /\ n <= n + 1
    BY <1>1
  <2>2. n \in Nat /\ SameUpTo(s, t, n)
    BY <1>1 DEF SameUpTo
  <2> QED BY <1>2, <2>1, <2>2, TrailsAgree
<1>4. Trail(t)[n + 1] = Longer(Trail(t)[n], e)
  BY <1>1, <1>2 DEF IsTrail
<1> QED BY <1>1, <1>3, <1>4, TrailOf DEF n, t

LEMMA OkReportsEmpty == OkReports(<<>>) = <<>>
<1>1. \E g : IsTrail(g, <<>>, 0)
  BY TrailExists
<1>2. IsTrail(Trail(<<>>), <<>>, 0)
  BY <1>1, Zenon, Len(<<>>) = 0 DEF Trail
<1> QED BY <1>2, TrailOf DEF IsTrail

\* A value of which only this is known: it is a finite sequence.
IsSequence(s) == \E S : s \in Seq(S)

\* What Append and Tail do to it.
LEMMA AppendShape ==
  ASSUME NEW s, IsSequence(s), NEW e
  PROVE  /\ IsSequence(Append(s, e)) /\ Len(Append(s, e)) = Len(s) + 1
         /\ Len(s) \in Nat /\ DOMAIN s = 1 .. Len(s) /\ DOMAIN Append(s, e) = 1 .. Len(s) + 1
         /\ \A k \in 1 .. Len(s) : Append(s, e)[k] = s[k]
         /\ Append(s, e)[Len(s) + 1] = e
         /\ \E S : s \in Seq(S) /\ e \in S
<1>1. PICK S : s \in Seq(S)
  BY DEF IsSequence
<1> DEFINE T == S \cup {e}
<1>2. s \in Seq(T)
  <2>1. Len(s) \in Nat /\ s = [k \in 1 .. Len(s) |-> s[k]] /\ \A k \in 1 .. Len(s) : s[k] \in T
    BY <1>1
  <2> QED BY <2>1
<1>3. e \in T
  OBVIOUS
<1> HIDE DEF T
<1>4. Append(s, e) \in Seq(T)
  BY <1>2, <1>3
<1> QED BY <1>2, <1>3, <1>4 DEF IsSequence

LEMMA TailShape ==
  ASSUME NEW s, IsSequence(s), s # <<>>
  PROVE  /\ IsSequence(Tail(s)) /\ Len(Tail(s)) = Len(s) - 1
         /\ Len(s) \in Nat \ {0} /\ DOMAIN s = 1 .. Len(s) /\ DOMAIN Tail(s) = 1 .. Len(s) - 1
         /\ \A k \in 1 .. Len(s) - 1 : Tail(s)[k] = s[k + 1]
         /\ Head(s) = s[1]
<1>1. PICK S : s \in Seq(S)
  BY DEF IsSequence
<1>2. Tail(s) \in Seq(S)
  BY <1>1
<1> QED BY <1>1, <1>2 DEF IsSequence

-----------------------------------------------------------------------------
\* The shapes of the values that travel.

\* The body of a frame: a text of some cluster and the HMAC over that text alone.
Body(b) == b.mac.over = <<b.text>> /\ b.text.cluster \in Cluster /\ b.text.epoch \in Nat

OneFrame(d) == d.total = 1 => d.frame = 1

SentFrame(d) ==
  /\ d.total \in Nat \ {0} /\ d.frame \in Nat \ {0} /\ OneFrame(d)
  /\ Body([text |-> d.text, mac |-> d.mac])

Bodies(frames) == \A k \in DOMAIN frames : Body(frames[k])
SoundJob(job) == job.total \in Nat \ {0} /\ Bodies(job.frames)

\* The first frame of a cycle starts at line 1; a second one only if the first
\* did not hold all lines.
Cutting(p) ==
  snap[p].count \in NodeLine /\ ((line[p] = 1 /\ frame[p] = 1) \/ line[p] > NodesPerFrame)

PodShape ==
  /\ pc \in [Pod -> {"absent", "boot", "cycle", "send", "write", "sleep"}]
  /\ snap \in [Pod -> [epoch : Nat, count : Nat]]
  /\ line \in [Pod -> Nat \ {0}] /\ frame \in [Pod -> Nat \ {0}]
  /\ payload \in [Cluster -> NodeLine] /\ clock \in [Cluster -> 0 .. MaxEpoch]
  /\ \A p \in Pod : pc[p] = "send" => Cutting(p)

NetShape == \A d \in net : SentFrame(d)

BufferShape ==
  \A m \in DOMAIN buffer : DOMAIN buffer[m] = {"total", "frames"} /\ Bodies(buffer[m].frames)

PoolShape ==
  /\ IsSequence(jobs)
  /\ \A k \in 1 .. Len(jobs) : SoundJob(jobs[k])
  /\ DOMAIN worker = Worker
  /\ \A w \in Worker : worker[w].step = "check" => SoundJob(worker[w].job)
  /\ IsSequence(log) /\ IsSequence(OkReports(log))
  /\ repeats \in 0 .. MaxRepeats

Shape == PodShape /\ NetShape /\ BufferShape /\ PoolShape

\* A frame holds NodesPerFrame lines, so a snapshot of more needs a second one.
LEMMA OneFrameHolds ==
  ASSUME NEW n \in NodeLine, TotalFrames(n) = 1
  PROVE  n <= NodesPerFrame
<1> DEFINE b == NodesPerFrame
           x == n + b - 1
<1>1. b \in Nat \ {0} /\ n \in Nat \ {0} /\ x \in Nat
  BY WireAssumption DEF NodeLine
<1>2. x \div b \in Nat /\ x < b * (x \div b) + b
  <2> HIDE DEF x
  <2> QED BY <1>1
<1>3. x \div b = 0 \/ x \div b = 1
  BY DEF TotalFrames
<1>4. CASE x \div b = 0
  <2>1. x < b * 0 + b
    BY <1>2, <1>4
  <2> QED BY <2>1, <1>1
<1>5. CASE x \div b = 1
  <2>1. x < b * 1 + b
    BY <1>2, <1>5
  <2> QED BY <2>1, <1>1
<1> QED BY <1>3, <1>4, <1>5

\* What SendFrame puts into net.
LEMMA FrameSent ==
  ASSUME NEW p \in Pod, PodShape, C!SendFrame(p)
  PROVE  \E d : /\ net' = net \cup {d} /\ SentFrame(d)
                /\ d.text.cluster = ClusterOf[p] /\ d.text.epoch = snap[p].epoch
                /\ d.total = 1 => line[p] = 1
<1> DEFINE n == snap[p].count
           text == [cluster |-> ClusterOf[p], epoch |-> snap[p].epoch, count |-> n,
                    lines |-> C!Chunk(n, line[p])]
           d == C!FrameOf(ClusterOf[p], counter[p], snap[p], frame[p], line[p])
<1>1. /\ net' = net \cup {d} /\ pc[p] = "send" /\ line[p] <= n
  BY DEF C!SendFrame
<1>2. /\ d.src = ClusterOf[p] /\ d.frame = frame[p] /\ d.total = TotalFrames(n)
      /\ d.text = text /\ d.mac = [salt |-> SaltOf[ClusterOf[p]], over |-> <<text>>]
  BY DEF C!FrameOf, C!MAC, C!TotalFrames, TotalFrames
<1>3. /\ n \in NodeLine /\ line[p] \in Nat \ {0} /\ frame[p] \in Nat \ {0}
      /\ (line[p] = 1 /\ frame[p] = 1) \/ line[p] > NodesPerFrame
  BY <1>1 DEF PodShape, Cutting
<1>4. TotalFrames(n) \in Nat \ {0}
  <2>1. (n + NodesPerFrame - 1) \div NodesPerFrame \in Nat
    BY <1>3, WireAssumption DEF NodeLine
  <2> QED BY <2>1 DEF TotalFrames
<1>5. TotalFrames(n) = 1 => line[p] = 1 /\ frame[p] = 1
  BY <1>1, <1>3, OneFrameHolds, WireAssumption DEF NodeLine
<1> HIDE DEF d, n
<1>6. SentFrame(d)
  <2>1. Body([text |-> d.text, mac |-> d.mac])
    <3>1. snap[p].epoch \in Nat
      BY DEF PodShape
    <3> QED BY <1>2, <3>1, TelemetryAssumption DEF Body
  <2> QED BY <2>1, <1>2, <1>3, <1>4, <1>5 DEF SentFrame, OneFrame
<1> QED BY <1>1, <1>2, <1>5, <1>6

-----------------------------------------------------------------------------
\* Every step keeps the shapes.

\* The steps of the receiver leave the pods alone, and those of the pods the
\* receiver.
LEMMA TwoSides ==
  /\ ReceiverStep => UNCHANGED <<pc, snap, line, frame, payload, clock, counter>>
  /\ CollectorStep => UNCHANGED <<buffer, jobs, worker, log, repeats>>
  /\ (\E d \in net : Lose(d)) =>
       /\ UNCHANGED <<pc, snap, line, frame, payload, clock, counter>>
       /\ UNCHANGED <<buffer, jobs, worker, log, repeats>> /\ net' \subseteq net
BY DEF ReceiverStep, CollectorStep, Lose, pods, receiver

LEMMA PodShapeStep ==
  ASSUME PodShape, [Next]_vars
  PROVE  PodShape'
<1>t. /\ pc \in [Pod -> {"absent", "boot", "cycle", "send", "write", "sleep"}]
      /\ snap \in [Pod -> [epoch : Nat, count : Nat]]
      /\ line \in [Pod -> Nat \ {0}] /\ frame \in [Pod -> Nat \ {0}]
      /\ payload \in [Cluster -> NodeLine] /\ clock \in [Cluster -> 0 .. MaxEpoch]
      /\ \A p \in Pod : pc[p] = "send" => Cutting(p)
      /\ MaxEpoch \in Nat /\ NodesPerFrame \in Nat \ {0} /\ NodeLine \subseteq Nat
      /\ ClusterOf \in [Pod -> Cluster]
  BY WireAssumption, TelemetryAssumption DEF PodShape, NodeLine
<1>1. ASSUME UNCHANGED <<pc, snap, line, frame, payload, clock>> PROVE PodShape'
  BY <1>1 DEF PodShape, Cutting
<1>2. ASSUME NEW p \in Pod, C!BeginCycle(p) PROVE PodShape'
  <2> DEFINE c == ClusterOf[p]
             s == [epoch |-> clock[c] + 1, count |-> payload[c]]
  <2>1. /\ pc' = [pc EXCEPT ![p] = "send"] /\ snap' = [snap EXCEPT ![p] = s]
        /\ line' = [line EXCEPT ![p] = 1] /\ frame' = [frame EXCEPT ![p] = 1]
        /\ payload' = payload /\ clock' = [clock EXCEPT ![c] = clock[c] + 1]
        /\ clock[c] < MaxEpoch
    BY <1>2 DEF C!BeginCycle
  <2>2. c \in Cluster /\ clock[c] \in 0 .. MaxEpoch /\ payload[c] \in NodeLine
    BY <1>t
  <2>3. s \in [epoch : Nat, count : Nat] /\ s.count \in NodeLine
    <3>1. clock[c] + 1 \in Nat
      <4> HIDE DEF c
      <4> QED BY <2>2, <1>t
    <3>2. payload[c] \in Nat
      BY <2>2, Zenon, <1>t
    <3> QED BY <3>1, <3>2, <2>2
  <2>a. clock[c] + 1 \in 0 .. MaxEpoch
    BY <2>1, <2>2, <1>t
  <2> HIDE DEF s, c
  <2>4. /\ pc' \in [Pod -> {"absent", "boot", "cycle", "send", "write", "sleep"}]
        /\ snap' \in [Pod -> [epoch : Nat, count : Nat]]
        /\ line' \in [Pod -> Nat \ {0}] /\ frame' \in [Pod -> Nat \ {0}]
        /\ clock' \in [Cluster -> 0 .. MaxEpoch]
    <3>1. pc' \in [Pod -> {"absent", "boot", "cycle", "send", "write", "sleep"}]
      BY <2>1, <1>t
    <3>2. snap' \in [Pod -> [epoch : Nat, count : Nat]]
      BY <2>1, <2>3, <1>t
    <3>3. line' \in [Pod -> Nat \ {0}] /\ frame' \in [Pod -> Nat \ {0}]
      BY <2>1, <1>t
    <3>4. clock' \in [Cluster -> 0 .. MaxEpoch]
      BY <2>1, <2>a, <1>t
    <3> QED BY <3>1, <3>2, <3>3, <3>4
  <2>5. \A q \in Pod : pc'[q] = "send" => Cutting(q)'
    BY <2>1, <2>3, <1>t DEF Cutting
  <2> QED BY <2>1, <2>4, <2>5, <1>t DEF PodShape
<1>3. ASSUME NEW p \in Pod, C!SendFrame(p) PROVE PodShape'
  <2>1. /\ pc[p] = "send" /\ UNCHANGED <<pc, snap, payload, clock>>
        /\ line' = [line EXCEPT ![p] = line[p] + NodesPerFrame]
        /\ frame' = [frame EXCEPT ![p] = frame[p] + 1]
    BY <1>3 DEF C!SendFrame
  <2>2. /\ line'[p] = line[p] + NodesPerFrame /\ line[p] \in Nat \ {0}
        /\ \A q \in Pod : q # p => line'[q] = line[q] /\ frame'[q] = frame[q]
    BY <2>1, <1>t
  <2>3. line'[p] > NodesPerFrame
    BY <2>2, <1>t
  <2>4. line' \in [Pod -> Nat \ {0}] /\ frame' \in [Pod -> Nat \ {0}]
    BY <2>1, <1>t
  <2>5. \A q \in Pod : pc'[q] = "send" => Cutting(q)'
    BY <2>1, <2>2, <2>3, <1>t DEF Cutting
  <2> QED BY <2>1, <2>4, <2>5, <1>t DEF PodShape
<1>4. ASSUME NEW p \in Pod, UNCHANGED <<payload, clock>>,
             \/ UNCHANGED <<snap, line, frame>>
             \/ /\ snap' = [snap EXCEPT ![p] = [epoch |-> 0, count |-> 0]]
                /\ line' = [line EXCEPT ![p] = 1] /\ frame' = [frame EXCEPT ![p] = 1],
             \E next \in {"absent", "boot", "cycle", "write", "sleep"} :
               pc' = [pc EXCEPT ![p] = next]
      PROVE  PodShape'
  <2>1. /\ pc' \in [Pod -> {"absent", "boot", "cycle", "send", "write", "sleep"}]
        /\ pc'[p] # "send" /\ \A q \in Pod : q # p => pc'[q] = pc[q]
    BY <1>4, <1>t
  <2>2. /\ snap' \in [Pod -> [epoch : Nat, count : Nat]]
        /\ line' \in [Pod -> Nat \ {0}] /\ frame' \in [Pod -> Nat \ {0}]
        /\ \A q \in Pod : q # p => snap'[q] = snap[q] /\ line'[q] = line[q] /\ frame'[q] = frame[q]
    <3>1. CASE UNCHANGED <<snap, line, frame>>
      BY <3>1, <1>t
    <3>2. CASE /\ snap' = [snap EXCEPT ![p] = [epoch |-> 0, count |-> 0]]
               /\ line' = [line EXCEPT ![p] = 1] /\ frame' = [frame EXCEPT ![p] = 1]
      <4>1. [epoch |-> 0, count |-> 0] \in [epoch : Nat, count : Nat]
        OBVIOUS
      <4>2. snap' \in [Pod -> [epoch : Nat, count : Nat]]
        BY <3>2, <4>1, <1>t
      <4>3. line' \in [Pod -> Nat \ {0}] /\ frame' \in [Pod -> Nat \ {0}]
        BY <3>2, <1>t
      <4>4. \A q \in Pod : q # p => snap'[q] = snap[q] /\ line'[q] = line[q] /\ frame'[q] = frame[q]
        BY <3>2, <1>t
      <4> QED BY <4>2, <4>3, <4>4
    <3> QED BY <3>1, <3>2, <1>4
  <2>3. \A q \in Pod : pc'[q] = "send" => Cutting(q)'
    BY <2>1, <2>2, <1>t DEF Cutting
  <2> QED BY <2>1, <2>2, <2>3, <1>4, <1>t DEF PodShape
<1>5. ASSUME NEW p \in Pod, C!PodNext(p) PROVE PodShape'
  <2>1. CASE C!Boot(p)
    <3>1. pc' = [pc EXCEPT ![p] = "cycle"] /\ UNCHANGED <<snap, line, frame, payload, clock>>
      BY <2>1 DEF C!Boot
    <3> QED BY <3>1, <1>4
  <2>2. CASE C!EndCycle(p)
    <3>1. pc' = [pc EXCEPT ![p] = "write"] /\ UNCHANGED <<snap, line, frame, payload, clock>>
      BY <2>2 DEF C!EndCycle
    <3> QED BY <3>1, <1>4
  <2>3. CASE C!WriteSeq(p) \/ C!Wake(p) \/ C!StartPod(p)
    <3>1. /\ \E next \in {"sleep", "cycle", "boot"} : pc' = [pc EXCEPT ![p] = next]
          /\ UNCHANGED <<snap, line, frame, payload, clock>>
      BY <2>3 DEF C!WriteSeq, C!Wake, C!StartPod, C!localVars
    <3> QED BY <3>1, <1>4
  <2>4. CASE C!ExitScript(p) \/ C!StopPod(p)
    <3>1. /\ \E next \in {"absent", "boot"} : pc' = [pc EXCEPT ![p] = next]
          /\ UNCHANGED <<payload, clock>>
          /\ snap' = [snap EXCEPT ![p] = [epoch |-> 0, count |-> 0]]
          /\ line' = [line EXCEPT ![p] = 1] /\ frame' = [frame EXCEPT ![p] = 1]
      BY <2>4 DEF C!ExitScript, C!StopPod, C!Forget, C!NoSnap
    <3> QED BY <3>1, <1>4
  <2> QED BY <1>2, <1>3, <1>5, <2>1, <2>2, <2>3, <2>4 DEF C!PodNext, C!ScriptStep
<1>6. ASSUME NEW c \in Cluster, C!DeleteVolume(c) \/ C!Repayload(c) PROVE PodShape'
  <2>1. /\ UNCHANGED <<pc, snap, line, frame, clock>>
        /\ payload' = payload \/ \E n \in NodeLine : payload' = [payload EXCEPT ![c] = n]
    BY <1>6 DEF C!DeleteVolume, C!Repayload, C!localVars, C!NodeLine, NodeLine
  <2> QED BY <2>1, <1>t DEF PodShape, Cutting
<1>7. CASE CollectorStep
  BY <1>5, <1>6, <1>7 DEF CollectorStep, C!CollectorNext
<1>8. CASE ReceiverStep \/ (\E d \in net : Lose(d))
  BY <1>1, <1>8, TwoSides
<1>9. CASE UNCHANGED vars
  BY <1>1, <1>9 DEF vars, pods
<1> QED BY <1>7, <1>8, <1>9 DEF Next

\* Only SendFrame puts a datagram into net.
LEMMA NetShapeStep ==
  ASSUME PodShape, NetShape, [Next]_vars
  PROVE  NetShape'
<1>1. ASSUME net' \subseteq net PROVE NetShape'
  BY <1>1 DEF NetShape
<1>2. ASSUME NEW p \in Pod, C!SendFrame(p) PROVE NetShape'
  <2>1. PICK d : net' = net \cup {d} /\ SentFrame(d)
    BY <1>2, FrameSent
  <2> QED BY <2>1 DEF NetShape
<1>3. ASSUME NEW p \in Pod, C!PodNext(p), ~C!SendFrame(p) PROVE net' = net
  BY <1>3 DEF C!PodNext, C!ScriptStep, C!Boot, C!BeginCycle, C!EndCycle, C!WriteSeq, C!Wake,
              C!StartPod, C!ExitScript, C!StopPod
<1>4. ASSUME NEW c \in Cluster, C!DeleteVolume(c) \/ C!Repayload(c) PROVE net' = net
  BY <1>4 DEF C!DeleteVolume, C!Repayload
<1>5. CASE CollectorStep
  BY <1>1, <1>2, <1>3, <1>4, <1>5 DEF CollectorStep, C!CollectorNext
<1>6. CASE ReceiverStep
  <2>1. ASSUME NEW d, R!MainLoop(d) PROVE net' \subseteq net
    BY <2>1 DEF R!MainLoop, R!SkipMalformed, R!StoreFrame, R!SubmitMessage, R!SubmitRaises, R!Recv
  <2>2. ASSUME NEW w \in Worker, R!WorkerStep(w) \/ R!WorkerMishap(w) PROVE net' = net
    BY <2>2
    DEF R!WorkerStep, R!TakeJob, R!JoinFails, R!WriteReport, R!ReadIds, R!AppendIds,
        R!WorkerMishap, R!WriteFails, R!ReadIdsFails, R!AppendIdsFails, R!WorkerDies
  <2>3. ASSUME R!StartReceiver \/ R!Interrupt \/ R!Stopped \/ R!KillReceiver PROVE net' \subseteq net
    BY <2>3 DEF R!StartReceiver, R!Interrupt, R!Stopped, R!KillReceiver
  <2> QED BY <2>1, <2>2, <2>3, <1>1, <1>6 DEF ReceiverStep, R!ReceiverNext
<1>7. CASE (\E d \in net : Lose(d)) \/ UNCHANGED vars
  BY <1>1, <1>7 DEF Lose, vars
<1> QED BY <1>5, <1>6, <1>7 DEF Next

\* Storing a frame keeps the entry's shape.
LEMMA StoredShape ==
  ASSUME BufferShape, NEW d, SentFrame(d)
  PROVE  /\ DOMAIN R!Stored(d) = {"total", "frames"} /\ Bodies(R!Stored(d).frames)
         /\ d.frame \in DOMAIN R!Stored(d).frames /\ R!Stored(d).frames[d.frame].text = d.text
<1> DEFINE old == IF d.msg \in DOMAIN buffer THEN buffer[d.msg]
                  ELSE [total |-> d.total, frames |-> R!NoFrames]
           new == [k \in DOMAIN old.frames \cup {d.frame} |->
                     IF k = d.frame THEN [text |-> d.text, mac |-> d.mac] ELSE old.frames[k]]
<1>1. DOMAIN old = {"total", "frames"} /\ Bodies(old.frames)
  <2>1. CASE d.msg \in DOMAIN buffer
    BY <2>1 DEF BufferShape
  <2>2. CASE d.msg \notin DOMAIN buffer
    <3>1. old.frames = <<>>
      BY <2>2 DEF R!NoFrames
    <3> QED BY <2>2, <3>1 DEF Bodies
  <2> QED BY <2>1, <2>2
<1>2. R!Stored(d) = [old EXCEPT !.frames = new]
  BY Zenon DEF R!Stored
<1>3. Body([text |-> d.text, mac |-> d.mac])
  BY DEF SentFrame
<1>4. Bodies(new)
  <2>1. \A k \in DOMAIN new : k = d.frame \/ k \in DOMAIN old.frames
    OBVIOUS
  <2> HIDE DEF old
  <2> QED BY <2>1, <1>1, <1>3 DEF Bodies
<1>5. d.frame \in DOMAIN new /\ new[d.frame].text = d.text
  OBVIOUS
<1> HIDE DEF old, new
<1>6. DOMAIN R!Stored(d) = {"total", "frames"} /\ R!Stored(d).frames = new
  BY <1>1, <1>2
<1> QED BY <1>4, <1>5, <1>6

LEMMA BufferShapeStep ==
  ASSUME NetShape, BufferShape, [Next]_vars
  PROVE  BufferShape'
<1>1. ASSUME buffer' = buffer \/ buffer' = <<>> PROVE BufferShape'
  <2>1. DOMAIN <<>> = {}
    OBVIOUS
  <2> QED BY <1>1, <2>1 DEF BufferShape
<1>2. ASSUME NEW d \in net, buffer' = R!BufferWith(d.msg, R!Stored(d)) PROVE BufferShape'
  <2>1. DOMAIN R!Stored(d) = {"total", "frames"} /\ Bodies(R!Stored(d).frames)
    BY StoredShape DEF NetShape
  <2>2. \A m \in DOMAIN buffer' :
          buffer'[m] = R!Stored(d) \/ (m \in DOMAIN buffer /\ buffer'[m] = buffer[m])
    BY <1>2 DEF R!BufferWith
  <2> QED BY <2>1, <2>2 DEF BufferShape
<1>3. ASSUME NEW d \in net, R!SubmitMessage(d) PROVE BufferShape'
  <2>1. \A m \in DOMAIN buffer' : m \in DOMAIN buffer /\ buffer'[m] = buffer[m]
    BY <1>3 DEF R!SubmitMessage, R!Restrict
  <2> QED BY <2>1 DEF BufferShape
<1>4. CASE ReceiverStep
  <2>1. ASSUME NEW d \in net, R!MainLoop(d) PROVE BufferShape'
    <3>1. R!SkipMalformed(d) => buffer' = buffer
      BY DEF R!SkipMalformed
    <3>2. R!StoreFrame(d) \/ R!SubmitRaises(d) => buffer' = R!BufferWith(d.msg, R!Stored(d))
      BY DEF R!StoreFrame, R!SubmitRaises
    <3> QED BY <2>1, <3>1, <3>2, <1>1, <1>2, <1>3 DEF R!MainLoop
  <2>2. ASSUME NEW w \in Worker, R!WorkerStep(w) \/ R!WorkerMishap(w) PROVE buffer' = buffer
    BY <2>2
    DEF R!WorkerStep, R!TakeJob, R!JoinFails, R!WriteReport, R!ReadIds, R!AppendIds,
        R!WorkerMishap, R!WriteFails, R!ReadIdsFails, R!AppendIdsFails, R!WorkerDies
  <2>3. ASSUME R!StartReceiver \/ R!Interrupt \/ R!Stopped \/ R!KillReceiver
        PROVE  buffer' = buffer \/ buffer' = <<>>
    BY <2>3 DEF R!StartReceiver, R!Interrupt, R!Stopped, R!KillReceiver, R!NoMessages
  <2> QED BY <2>1, <2>2, <2>3, <1>1, <1>4 DEF ReceiverStep, R!ReceiverNext
<1>5. CASE CollectorStep \/ (\E d \in net : Lose(d))
  BY <1>1, <1>5, TwoSides
<1>6. CASE UNCHANGED vars
  BY <1>1, <1>6 DEF vars, receiver
<1> QED BY <1>4, <1>5, <1>6 DEF Next

\* Only a text alone can equal what an HMAC is over.
LEMMA VerifiedIsAlone ==
  ASSUME NEW job, SoundJob(job), R!CanJoin(job), R!Status(job) = "VERIFIED"
  PROVE  /\ job.total = 1
         /\ job.frames[1].text.cluster \in Cluster /\ job.frames[1].text.epoch \in Nat
<1>1. job.total \in Nat \ {0} /\ 1 .. job.total \subseteq DOMAIN job.frames
  BY DEF SoundJob, R!CanJoin
<1> DEFINE b == job.frames[job.total]
           texts == [k \in 1 .. job.total |-> job.frames[k].text]
<1>2. Body(b)
  BY <1>1 DEF SoundJob, Bodies
<1>3. [salt |-> HmacSalt, over |-> texts] = b.mac
  <2>1. R!MAC(HmacSalt, texts) = b.mac
    <3>1. R!MAC(HmacSalt, R!TextsOf(job)) = R!LastMAC(job)
      BY Zenon, "VERIFIED" # "FAILED" DEF R!Status
    <3> QED BY <3>1, Zenon DEF R!TextsOf, R!LastMAC
  <2> QED BY <2>1, Zenon DEF R!MAC
<1>4. texts = <<b.text>>
  <2>1. b.mac.over = texts
    <3> HIDE DEF texts, b
    <3>1. b.mac.over = [salt |-> HmacSalt, over |-> texts].over
      BY <1>3
    <3> QED BY <3>1
  <2> QED BY <2>1, <1>2 DEF Body
<1>5. 1 .. job.total = 1 .. 1
  BY <1>4
<1>6. job.total = 1
  BY <1>5, <1>1
<1> QED BY <1>6, <1>2 DEF Body

\* The report a worker writes.
LEMMA ReportShape ==
  ASSUME NEW job, SoundJob(job), R!CanJoin(job)
  PROVE  /\ R!ReportOf(job).status = R!Status(job)
         /\ SnapshotOf(R!ReportOf(job)) = [cluster |-> job.frames[1].text.cluster,
                                           epoch |-> job.frames[1].text.epoch]
<1>1. 1 \in 1 .. job.total
  BY DEF SoundJob
<1>2. R!TextsOf(job)[1] = job.frames[1].text
  BY <1>1 DEF R!TextsOf
<1>3. R!ReportOf(job).status = R!Status(job) /\ R!ReportOf(job).texts = R!TextsOf(job)
  BY DEF R!ReportOf
<1> QED BY <1>2, <1>3 DEF SnapshotOf

\* The log and its OK reports after a report.
LEMMA LogShape ==
  ASSUME IsSequence(log), IsSequence(OkReports(log)), NEW e, log' = Append(log, e)
  PROVE  /\ IsSequence(log)' /\ IsSequence(OkReports(log))'
         /\ OkReports(log)' = Longer(OkReports(log), e)
<1>1. PICK S : log \in Seq(S) /\ e \in S
  BY AppendShape
<1>2. OkReports(log)' = Longer(OkReports(log), e)
  BY <1>1, OkReportsAppend
<1>3. IsSequence(Longer(OkReports(log), e))
  BY AppendShape DEF Longer
<1>4. IsSequence(log')
  BY AppendShape
<1> QED BY <1>2, <1>3, <1>4

\* A worker that has just stopped checking holds no job.
LEMMA WorkerSet ==
  ASSUME PoolShape, NEW w \in Worker, NEW s, worker' = [worker EXCEPT ![w] = s],
         s.step = "check" => SoundJob(s.job)
  PROVE  /\ DOMAIN worker' = Worker
         /\ \A v \in Worker : worker'[v].step = "check" => SoundJob(worker'[v].job)
BY DEF PoolShape

\* After one of these steps of a worker, or file operations that fail, it checks no job.
LEMMA ChecksNoLonger ==
  ASSUME NEW w \in Worker,
         \/ R!JoinFails(w) \/ R!ReadIds(w) \/ R!AppendIds(w)
         \/ R!WriteFails(w) \/ R!ReadIdsFails(w) \/ R!AppendIdsFails(w)
  PROVE  \E s : s.step # "check" /\ worker' = [worker EXCEPT ![w] = s]
<1>1. R!IdleWorker.step # "check" /\ \A ids : R!ToAppend(worker[w], ids).step # "check"
  BY DEF R!IdleWorker, R!ToAppend
<1>2. R!JoinFails(w) \/ R!AppendIds(w) \/ R!WriteFails(w) \/ R!AppendIdsFails(w)
        => worker' = [worker EXCEPT ![w] = R!IdleWorker]
  BY DEF R!JoinFails, R!AppendIds, R!WriteFails, R!AppendIdsFails
<1>3. R!ReadIds(w)
        => worker' = [worker EXCEPT ![w] = R!ToAppend(@, @.ids \ R!Range(idFile))]
  BY DEF R!ReadIds
<1>4. R!ReadIdsFails(w) => worker' = [worker EXCEPT ![w] = R!ToAppend(@, @.ids)]
  BY DEF R!ReadIdsFails
<1> QED BY <1>1, <1>2, <1>3, <1>4

LEMMA PoolShapeStep ==
  ASSUME NetShape, BufferShape, PoolShape, [Next]_vars
  PROVE  PoolShape'
<1>t. /\ IsSequence(jobs) /\ IsSequence(log) /\ IsSequence(OkReports(log))
      /\ \A k \in 1 .. Len(jobs) : SoundJob(jobs[k])
      /\ DOMAIN worker = Worker
      /\ \A w \in Worker : worker[w].step = "check" => SoundJob(worker[w].job)
      /\ repeats \in 0 .. MaxRepeats /\ MaxRepeats \in Nat
  BY TelemetryAssumption DEF PoolShape
<1>e. IsSequence(<<>>) /\ Len(<<>>) = 0
  BY <<>> \in Seq({}) DEF IsSequence
<1>1. ASSUME UNCHANGED log PROVE UNCHANGED OkReports(log)
  BY <1>1
<1>2. ASSUME UNCHANGED <<jobs, worker, log>>, repeats' \in 0 .. MaxRepeats PROVE PoolShape'
  BY <1>2, <1>1, <1>t DEF PoolShape
<1>3. ASSUME NEW d \in net, R!Recv(d) PROVE repeats' \in 0 .. MaxRepeats
  BY <1>3, <1>t DEF R!Recv
<1>4. ASSUME NEW d \in net, R!SubmitMessage(d) PROVE PoolShape'
  <2> DEFINE job == [msg |-> d.msg, src |-> d.src, total |-> d.total,
                     frames |-> R!Stored(d).frames]
  <2>1. jobs' = Append(jobs, job) /\ UNCHANGED <<worker, log>> /\ R!Recv(d)
    BY <1>4 DEF R!SubmitMessage
  <2>2. SoundJob(job)
    BY StoredShape DEF NetShape, SoundJob, SentFrame
  <2> HIDE DEF job
  <2>3. IsSequence(jobs') /\ \A k \in 1 .. Len(jobs') : SoundJob(jobs'[k])
    BY <2>1, <2>2, <1>t, AppendShape
  <2> QED BY <2>1, <2>3, <1>1, <1>3, <1>t DEF PoolShape
<1>5. ASSUME NEW w \in Worker, R!TakeJob(w) PROVE PoolShape'
  <2> DEFINE s == [step |-> "check", job |-> Head(jobs)]
  <2>1. /\ jobs # <<>> /\ jobs' = Tail(jobs) /\ worker' = [worker EXCEPT ![w] = s]
        /\ UNCHANGED <<log, repeats>>
    BY <1>5 DEF R!TakeJob
  <2>2. /\ IsSequence(jobs') /\ Len(jobs') = Len(jobs) - 1 /\ Len(jobs) \in Nat \ {0}
        /\ \A k \in 1 .. Len(jobs') : jobs'[k] = jobs[k + 1]
        /\ Head(jobs) = jobs[1]
    BY <2>1, <1>t, TailShape
  <2>3. /\ \A k \in 1 .. Len(jobs') : SoundJob(jobs'[k])
        /\ SoundJob(Head(jobs))
    BY <2>2, <1>t
  <2>4. /\ DOMAIN worker' = Worker
        /\ \A v \in Worker : worker'[v].step = "check" => SoundJob(worker'[v].job)
    <3>1. s.step = "check" => SoundJob(s.job)
      BY <2>3
    <3> HIDE DEF s
    <3> QED BY <2>1, <3>1, WorkerSet
  <2> QED BY <2>1, <2>2, <2>3, <2>4, <1>1, <1>t DEF PoolShape
<1>6. ASSUME NEW w \in Worker, R!WriteReport(w) PROVE PoolShape'
  <2> DEFINE s == [step |-> "read", ids |-> R!DiscoveredIds(worker[w].job),
                    texts |-> R!Range(R!TextsOf(worker[w].job))]
             e == R!ReportOf(worker[w].job)
  <2>1. /\ log' = Append(log, e) /\ worker' = [worker EXCEPT ![w] = s]
        /\ UNCHANGED <<jobs, repeats>>
    BY <1>6 DEF R!WriteReport
  <2>2. s.step # "check"
    OBVIOUS
  <2> HIDE DEF s, e
  <2>3. IsSequence(log)' /\ IsSequence(OkReports(log))'
    BY <2>1, <1>t, LogShape
  <2>4. /\ DOMAIN worker' = Worker
        /\ \A v \in Worker : worker'[v].step = "check" => SoundJob(worker'[v].job)
    BY <2>1, <2>2, WorkerSet
  <2> QED BY <2>1, <2>3, <2>4, <1>t DEF PoolShape
<1>7. ASSUME NEW w \in Worker,
             \/ R!JoinFails(w) \/ R!ReadIds(w) \/ R!AppendIds(w)
             \/ R!WriteFails(w) \/ R!ReadIdsFails(w) \/ R!AppendIdsFails(w)
      PROVE  PoolShape'
  <2>1. /\ \E s : s.step # "check" /\ worker' = [worker EXCEPT ![w] = s]
        /\ UNCHANGED <<jobs, log, repeats>>
    <3>1. UNCHANGED <<jobs, log, repeats>>
      BY <1>7 DEF R!JoinFails, R!ReadIds, R!AppendIds, R!WriteFails, R!ReadIdsFails, R!AppendIdsFails
    <3> QED BY <3>1, <1>7, ChecksNoLonger
  <2>2. /\ DOMAIN worker' = Worker
        /\ \A v \in Worker : worker'[v].step = "check" => SoundJob(worker'[v].job)
    BY <2>1, WorkerSet
  <2> QED BY <2>1, <2>2, <1>1, <1>t DEF PoolShape
<1>8. ASSUME jobs' = <<>>, worker' = R!AllIdle, UNCHANGED <<log, repeats>> PROVE PoolShape'
  <2>1. /\ DOMAIN worker' = Worker
        /\ \A v \in Worker : worker'[v].step = "check" => SoundJob(worker'[v].job)
    BY <1>8 DEF R!AllIdle, R!IdleWorker
  <2> QED BY <2>1, <1>8, <1>e, <1>1, <1>t DEF PoolShape
<1>9. CASE ReceiverStep
  <2>1. ASSUME NEW d \in net, R!MainLoop(d) PROVE PoolShape'
    <3>1. ASSUME R!SkipMalformed(d) \/ R!StoreFrame(d) \/ R!SubmitRaises(d) PROVE PoolShape'
      <4>1. UNCHANGED <<jobs, worker, log>> /\ R!Recv(d)
        BY <3>1 DEF R!SkipMalformed, R!StoreFrame, R!SubmitRaises, R!poolVars
      <4> QED BY <4>1, <1>2, <1>3
    <3> QED BY <2>1, <3>1, <1>4 DEF R!MainLoop
  <2>2. ASSUME NEW w \in Worker, R!WorkerStep(w) PROVE PoolShape'
    BY <2>2, <1>5, <1>6, <1>7 DEF R!WorkerStep
  <2>3. ASSUME NEW w \in Worker, R!WorkerMishap(w) PROVE PoolShape'
    BY <2>3, <1>7, <1>8 DEF R!WorkerMishap, R!WorkerDies
  <2>4. ASSUME R!StartReceiver \/ R!Stopped PROVE PoolShape'
    <3>1. UNCHANGED <<jobs, worker, log, repeats>>
      BY <2>4 DEF R!StartReceiver, R!Stopped, R!poolVars
    <3> QED BY <3>1, <1>2, <1>t
  <2>5. ASSUME R!Interrupt \/ R!KillReceiver PROVE PoolShape'
    <3>1. UNCHANGED <<log, repeats>>
      BY <2>5 DEF R!Interrupt, R!KillReceiver
    <3>2. \/ UNCHANGED <<jobs, worker>>
          \/ UNCHANGED jobs /\ worker' = R!AllIdle
          \/ jobs' = <<>> /\ worker' = R!AllIdle
      BY <2>5 DEF R!Interrupt, R!KillReceiver
    <3>3. ASSUME UNCHANGED jobs, worker' = R!AllIdle PROVE PoolShape'
      <4>1. /\ DOMAIN worker' = Worker
            /\ \A v \in Worker : worker'[v].step = "check" => SoundJob(worker'[v].job)
        BY <3>3 DEF R!AllIdle, R!IdleWorker
      <4> QED BY <4>1, <3>1, <3>3, <1>1, <1>t DEF PoolShape
    <3> QED BY <3>1, <3>2, <3>3, <1>2, <1>8, <1>t
  <2> QED BY <2>1, <2>2, <2>3, <2>4, <2>5, <1>9 DEF ReceiverStep, R!ReceiverNext
<1>10. CASE CollectorStep \/ (\E d \in net : Lose(d))
  BY <1>2, <1>10, <1>t, TwoSides
<1>11. CASE UNCHANGED vars
  BY <1>2, <1>11, <1>t DEF vars, receiver
<1> QED BY <1>9, <1>10, <1>11 DEF Next

\* In the first state there is nothing to have a shape.
LEMMA ShapeInit == ASSUME Init PROVE Shape
<1>1. PodShape
  <2>1. /\ pc = [p \in Pod |-> "absent"] /\ snap = [p \in Pod |-> [epoch |-> 0, count |-> 0]]
        /\ line = [p \in Pod |-> 1] /\ frame = [p \in Pod |-> 1]
        /\ payload \in [Cluster -> NodeLine] /\ clock = [c \in Cluster |-> 0]
    BY DEF Init, C!CollectorInit, C!NoSnap, C!NodeLine, NodeLine
  <2>2. [epoch |-> 0, count |-> 0] \in [epoch : Nat, count : Nat] /\ 0 \in 0 .. MaxEpoch
    BY WireAssumption
  <2>3. \A p \in Pod : pc[p] # "send"
    BY <2>1
  <2> QED BY <2>1, <2>2, <2>3 DEF PodShape
<1>2. NetShape /\ BufferShape
  <2>1. net = {} /\ buffer = <<>>
    BY DEF Init, C!CollectorInit, R!ReceiverInitExceptNet, R!NoMessages
  <2> QED BY <2>1 DEF NetShape, BufferShape
<1>3. PoolShape
  <2>1. jobs = <<>> /\ log = <<>> /\ worker = [w \in Worker |-> R!IdleWorker] /\ repeats = 0
    BY DEF Init, R!ReceiverInitExceptNet
  <2>2. IsSequence(<<>>) /\ Len(<<>>) = 0
    BY <<>> \in Seq({}) DEF IsSequence
  <2>3. OkReports(log) = <<>>
    BY <2>1, OkReportsEmpty
  <2> QED BY <2>1, <2>2, <2>3, TelemetryAssumption DEF PoolShape, R!IdleWorker
<1> QED BY <1>1, <1>2, <1>3 DEF Shape

-----------------------------------------------------------------------------
\* Where the snapshot of cluster c and epoch e is, if it is one frame.

IsOf(t, c, e) == t.cluster = c /\ t.epoch = e
JobOf(job, c, e) == job.total = 1 /\ IsOf(job.frames[1].text, c, e)

Unsent(c, e) ==
  {p \in Pod : pc[p] = "send" /\ line[p] = 1 /\ snap[p].epoch = e /\ ClusterOf[p] = c}
InFlight(c, e) == {d \in net : d.total = 1 /\ IsOf(d.text, c, e)}
Submitted(c, e) == {k \in 1 .. Len(jobs) : JobOf(jobs[k], c, e)}
Checked(c, e) == {w \in Worker : worker[w].step = "check" /\ JobOf(worker[w].job, c, e)}
Recorded(c, e) ==
  {i \in DOMAIN OkReports(log) : OkReports(log)[i] = [cluster |-> c, epoch |-> e]}

AllFinite(c, e) ==
  /\ IsFiniteSet(Unsent(c, e)) /\ IsFiniteSet(InFlight(c, e)) /\ IsFiniteSet(Submitted(c, e))
  /\ IsFiniteSet(Checked(c, e)) /\ IsFiniteSet(Recorded(c, e))
Copies(c, e) ==
  Cardinality(Unsent(c, e)) + Cardinality(InFlight(c, e)) + Cardinality(Submitted(c, e))
    + Cardinality(Checked(c, e)) + Cardinality(Recorded(c, e))

\* It is nowhere before it is taken, and then in one place, or in one more for
\* each repetition.
PlacedOnce(c, e) ==
  /\ AllFinite(c, e)
  /\ Copies(c, e) <= 1 + repeats
  /\ e \notin 1 .. clock[c] => Copies(c, e) = 0
Placed == \A c \in Cluster, e \in Nat : PlacedOnce(c, e)

\* B is A, or less.
Shrinks(A, B) == B \subseteq A
\* An element of A is gone, and at most one has come to B, which is C now.
Moves(A, A1, B, B1) == \E x \in A : A1 \subseteq A \ {x} /\ \E y : B1 \subseteq B \cup {y}

LEMMA ShrinkCounts ==
  ASSUME NEW A, NEW B, IsFiniteSet(A), Shrinks(A, B)
  PROVE  /\ IsFiniteSet(B) /\ Cardinality(A) \in Nat /\ Cardinality(B) \in Nat
         /\ Cardinality(B) <= Cardinality(A)
BY FS_Subset, FS_CardinalityType DEF Shrinks

LEMMA AddCounts ==
  ASSUME NEW A, NEW B, NEW y, IsFiniteSet(A), Shrinks(A \cup {y}, B)
  PROVE  /\ IsFiniteSet(B) /\ Cardinality(A) \in Nat /\ Cardinality(B) \in Nat
         /\ Cardinality(B) <= Cardinality(A) + 1
<1>1. /\ IsFiniteSet(A \cup {y}) /\ Cardinality(A) \in Nat
      /\ Cardinality(A \cup {y}) \in Nat /\ Cardinality(A \cup {y}) <= Cardinality(A) + 1
  BY FS_AddElement, FS_CardinalityType
<1> QED BY <1>1, ShrinkCounts

LEMMA RemoveCounts ==
  ASSUME NEW A, NEW B, NEW x \in A, IsFiniteSet(A), Shrinks(A \ {x}, B)
  PROVE  /\ IsFiniteSet(B) /\ Cardinality(A) \in Nat /\ Cardinality(B) \in Nat
         /\ Cardinality(B) + 1 <= Cardinality(A)
<1>1. /\ IsFiniteSet(A \ {x}) /\ Cardinality(A) \in Nat /\ Cardinality(A \ {x}) \in Nat
      /\ Cardinality(A \ {x}) = Cardinality(A) - 1
  BY FS_RemoveElement, FS_CardinalityType
<1>2. IsFiniteSet(B) /\ Cardinality(B) \in Nat /\ Cardinality(B) <= Cardinality(A \ {x})
  BY <1>1, ShrinkCounts
<1> QED BY <1>1, <1>2

LEMMA MoveCounts ==
  ASSUME NEW A, NEW A1, NEW B, NEW B1, IsFiniteSet(A), IsFiniteSet(B), Moves(A, A1, B, B1)
  PROVE  /\ IsFiniteSet(A1) /\ IsFiniteSet(B1)
         /\ Cardinality(A) \in Nat /\ Cardinality(A1) \in Nat
         /\ Cardinality(B) \in Nat /\ Cardinality(B1) \in Nat
         /\ Cardinality(A1) + Cardinality(B1) <= Cardinality(A) + Cardinality(B)
<1>1. PICK x \in A : Shrinks(A \ {x}, A1) /\ \E y : Shrinks(B \cup {y}, B1)
  BY DEF Moves, Shrinks
<1>2. IsFiniteSet(A1) /\ Cardinality(A) \in Nat /\ Cardinality(A1) \in Nat
      /\ Cardinality(A1) + 1 <= Cardinality(A)
  BY <1>1, RemoveCounts
<1>3. IsFiniteSet(B1) /\ Cardinality(B) \in Nat /\ Cardinality(B1) \in Nat
      /\ Cardinality(B1) <= Cardinality(B) + 1
  BY <1>1, AddCounts
<1> QED BY <1>2, <1>3

\* The five sets after a step hold no more than before.
NoMore(c, e) ==
  /\ IsFiniteSet(Unsent(c, e))' /\ IsFiniteSet(InFlight(c, e))' /\ IsFiniteSet(Submitted(c, e))'
  /\ IsFiniteSet(Checked(c, e))' /\ IsFiniteSet(Recorded(c, e))'
  /\ Copies(c, e)' \in Nat /\ Copies(c, e) \in Nat /\ Copies(c, e)' <= Copies(c, e)

LEMMA AllShrink ==
  ASSUME NEW c, NEW e, AllFinite(c, e),
         Shrinks(Unsent(c, e), Unsent(c, e)'), Shrinks(InFlight(c, e), InFlight(c, e)'),
         Shrinks(Submitted(c, e), Submitted(c, e)'), Shrinks(Checked(c, e), Checked(c, e)'),
         Shrinks(Recorded(c, e), Recorded(c, e)')
  PROVE  NoMore(c, e)
<1>1. /\ IsFiniteSet(Unsent(c, e)') /\ IsFiniteSet(InFlight(c, e)')
      /\ IsFiniteSet(Submitted(c, e)') /\ IsFiniteSet(Checked(c, e)')
      /\ IsFiniteSet(Recorded(c, e)')
  BY ShrinkCounts DEF AllFinite
<1> DEFINE N(A) == Cardinality(A)
<1>2. /\ N(Unsent(c, e)) \in Nat /\ N(Unsent(c, e)') \in Nat
      /\ N(Unsent(c, e)') <= N(Unsent(c, e))
  BY ShrinkCounts DEF AllFinite
<1>3. /\ N(InFlight(c, e)) \in Nat /\ N(InFlight(c, e)') \in Nat
      /\ N(InFlight(c, e)') <= N(InFlight(c, e))
  BY ShrinkCounts DEF AllFinite
<1>4. /\ N(Submitted(c, e)) \in Nat /\ N(Submitted(c, e)') \in Nat
      /\ N(Submitted(c, e)') <= N(Submitted(c, e))
  BY ShrinkCounts DEF AllFinite
<1>5. /\ N(Checked(c, e)) \in Nat /\ N(Checked(c, e)') \in Nat
      /\ N(Checked(c, e)') <= N(Checked(c, e))
  BY ShrinkCounts DEF AllFinite
<1>6. /\ N(Recorded(c, e)) \in Nat /\ N(Recorded(c, e)') \in Nat
      /\ N(Recorded(c, e)') <= N(Recorded(c, e))
  BY ShrinkCounts DEF AllFinite
<1> QED BY <1>1, <1>2, <1>3, <1>4, <1>5, <1>6 DEF NoMore, Copies

\* A pod sends it.
LEMMA SendCounts ==
  ASSUME NEW c, NEW e, AllFinite(c, e),
         Moves(Unsent(c, e), Unsent(c, e)', InFlight(c, e), InFlight(c, e)'),
         Shrinks(Submitted(c, e), Submitted(c, e)'),
         Shrinks(Checked(c, e), Checked(c, e)'),
         Shrinks(Recorded(c, e), Recorded(c, e)')
  PROVE  NoMore(c, e)
<1> DEFINE N(A) == Cardinality(A)
<1>1. /\ IsFiniteSet(Unsent(c, e)') /\ IsFiniteSet(InFlight(c, e)')
      /\ N(Unsent(c, e)) \in Nat /\ N(Unsent(c, e)') \in Nat
      /\ N(InFlight(c, e)) \in Nat /\ N(InFlight(c, e)') \in Nat
      /\ N(Unsent(c, e)') + N(InFlight(c, e)') <= N(Unsent(c, e)) + N(InFlight(c, e))
  BY MoveCounts DEF AllFinite
<1>2. /\ IsFiniteSet(Submitted(c, e)') /\ N(Submitted(c, e)) \in Nat
      /\ N(Submitted(c, e)') \in Nat /\ N(Submitted(c, e)') <= N(Submitted(c, e))
  BY ShrinkCounts DEF AllFinite
<1>3. /\ IsFiniteSet(Checked(c, e)') /\ N(Checked(c, e)) \in Nat
      /\ N(Checked(c, e)') \in Nat /\ N(Checked(c, e)') <= N(Checked(c, e))
  BY ShrinkCounts DEF AllFinite
<1>4. /\ IsFiniteSet(Recorded(c, e)') /\ N(Recorded(c, e)) \in Nat
      /\ N(Recorded(c, e)') \in Nat /\ N(Recorded(c, e)') <= N(Recorded(c, e))
  BY ShrinkCounts DEF AllFinite
<1> QED BY <1>1, <1>2, <1>3, <1>4 DEF NoMore, Copies

\* The main loop takes it out of net and submits it.
LEMMA SubmitCounts ==
  ASSUME NEW c, NEW e, AllFinite(c, e),
         Moves(InFlight(c, e), InFlight(c, e)', Submitted(c, e), Submitted(c, e)'),
         Shrinks(Unsent(c, e), Unsent(c, e)'),
         Shrinks(Checked(c, e), Checked(c, e)'),
         Shrinks(Recorded(c, e), Recorded(c, e)')
  PROVE  NoMore(c, e)
<1> DEFINE N(A) == Cardinality(A)
<1>1. /\ IsFiniteSet(InFlight(c, e)') /\ IsFiniteSet(Submitted(c, e)')
      /\ N(InFlight(c, e)) \in Nat /\ N(InFlight(c, e)') \in Nat
      /\ N(Submitted(c, e)) \in Nat /\ N(Submitted(c, e)') \in Nat
      /\ N(InFlight(c, e)') + N(Submitted(c, e)') <= N(InFlight(c, e)) + N(Submitted(c, e))
  BY MoveCounts DEF AllFinite
<1>2. /\ IsFiniteSet(Unsent(c, e)') /\ N(Unsent(c, e)) \in Nat
      /\ N(Unsent(c, e)') \in Nat /\ N(Unsent(c, e)') <= N(Unsent(c, e))
  BY ShrinkCounts DEF AllFinite
<1>3. /\ IsFiniteSet(Checked(c, e)') /\ N(Checked(c, e)) \in Nat
      /\ N(Checked(c, e)') \in Nat /\ N(Checked(c, e)') <= N(Checked(c, e))
  BY ShrinkCounts DEF AllFinite
<1>4. /\ IsFiniteSet(Recorded(c, e)') /\ N(Recorded(c, e)) \in Nat
      /\ N(Recorded(c, e)') \in Nat /\ N(Recorded(c, e)') <= N(Recorded(c, e))
  BY ShrinkCounts DEF AllFinite
<1> QED BY <1>1, <1>2, <1>3, <1>4 DEF NoMore, Copies

\* What TakeJob does: the numbers of the jobs left are one less.
Trades(A, A1, B, B1) ==
  /\ IsFiniteSet(A1) /\ IsFiniteSet(B1)
  /\ Cardinality(A) \in Nat /\ Cardinality(A1) \in Nat
  /\ Cardinality(B) \in Nat /\ Cardinality(B1) \in Nat
  /\ Cardinality(A1) + Cardinality(B1) <= Cardinality(A) + Cardinality(B)

\* A worker takes it.
LEMMA TakeCounts ==
  ASSUME NEW c, NEW e, AllFinite(c, e),
         Trades(Submitted(c, e), Submitted(c, e)', Checked(c, e), Checked(c, e)'),
         Shrinks(Unsent(c, e), Unsent(c, e)'),
         Shrinks(InFlight(c, e), InFlight(c, e)'),
         Shrinks(Recorded(c, e), Recorded(c, e)')
  PROVE  NoMore(c, e)
<1> DEFINE N(A) == Cardinality(A)
<1>1. /\ IsFiniteSet(Submitted(c, e)') /\ IsFiniteSet(Checked(c, e)')
      /\ N(Submitted(c, e)) \in Nat /\ N(Submitted(c, e)') \in Nat
      /\ N(Checked(c, e)) \in Nat /\ N(Checked(c, e)') \in Nat
      /\ N(Submitted(c, e)') + N(Checked(c, e)') <= N(Submitted(c, e)) + N(Checked(c, e))
  BY DEF Trades
<1>2. /\ IsFiniteSet(Unsent(c, e)') /\ N(Unsent(c, e)) \in Nat
      /\ N(Unsent(c, e)') \in Nat /\ N(Unsent(c, e)') <= N(Unsent(c, e))
  BY ShrinkCounts DEF AllFinite
<1>3. /\ IsFiniteSet(InFlight(c, e)') /\ N(InFlight(c, e)) \in Nat
      /\ N(InFlight(c, e)') \in Nat /\ N(InFlight(c, e)') <= N(InFlight(c, e))
  BY ShrinkCounts DEF AllFinite
<1>4. /\ IsFiniteSet(Recorded(c, e)') /\ N(Recorded(c, e)) \in Nat
      /\ N(Recorded(c, e)') \in Nat /\ N(Recorded(c, e)') <= N(Recorded(c, e))
  BY ShrinkCounts DEF AllFinite
<1> QED BY <1>1, <1>2, <1>3, <1>4 DEF NoMore, Copies

\* A worker reports it.
LEMMA RecordCounts ==
  ASSUME NEW c, NEW e, AllFinite(c, e),
         Moves(Checked(c, e), Checked(c, e)', Recorded(c, e), Recorded(c, e)'),
         Shrinks(Unsent(c, e), Unsent(c, e)'),
         Shrinks(InFlight(c, e), InFlight(c, e)'),
         Shrinks(Submitted(c, e), Submitted(c, e)')
  PROVE  NoMore(c, e)
<1> DEFINE N(A) == Cardinality(A)
<1>1. /\ IsFiniteSet(Checked(c, e)') /\ IsFiniteSet(Recorded(c, e)')
      /\ N(Checked(c, e)) \in Nat /\ N(Checked(c, e)') \in Nat
      /\ N(Recorded(c, e)) \in Nat /\ N(Recorded(c, e)') \in Nat
      /\ N(Checked(c, e)') + N(Recorded(c, e)') <= N(Checked(c, e)) + N(Recorded(c, e))
  BY MoveCounts DEF AllFinite
<1>2. /\ IsFiniteSet(Unsent(c, e)') /\ N(Unsent(c, e)) \in Nat
      /\ N(Unsent(c, e)') \in Nat /\ N(Unsent(c, e)') <= N(Unsent(c, e))
  BY ShrinkCounts DEF AllFinite
<1>3. /\ IsFiniteSet(InFlight(c, e)') /\ N(InFlight(c, e)) \in Nat
      /\ N(InFlight(c, e)') \in Nat /\ N(InFlight(c, e)') <= N(InFlight(c, e))
  BY ShrinkCounts DEF AllFinite
<1>4. /\ IsFiniteSet(Submitted(c, e)') /\ N(Submitted(c, e)) \in Nat
      /\ N(Submitted(c, e)') \in Nat /\ N(Submitted(c, e)') <= N(Submitted(c, e))
  BY ShrinkCounts DEF AllFinite
<1> QED BY <1>1, <1>2, <1>3, <1>4 DEF NoMore, Copies

\* A set of numbers with all of them one less.
LEMMA ShiftCounts ==
  ASSUME NEW A, NEW B, IsFiniteSet(A), A \subseteq Nat, B \subseteq Nat,
         \A k \in B : k + 1 \in A
  PROVE  IsFiniteSet(B) /\ Cardinality(B) <= Cardinality(A)
         /\ Cardinality(A) \in Nat /\ Cardinality(B) \in Nat
<1> DEFINE f == [k \in B |-> k + 1]
<1>1. f \in Injection(B, A)
  BY DEF Injection, IsInjective
<1> HIDE DEF f
<1> QED BY <1>1, FS_Injection, FS_CardinalityType

LEMMA StillPlaced ==
  ASSUME NEW c \in Cluster, NEW e \in Nat, PlacedOnce(c, e), NoMore(c, e),
         PodShape, PodShape', clock[c] <= clock'[c],
         PoolShape, PoolShape', repeats <= repeats'
  PROVE  PlacedOnce(c, e)'
<1>1. /\ repeats \in Nat /\ repeats' \in Nat
      /\ clock[c] \in Nat /\ clock'[c] \in Nat
  BY WireAssumption, TelemetryAssumption DEF PodShape, PoolShape
<1>2. /\ Copies(c, e)' \in Nat /\ Copies(c, e) \in Nat /\ Copies(c, e)' <= Copies(c, e)
      /\ AllFinite(c, e)'
  BY DEF NoMore, AllFinite
<1>3. Copies(c, e)' <= 1 + repeats'
  BY <1>1, <1>2 DEF PlacedOnce
<1>4. e \notin 1 .. clock'[c] => Copies(c, e)' = 0
  BY <1>1, <1>2 DEF PlacedOnce
<1> QED BY <1>2, <1>3, <1>4 DEF PlacedOnce

\* What a step leaves alone.
LEMMA Untouched ==
  ASSUME NEW c, NEW e
  PROVE  /\ UNCHANGED <<pc, line, snap>> => Shrinks(Unsent(c, e), Unsent(c, e)')
         /\ net' \subseteq net => Shrinks(InFlight(c, e), InFlight(c, e)')
         /\ UNCHANGED jobs => Shrinks(Submitted(c, e), Submitted(c, e)')
         /\ UNCHANGED worker => Shrinks(Checked(c, e), Checked(c, e)')
         /\ UNCHANGED log => Shrinks(Recorded(c, e), Recorded(c, e)')
<1>1. UNCHANGED <<pc, line, snap>> => Shrinks(Unsent(c, e), Unsent(c, e)')
  BY DEF Unsent, Shrinks
<1>2. net' \subseteq net => Shrinks(InFlight(c, e), InFlight(c, e)')
  BY DEF InFlight, Shrinks
<1>3. UNCHANGED jobs => Shrinks(Submitted(c, e), Submitted(c, e)')
  BY DEF Submitted, Shrinks
<1>4. UNCHANGED worker => Shrinks(Checked(c, e), Checked(c, e)')
  BY DEF Checked, Shrinks
<1>5. UNCHANGED log => Shrinks(Recorded(c, e), Recorded(c, e)')
  BY DEF Recorded, Shrinks
<1> QED BY <1>1, <1>2, <1>3, <1>4, <1>5

LEMMA SendFrameMoves ==
  ASSUME NEW c, NEW e, AllFinite(c, e), PodShape, NEW p \in Pod, C!SendFrame(p),
         UNCHANGED <<jobs, worker, log>>
  PROVE  NoMore(c, e)
<1>1. PICK d : /\ net' = net \cup {d}
               /\ d.text.cluster = ClusterOf[p] /\ d.text.epoch = snap[p].epoch
               /\ d.total = 1 => line[p] = 1
  BY FrameSent
<1>2. /\ pc[p] = "send" /\ UNCHANGED <<pc, snap>>
      /\ line' = [line EXCEPT ![p] = line[p] + NodesPerFrame]
  BY DEF C!SendFrame
<1>3. /\ \A q \in Pod : q # p => line'[q] = line[q]
      /\ line'[p] # 1
  <2>1. line \in [Pod -> Nat \ {0}] /\ NodesPerFrame \in Nat \ {0} /\ line[p] \in Nat \ {0}
    BY WireAssumption DEF PodShape
  <2> QED BY <1>2, <2>1
<1>4. /\ Shrinks(Submitted(c, e), Submitted(c, e)') /\ Shrinks(Checked(c, e), Checked(c, e)')
      /\ Shrinks(Recorded(c, e), Recorded(c, e)')
  BY Untouched
<1>5. Unsent(c, e)' \subseteq Unsent(c, e) \ {p}
  BY <1>2, <1>3 DEF Unsent
<1>6. CASE d.total = 1 /\ IsOf(d.text, c, e)
  <2>1. p \in Unsent(c, e)
    BY <1>1, <1>2, <1>6 DEF Unsent, IsOf
  <2>2. InFlight(c, e)' \subseteq InFlight(c, e) \cup {d}
    BY <1>1 DEF InFlight
  <2>3. Moves(Unsent(c, e), Unsent(c, e)', InFlight(c, e), InFlight(c, e)')
    BY <2>1, <2>2, <1>5 DEF Moves
  <2> QED BY <2>3, <1>4, SendCounts
<1>7. CASE ~(d.total = 1 /\ IsOf(d.text, c, e))
  <2>1. Shrinks(InFlight(c, e), InFlight(c, e)')
    BY <1>1, <1>7 DEF InFlight, Shrinks
  <2>2. Shrinks(Unsent(c, e), Unsent(c, e)')
    BY <1>5 DEF Shrinks
  <2> QED BY <2>1, <2>2, <1>4, AllShrink
<1> QED BY <1>6, <1>7

\* The epoch of a new snapshot has not been anywhere.
LEMMA BeginCyclePlaces ==
  ASSUME NEW c \in Cluster, NEW e \in Nat, PlacedOnce(c, e), Shape, Shape',
         NEW p \in Pod, C!BeginCycle(p), UNCHANGED <<jobs, worker, log, repeats>>
  PROVE  PlacedOnce(c, e)'
<1> DEFINE b == ClusterOf[p]
<1>1. /\ pc[p] = "cycle" /\ pc' = [pc EXCEPT ![p] = "send"]
      /\ snap' = [snap EXCEPT ![p] = [epoch |-> clock[b] + 1, count |-> payload[b]]]
      /\ line' = [line EXCEPT ![p] = 1]
      /\ clock' = [clock EXCEPT ![b] = clock[b] + 1]
      /\ UNCHANGED net
  BY DEF C!BeginCycle
<1>2. /\ b \in Cluster /\ clock \in [Cluster -> 0 .. MaxEpoch] /\ clock[b] \in Nat /\ clock[c] \in Nat
      /\ clock' \in [Cluster -> 0 .. MaxEpoch] /\ clock'[c] \in Nat
      /\ DOMAIN pc = Pod /\ DOMAIN snap = Pod /\ DOMAIN line = Pod
  BY WireAssumption, TelemetryAssumption DEF Shape, PodShape
<1> HIDE DEF b
<1>3. /\ \A q \in Pod : q # p => pc'[q] = pc[q] /\ snap'[q] = snap[q] /\ line'[q] = line[q]
      /\ snap'[p].epoch = clock[b] + 1
  BY <1>1, <1>2
<1>4. /\ c # b => clock'[c] = clock[c]
      /\ c = b => clock'[c] = clock[c] + 1
  BY <1>1, <1>2
<1>5. /\ Shrinks(Submitted(c, e), Submitted(c, e)') /\ Shrinks(Checked(c, e), Checked(c, e)')
      /\ Shrinks(Recorded(c, e), Recorded(c, e)') /\ Shrinks(InFlight(c, e), InFlight(c, e)')
  BY <1>1, Untouched
<1>6. AllFinite(c, e) /\ Copies(c, e) <= 1 + repeats
      /\ (e \notin 1 .. clock[c] => Copies(c, e) = 0)
  BY DEF PlacedOnce
<1>7. repeats \in Nat
  BY TelemetryAssumption DEF Shape, PoolShape
<1>8. CASE c = b /\ e = clock[b] + 1
  <2>1. Copies(c, e) = 0
    BY <1>2, <1>6, <1>8
  <2>2. Shrinks(Unsent(c, e) \cup {p}, Unsent(c, e)')
    BY <1>3 DEF Unsent, Shrinks
  <2> DEFINE N(A) == Cardinality(A)
  <2>3. /\ IsFiniteSet(Unsent(c, e)') /\ N(Unsent(c, e)) \in Nat /\ N(Unsent(c, e)') \in Nat
        /\ N(Unsent(c, e)') <= N(Unsent(c, e)) + 1
    BY <2>2, <1>6, AddCounts DEF AllFinite
  <2>4. /\ IsFiniteSet(InFlight(c, e)') /\ N(InFlight(c, e)) \in Nat
        /\ N(InFlight(c, e)') \in Nat /\ N(InFlight(c, e)') <= N(InFlight(c, e))
    BY <1>5, <1>6, ShrinkCounts DEF AllFinite
  <2>5. /\ IsFiniteSet(Submitted(c, e)') /\ N(Submitted(c, e)) \in Nat
        /\ N(Submitted(c, e)') \in Nat /\ N(Submitted(c, e)') <= N(Submitted(c, e))
    BY <1>5, <1>6, ShrinkCounts DEF AllFinite
  <2>6. /\ IsFiniteSet(Checked(c, e)') /\ N(Checked(c, e)) \in Nat
        /\ N(Checked(c, e)') \in Nat /\ N(Checked(c, e)') <= N(Checked(c, e))
    BY <1>5, <1>6, ShrinkCounts DEF AllFinite
  <2>7. /\ IsFiniteSet(Recorded(c, e)') /\ N(Recorded(c, e)) \in Nat
        /\ N(Recorded(c, e)') \in Nat /\ N(Recorded(c, e)') <= N(Recorded(c, e))
    BY <1>5, <1>6, ShrinkCounts DEF AllFinite
  <2>8. Copies(c, e)' <= Copies(c, e) + 1 /\ AllFinite(c, e)'
    BY <2>3, <2>4, <2>5, <2>6, <2>7 DEF Copies, AllFinite
  <2>9. e \in 1 .. clock'[c]
    BY <1>2, <1>4, <1>8
  <2>10. Copies(c, e)' \in Nat
    BY <2>3, <2>4, <2>5, <2>6, <2>7 DEF Copies
  <2> QED BY <2>1, <2>8, <2>9, <2>10, <1>7 DEF PlacedOnce
<1>9. CASE ~(c = b /\ e = clock[b] + 1)
  <2>1. Shrinks(Unsent(c, e), Unsent(c, e)')
    BY <1>3, <1>9 DEF Unsent, Shrinks, b
  <2>2. NoMore(c, e)
    BY <2>1, <1>5, <1>6, AllShrink
  <2>3. clock[c] <= clock'[c] /\ repeats <= repeats'
    BY <1>2, <1>4, <1>7
  <2> QED BY <2>2, <2>3, StillPlaced DEF Shape
<1> QED BY <1>8, <1>9

\* A pass of the main loop that submits: the datagram leaves net, or the network
\* has repeated it.
LEMMA SubmitPlaces ==
  ASSUME NEW c \in Cluster, NEW e \in Nat, PlacedOnce(c, e), Shape, Shape',
         NEW d \in net, R!SubmitMessage(d), UNCHANGED <<pc, snap, line, clock>>
  PROVE  PlacedOnce(c, e)'
<1> DEFINE job == [msg |-> d.msg, src |-> d.src, total |-> d.total,
                   frames |-> R!Stored(d).frames]
<1>1. /\ jobs' = Append(jobs, job) /\ UNCHANGED <<worker, log>>
      /\ \/ net' = net \ {d} /\ repeats' = repeats
         \/ repeats' = repeats + 1 /\ net' = net
  BY DEF R!SubmitMessage, R!Recv
<1>2. d.total = 1 => job.frames[1].text = d.text /\ job.total = 1
  <2>1. d.total = 1 => d.frame = 1
    BY DEF Shape, NetShape, SentFrame, OneFrame
  <2>2. R!Stored(d).frames[d.frame].text = d.text
    BY StoredShape DEF Shape, NetShape
  <2> QED BY <2>1, <2>2
<1>3. job.total = d.total
  OBVIOUS
<1> HIDE DEF job
<1>4. /\ Shrinks(Unsent(c, e), Unsent(c, e)') /\ Shrinks(Checked(c, e), Checked(c, e)')
      /\ Shrinks(Recorded(c, e), Recorded(c, e)') /\ Shrinks(InFlight(c, e), InFlight(c, e)')
  BY <1>1, Untouched
<1>5. /\ Len(jobs') = Len(jobs) + 1 /\ Len(jobs) \in Nat /\ jobs'[Len(jobs) + 1] = job
      /\ \A k \in 1 .. Len(jobs) : jobs'[k] = jobs[k]
  BY <1>1, AppendShape DEF Shape, PoolShape
<1>6. Shrinks(Submitted(c, e) \cup {Len(jobs) + 1}, Submitted(c, e)')
  BY <1>5 DEF Submitted, Shrinks
<1>7. /\ AllFinite(c, e) /\ Copies(c, e) <= 1 + repeats
      /\ e \notin 1 .. clock[c] => Copies(c, e) = 0
  BY DEF PlacedOnce
<1>8. repeats \in Nat /\ repeats <= repeats' /\ clock[c] <= clock'[c] /\ clock'[c] = clock[c]
  BY <1>1, TelemetryAssumption, WireAssumption DEF Shape, PoolShape, PodShape
<1>9. CASE JobOf(job, c, e)
  <2>1. d \in InFlight(c, e)
    BY <1>2, <1>3, <1>9 DEF JobOf, InFlight
  <2>2. CASE net' = net \ {d}
    <3>1. InFlight(c, e)' \subseteq InFlight(c, e) \ {d}
      BY <2>2 DEF InFlight
    <3>2. Moves(InFlight(c, e), InFlight(c, e)', Submitted(c, e), Submitted(c, e)')
      BY <1>6, <2>1, <3>1 DEF Moves, Shrinks
    <3>3. NoMore(c, e)
      BY <1>4, <1>7, <3>2, SubmitCounts
    <3> QED BY <3>3, <1>8, StillPlaced DEF Shape
  <2>3. CASE repeats' = repeats + 1
    <3> DEFINE N(A) == Cardinality(A)
    <3>1. /\ IsFiniteSet(Submitted(c, e)') /\ N(Submitted(c, e)) \in Nat
          /\ N(Submitted(c, e)') \in Nat /\ N(Submitted(c, e)') <= N(Submitted(c, e)) + 1
      BY <1>6, <1>7, AddCounts DEF AllFinite
    <3>2. /\ IsFiniteSet(InFlight(c, e)') /\ N(InFlight(c, e)) \in Nat
          /\ N(InFlight(c, e)') \in Nat /\ N(InFlight(c, e)') <= N(InFlight(c, e))
      BY <1>4, <1>7, ShrinkCounts DEF AllFinite
    <3>3. /\ IsFiniteSet(Unsent(c, e)') /\ N(Unsent(c, e)) \in Nat
          /\ N(Unsent(c, e)') \in Nat /\ N(Unsent(c, e)') <= N(Unsent(c, e))
      BY <1>4, <1>7, ShrinkCounts DEF AllFinite
    <3>4. /\ IsFiniteSet(Checked(c, e)') /\ N(Checked(c, e)) \in Nat
          /\ N(Checked(c, e)') \in Nat /\ N(Checked(c, e)') <= N(Checked(c, e))
      BY <1>4, <1>7, ShrinkCounts DEF AllFinite
    <3>5. /\ IsFiniteSet(Recorded(c, e)') /\ N(Recorded(c, e)) \in Nat
          /\ N(Recorded(c, e)') \in Nat /\ N(Recorded(c, e)') <= N(Recorded(c, e))
      BY <1>4, <1>7, ShrinkCounts DEF AllFinite
    <3>6. /\ Copies(c, e)' <= Copies(c, e) + 1 /\ AllFinite(c, e)'
          /\ Copies(c, e) \in Nat /\ Copies(c, e)' \in Nat
      BY <3>1, <3>2, <3>3, <3>4, <3>5 DEF Copies, AllFinite
    <3>7. Copies(c, e) # 0
      <4>1. N(InFlight(c, e)) # 0
        BY <2>1, <1>7, FS_EmptySet DEF AllFinite
      <4>2. Copies(c, e) = N(Unsent(c, e)) + N(InFlight(c, e)) + N(Submitted(c, e))
                             + N(Checked(c, e)) + N(Recorded(c, e))
        BY DEF Copies
      <4>3. /\ N(Unsent(c, e)) \in Nat /\ N(InFlight(c, e)) \in Nat /\ N(Submitted(c, e)) \in Nat
            /\ N(Checked(c, e)) \in Nat /\ N(Recorded(c, e)) \in Nat
        BY <3>1, <3>2, <3>3, <3>4, <3>5
      <4>4. \A i, j, k, m, n \in Nat : j # 0 => i + j + k + m + n # 0
        OBVIOUS
      <4> HIDE DEF N
      <4> QED BY <4>1, <4>2, <4>3, <4>4, Zenon
    <3>8. Copies(c, e)' <= 1 + repeats'
      BY <3>6, <2>3, <1>7, <1>8
    <3> QED BY <3>6, <3>7, <3>8, <1>7, <1>8 DEF PlacedOnce
  <2> QED BY <2>2, <2>3, <1>1
<1>10. CASE ~JobOf(job, c, e)
  <2>1. Shrinks(Submitted(c, e), Submitted(c, e)')
    BY <1>5, <1>10 DEF Submitted, Shrinks
  <2>2. NoMore(c, e)
    BY <2>1, <1>4, <1>7, AllShrink
  <2> QED BY <2>2, <1>8, StillPlaced DEF Shape
<1> QED BY <1>9, <1>10

LEMMA TakeJobMoves ==
  ASSUME NEW c \in Cluster, NEW e \in Nat, AllFinite(c, e), PoolShape,
         NEW w \in Worker, R!TakeJob(w), UNCHANGED <<pc, snap, line>>
  PROVE  NoMore(c, e)
<1>1. /\ worker[w].step = "idle" /\ jobs # <<>> /\ jobs' = Tail(jobs)
      /\ worker' = [worker EXCEPT ![w] = [step |-> "check", job |-> Head(jobs)]]
      /\ UNCHANGED <<net, log>>
  BY DEF R!TakeJob
<1>2. /\ Len(jobs') = Len(jobs) - 1 /\ Len(jobs) \in Nat \ {0}
      /\ \A k \in 1 .. Len(jobs') : jobs'[k] = jobs[k + 1]
      /\ Head(jobs) = jobs[1]
  BY <1>1, TailShape DEF PoolShape
<1>3. DOMAIN worker = Worker
  BY DEF PoolShape
<1>4. /\ \A v \in Worker : v # w => worker'[v] = worker[v]
      /\ worker'[w].step = "check" /\ worker'[w].job = jobs[1]
  BY <1>1, <1>2, <1>3
<1>5. /\ Shrinks(Unsent(c, e), Unsent(c, e)') /\ Shrinks(InFlight(c, e), InFlight(c, e)')
      /\ Shrinks(Recorded(c, e), Recorded(c, e)')
  BY <1>1, Untouched
<1>6. \A k \in Submitted(c, e)' : k \in Nat /\ k + 1 \in Submitted(c, e) \ {1}
  <2> SUFFICES ASSUME NEW k \in Submitted(c, e)'
               PROVE  k \in Nat /\ k + 1 \in Submitted(c, e) \ {1}
    OBVIOUS
  <2>1. k \in 1 .. Len(jobs') /\ JobOf(jobs'[k], c, e)
    BY DEF Submitted
  <2>2. k \in Nat /\ k + 1 \in 1 .. Len(jobs) /\ k + 1 # 1 /\ jobs'[k] = jobs[k + 1]
    BY <2>1, <1>2
  <2> QED BY <2>1, <2>2 DEF Submitted
<1>7. Submitted(c, e) \subseteq Nat
  BY <1>2 DEF Submitted
<1> DEFINE A == Submitted(c, e)
           A1 == Submitted(c, e)'
           B == Checked(c, e)
           B1 == Checked(c, e)'
<1>8. IsFiniteSet(A) /\ IsFiniteSet(B)
  BY DEF AllFinite
<1>9. CASE JobOf(jobs[1], c, e)
  <2>1. 1 \in A
    BY <1>2, <1>9 DEF Submitted
  <2>2. Shrinks(B \cup {w}, B1)
    BY <1>4 DEF Checked, Shrinks
  <2> HIDE DEF A, A1, B, B1
  <2>3. /\ IsFiniteSet(A \ {1}) /\ Cardinality(A) \in Nat
        /\ Cardinality(A \ {1}) = Cardinality(A) - 1
    BY <2>1, <1>8, FS_RemoveElement, FS_CardinalityType
  <2>4. /\ IsFiniteSet(A1) /\ Cardinality(A1) <= Cardinality(A \ {1})
        /\ Cardinality(A1) \in Nat
    <3>1. A \ {1} \subseteq Nat /\ A1 \subseteq Nat /\ \A k \in A1 : k + 1 \in A \ {1}
      BY <1>6, <1>7 DEF A, A1
    <3> QED BY <3>1, <2>3, ShiftCounts
  <2>5. /\ IsFiniteSet(B1) /\ Cardinality(B) \in Nat /\ Cardinality(B1) \in Nat
        /\ Cardinality(B1) <= Cardinality(B) + 1
    BY <2>2, <1>8, AddCounts
  <2>6. Trades(A, A1, B, B1)
    BY <2>3, <2>4, <2>5 DEF Trades
  <2> QED BY <2>6, <1>5, TakeCounts DEF A, A1, B, B1
<1>10. CASE ~JobOf(jobs[1], c, e)
  <2>1. Shrinks(B, B1)
    BY <1>4, <1>10 DEF Checked, Shrinks
  <2> HIDE DEF A, A1, B, B1
  <2>2. /\ IsFiniteSet(A1) /\ Cardinality(A1) <= Cardinality(A)
        /\ Cardinality(A) \in Nat /\ Cardinality(A1) \in Nat
    <3>1. A \subseteq Nat /\ A1 \subseteq Nat /\ \A k \in A1 : k + 1 \in A
      BY <1>6, <1>7 DEF A, A1
    <3> QED BY <3>1, <1>8, ShiftCounts
  <2>3. /\ IsFiniteSet(B1) /\ Cardinality(B) \in Nat /\ Cardinality(B1) \in Nat
        /\ Cardinality(B1) <= Cardinality(B)
    BY <2>1, <1>8, ShrinkCounts
  <2>4. Trades(A, A1, B, B1)
    BY <2>2, <2>3, <1>8 DEF Trades
  <2> QED BY <2>4, <1>5, TakeCounts DEF A, A1, B, B1
<1> QED BY <1>9, <1>10

\* A report is one more record only if its HMAC is over one text alone.
LEMMA WriteReportMoves ==
  ASSUME NEW c \in Cluster, NEW e \in Nat, AllFinite(c, e), PoolShape,
         NEW w \in Worker, R!WriteReport(w), UNCHANGED <<pc, snap, line>>
  PROVE  NoMore(c, e)
<1> DEFINE job == worker[w].job
           r == R!ReportOf(job)
           q == OkReports(log)
<1>1. /\ worker[w].step = "check" /\ R!CanJoin(job) /\ log' = Append(log, r)
      /\ worker' = [worker EXCEPT ![w] = [step |-> "read", ids |-> R!DiscoveredIds(job),
                                                  texts |-> R!Range(R!TextsOf(job))]]
      /\ UNCHANGED <<net, jobs>>
  BY DEF R!WriteReport
<1>2. DOMAIN worker = Worker /\ SoundJob(job)
  BY <1>1 DEF PoolShape
<1>3. OkReports(log)' = Longer(q, r) /\ IsSequence(q)
  BY <1>1, LogShape DEF PoolShape
<1>4. /\ r.status = R!Status(job)
      /\ SnapshotOf(r) = [cluster |-> job.frames[1].text.cluster,
                          epoch |-> job.frames[1].text.epoch]
  BY <1>1, <1>2, ReportShape
<1>5. /\ Shrinks(Unsent(c, e), Unsent(c, e)') /\ Shrinks(InFlight(c, e), InFlight(c, e)')
      /\ Shrinks(Submitted(c, e), Submitted(c, e)')
  BY <1>1, Untouched
<1>6. Checked(c, e)' \subseteq Checked(c, e) \ {w}
  <2>1. /\ \A v \in Worker : v # w => worker'[v] = worker[v]
        /\ worker'[w].step # "check"
    BY <1>1, <1>2
  <2> QED BY <2>1 DEF Checked
<1>7. CASE r.status = "VERIFIED" /\ SnapshotOf(r) = [cluster |-> c, epoch |-> e]
  <2>1. job.total = 1
    BY <1>1, <1>2, <1>4, <1>7, VerifiedIsAlone
  <2>2. IsOf(job.frames[1].text, c, e)
    <3> DEFINE t == job.frames[1].text
    <3>1. [cluster |-> t.cluster, epoch |-> t.epoch] = [cluster |-> c, epoch |-> e]
      BY <1>4, <1>7
    <3> HIDE DEF t
    <3>2. t.cluster = c /\ t.epoch = e
      BY <3>1
    <3> QED BY <3>2 DEF t, IsOf
  <2>3. w \in Checked(c, e)
    BY <1>1, <2>1, <2>2 DEF Checked, JobOf
  <2>4. OkReports(log)' = Append(q, SnapshotOf(r))
    BY <1>3, <1>7 DEF Longer
  <2>5. Recorded(c, e)' \subseteq Recorded(c, e) \cup {Len(q) + 1}
    <3> HIDE DEF q
    <3> DEFINE s == SnapshotOf(r)
               z == Append(q, s)
    <3>1. /\ DOMAIN z = 1 .. Len(q) + 1 /\ DOMAIN q = 1 .. Len(q) /\ Len(q) \in Nat
          /\ \A k \in 1 .. Len(q) : z[k] = q[k]
      <4> HIDE DEF s
      <4> QED BY <1>3, AppendShape
    <3>2. OkReports(log)' = z
      BY <2>4
    <3> HIDE DEF z
    <3> QED BY <3>1, <3>2 DEF Recorded, q
  <2>6. Moves(Checked(c, e), Checked(c, e)', Recorded(c, e), Recorded(c, e)')
    BY <1>6, <2>3, <2>5 DEF Moves
  <2> QED BY <2>6, <1>5, RecordCounts
<1>8. CASE ~(r.status = "VERIFIED" /\ SnapshotOf(r) = [cluster |-> c, epoch |-> e])
  <2>1. Shrinks(Recorded(c, e), Recorded(c, e)')
    <3>1. CASE r.status = "VERIFIED"
      <4> DEFINE s == SnapshotOf(r)
      <4>1. OkReports(log)' = Append(q, s) /\ s # [cluster |-> c, epoch |-> e]
        BY <1>3, <1>8, <3>1 DEF Longer
      <4> HIDE DEF q, s
      <4> DEFINE z == Append(q, s)
      <4>2. /\ DOMAIN z = 1 .. Len(q) + 1 /\ DOMAIN q = 1 .. Len(q) /\ Len(q) \in Nat
            /\ \A k \in 1 .. Len(q) : z[k] = q[k]
            /\ z[Len(q) + 1] = s
        BY <1>3, AppendShape
      <4>3. OkReports(log)' = z
        BY <4>1
      <4> HIDE DEF z
      <4> QED BY <4>1, <4>2, <4>3 DEF Recorded, Shrinks, q
    <3>2. CASE r.status # "VERIFIED"
      BY <1>3, <3>2 DEF Longer, Recorded, Shrinks
    <3> QED BY <3>1, <3>2
  <2>2. Shrinks(Checked(c, e), Checked(c, e)')
    BY <1>6 DEF Shrinks
  <2> QED BY <2>1, <2>2, <1>5, AllShrink
<1> QED BY <1>7, <1>8

\* Every other step of a pod takes it out of the frame loop, or leaves it there.
LEMMA OtherPodSteps ==
  ASSUME NEW c, NEW e, PodShape, NEW p \in Pod, C!PodNext(p), ~C!SendFrame(p), ~C!BeginCycle(p)
  PROVE  Shrinks(Unsent(c, e), Unsent(c, e)') /\ UNCHANGED <<net, clock>>
<1>t. DOMAIN pc = Pod /\ DOMAIN snap = Pod /\ DOMAIN line = Pod
  BY DEF PodShape
<1>1. UNCHANGED <<net, clock>>
  BY DEF C!PodNext, C!ScriptStep, C!Boot, C!EndCycle, C!WriteSeq, C!Wake, C!StartPod,
         C!ExitScript, C!StopPod
<1>2. \E next \in {"absent", "boot", "cycle", "write", "sleep"} : pc' = [pc EXCEPT ![p] = next]
  BY DEF C!PodNext, C!ScriptStep, C!Boot, C!EndCycle, C!WriteSeq, C!Wake, C!StartPod,
         C!ExitScript, C!StopPod
<1>3. \/ UNCHANGED <<snap, line>>
      \/ snap' = [snap EXCEPT ![p] = C!NoSnap] /\ line' = [line EXCEPT ![p] = 1]
  BY DEF C!PodNext, C!ScriptStep, C!Boot, C!EndCycle, C!WriteSeq, C!Wake, C!StartPod,
         C!ExitScript, C!StopPod, C!Forget, C!localVars
<1>4. /\ pc'[p] # "send"
      /\ \A q \in Pod : q # p => pc'[q] = pc[q] /\ snap'[q] = snap[q] /\ line'[q] = line[q]
  BY <1>t, <1>2, <1>3
<1> QED BY <1>1, <1>4 DEF Unsent, Shrinks

LEMMA CollectorPlaces ==
  ASSUME NEW c \in Cluster, NEW e \in Nat, PlacedOnce(c, e), Shape, Shape', CollectorStep
  PROVE  PlacedOnce(c, e)'
<1>1. UNCHANGED <<jobs, worker, log, repeats>> /\ AllFinite(c, e)
  BY TwoSides DEF PlacedOnce
<1>2. repeats <= repeats' /\ \A b \in Cluster : clock[b] <= clock[b]
  BY <1>1, TelemetryAssumption, WireAssumption DEF Shape, PoolShape, PodShape
<1>3. ASSUME UNCHANGED clock, NoMore(c, e) PROVE PlacedOnce(c, e)'
  BY <1>2, <1>3, StillPlaced DEF Shape
<1>4. ASSUME UNCHANGED <<net, clock>>, Shrinks(Unsent(c, e), Unsent(c, e)')
      PROVE  PlacedOnce(c, e)'
  <2>1. /\ Shrinks(InFlight(c, e), InFlight(c, e)') /\ Shrinks(Submitted(c, e), Submitted(c, e)')
        /\ Shrinks(Checked(c, e), Checked(c, e)') /\ Shrinks(Recorded(c, e), Recorded(c, e)')
    BY <1>1, <1>4, Untouched
  <2> QED BY <2>1, <1>1, <1>3, <1>4, AllShrink
<1>5. ASSUME NEW p \in Pod, C!PodNext(p) PROVE PlacedOnce(c, e)'
  <2>1. CASE C!SendFrame(p)
    <3>1. UNCHANGED clock
      BY <2>1 DEF C!SendFrame
    <3> QED BY <2>1, <3>1, <1>1, <1>3, SendFrameMoves DEF Shape
  <2>2. CASE C!BeginCycle(p)
    BY <2>2, <1>1, BeginCyclePlaces
  <2>3. CASE ~C!SendFrame(p) /\ ~C!BeginCycle(p)
    BY <2>3, <1>4, <1>5, OtherPodSteps DEF Shape
  <2> QED BY <2>1, <2>2, <2>3
<1>6. ASSUME NEW b \in Cluster, C!DeleteVolume(b) \/ C!Repayload(b) PROVE PlacedOnce(c, e)'
  <2>1. UNCHANGED <<pc, line, snap, net, clock>>
    BY <1>6 DEF C!DeleteVolume, C!Repayload, C!localVars
  <2> QED BY <2>1, <1>4, Untouched
<1> QED BY <1>5, <1>6 DEF CollectorStep, C!CollectorNext

LEMMA ReceiverPlaces ==
  ASSUME NEW c \in Cluster, NEW e \in Nat, PlacedOnce(c, e), Shape, Shape', ReceiverStep
  PROVE  PlacedOnce(c, e)'
<1>1. UNCHANGED <<pc, snap, line, clock>> /\ AllFinite(c, e) /\ clock[c] <= clock'[c]
  BY TwoSides, WireAssumption DEF PlacedOnce, Shape, PodShape
<1>2. repeats \in Nat /\ repeats <= repeats
  BY TelemetryAssumption DEF Shape, PoolShape
<1>3. ASSUME repeats <= repeats', NoMore(c, e) PROVE PlacedOnce(c, e)'
  BY <1>1, <1>3, StillPlaced DEF Shape
<1>4. ASSUME repeats <= repeats', net' \subseteq net,
             Shrinks(Submitted(c, e), Submitted(c, e)'), Shrinks(Checked(c, e), Checked(c, e)'),
             UNCHANGED log
      PROVE  PlacedOnce(c, e)'
  <2>1. /\ Shrinks(Unsent(c, e), Unsent(c, e)') /\ Shrinks(InFlight(c, e), InFlight(c, e)')
        /\ Shrinks(Recorded(c, e), Recorded(c, e)')
    BY <1>1, <1>4, Untouched
  <2> QED BY <2>1, <1>1, <1>3, <1>4, AllShrink
<1>5. ASSUME repeats <= repeats', net' \subseteq net, UNCHANGED <<jobs, worker, log>>
      PROVE  PlacedOnce(c, e)'
  BY <1>4, <1>5, Untouched
<1>6. ASSUME NEW d \in net, R!MainLoop(d) PROVE PlacedOnce(c, e)'
  <2>1. CASE R!SubmitMessage(d)
    BY <2>1, <1>1, SubmitPlaces
  <2>2. CASE R!SkipMalformed(d) \/ R!StoreFrame(d) \/ R!SubmitRaises(d)
    <3>1. UNCHANGED <<jobs, worker, log>> /\ R!Recv(d)
      BY <2>2 DEF R!SkipMalformed, R!StoreFrame, R!SubmitRaises, R!poolVars
    <3>2. repeats <= repeats' /\ net' \subseteq net
      BY <3>1, <1>2 DEF R!Recv
    <3> QED BY <3>1, <3>2, <1>5
  <2> QED BY <1>6, <2>1, <2>2 DEF R!MainLoop
<1>7. ASSUME NEW w \in Worker, R!TakeJob(w) \/ R!WriteReport(w) PROVE PlacedOnce(c, e)'
  <2>1. UNCHANGED repeats
    BY <1>7 DEF R!TakeJob, R!WriteReport
  <2> QED BY <2>1, <1>1, <1>2, <1>3, <1>7, TakeJobMoves, WriteReportMoves DEF Shape
<1>8. ASSUME NEW w \in Worker,
             \/ R!JoinFails(w) \/ R!ReadIds(w) \/ R!AppendIds(w)
             \/ R!WriteFails(w) \/ R!ReadIdsFails(w) \/ R!AppendIdsFails(w)
      PROVE  PlacedOnce(c, e)'
  <2>1. /\ UNCHANGED <<net, jobs, log, repeats>>
        /\ \E s : s.step # "check" /\ worker' = [worker EXCEPT ![w] = s]
    <3>1. UNCHANGED <<net, jobs, log, repeats>>
      BY <1>8 DEF R!JoinFails, R!ReadIds, R!AppendIds, R!WriteFails, R!ReadIdsFails, R!AppendIdsFails
    <3> QED BY <3>1, <1>8, ChecksNoLonger
  <2>2. Shrinks(Checked(c, e), Checked(c, e)')
    <3>1. DOMAIN worker = Worker
      BY DEF Shape, PoolShape
    <3>2. \A v \in Worker : worker'[v].step = "check" => worker'[v] = worker[v]
      BY <2>1, <3>1
    <3> QED BY <3>2 DEF Checked, Shrinks
  <2> QED BY <2>1, <2>2, <1>2, <1>4, Untouched
<1>9. ASSUME jobs' = jobs \/ jobs' = <<>>, worker' = worker \/ worker' = R!AllIdle,
             UNCHANGED <<net, log, repeats>>
      PROVE  PlacedOnce(c, e)'
  <2>1. Shrinks(Submitted(c, e), Submitted(c, e)')
    BY <1>9 DEF Submitted, Shrinks
  <2>2. Shrinks(Checked(c, e), Checked(c, e)')
    BY <1>9 DEF Checked, Shrinks, R!AllIdle, R!IdleWorker
  <2> QED BY <2>1, <2>2, <1>2, <1>4, <1>9
<1>10. ASSUME R!StartReceiver \/ R!Stopped PROVE PlacedOnce(c, e)'
  <2>1. UNCHANGED <<jobs, worker, log, repeats>> /\ net' \subseteq net
    BY <1>10 DEF R!StartReceiver, R!Stopped, R!poolVars
  <2> QED BY <2>1, <1>2, <1>5
<1>11. ASSUME NEW w \in Worker, R!WorkerMishap(w) PROVE PlacedOnce(c, e)'
  BY <1>8, <1>9, <1>11 DEF R!WorkerMishap, R!WorkerDies
<1>12. ASSUME R!Interrupt \/ R!KillReceiver PROVE PlacedOnce(c, e)'
  BY <1>9, <1>12 DEF R!Interrupt, R!KillReceiver
<1> QED BY <1>6, <1>7, <1>8, <1>10, <1>11, <1>12 DEF ReceiverStep, R!ReceiverNext, R!WorkerStep

LEMMA PlacedStep ==
  ASSUME Shape, Shape', Placed, [Next]_vars
  PROVE  Placed'
<1> SUFFICES ASSUME NEW c \in Cluster, NEW e \in Nat PROVE PlacedOnce(c, e)'
  BY DEF Placed
<1>1. PlacedOnce(c, e)
  BY DEF Placed
<1>2. CASE (\E d \in net : Lose(d)) \/ UNCHANGED vars
  <2>1. UNCHANGED <<pc, line, snap, clock, jobs, worker, log, repeats>> /\ net' \subseteq net
    BY <1>2, TwoSides DEF vars, pods, receiver
  <2>2. clock[c] <= clock'[c] /\ repeats <= repeats'
    BY <2>1, TelemetryAssumption, WireAssumption DEF Shape, PoolShape, PodShape
  <2>3. NoMore(c, e)
    BY <2>1, <1>1, Untouched, AllShrink DEF PlacedOnce
  <2> QED BY <2>2, <2>3, <1>1, StillPlaced DEF Shape
<1> QED BY <1>1, <1>2, CollectorPlaces, ReceiverPlaces DEF Next

LEMMA PlacedInit == ASSUME Init PROVE Placed
<1> SUFFICES ASSUME NEW c \in Cluster, NEW e \in Nat PROVE PlacedOnce(c, e)
  BY DEF Placed
<1>1. /\ pc = [p \in Pod |-> "absent"] /\ net = {} /\ jobs = <<>> /\ log = <<>> /\ repeats = 0
      /\ worker = [w \in Worker |-> R!IdleWorker]
  BY DEF Init, C!CollectorInit, R!ReceiverInitExceptNet
<1>2. Unsent(c, e) = {}
  BY <1>1 DEF Unsent
<1>3. InFlight(c, e) = {} /\ Submitted(c, e) = {}
  BY <1>1 DEF InFlight, Submitted
<1>4. Checked(c, e) = {}
  BY <1>1 DEF Checked, R!IdleWorker
<1>5. Recorded(c, e) = {}
  BY <1>1, OkReportsEmpty DEF Recorded
<1>6. AllFinite(c, e) /\ Copies(c, e) = 0
  BY <1>2, <1>3, <1>4, <1>5, FS_EmptySet DEF AllFinite, Copies
<1> QED BY <1>1, <1>6 DEF PlacedOnce

-----------------------------------------------------------------------------
\* The refinement.

\* Shape and Placed hold in every state: a snapshot of one frame is in no more
\* places than the network has delivered it, and nowhere before it is taken.
THEOREM TelemetryPlaced == Spec => [](Shape /\ Placed)
<1>1. Init => Shape /\ Placed
  BY ShapeInit, PlacedInit
<1>2. Shape /\ Placed /\ [Next]_vars => (Shape /\ Placed)'
  <2> SUFFICES ASSUME Shape, Placed, [Next]_vars PROVE Shape' /\ Placed'
    OBVIOUS
  <2>1. Shape'
    BY PodShapeStep, NetShapeStep, BufferShapeStep, PoolShapeStep DEF Shape
  <2> QED BY <2>1, PlacedStep
<1> QED BY <1>1, <1>2, PTL DEF Spec

\* AuditTrail counts with the same Cardinality.
LEMMA CountsAlike == \A S : Audit!Cardinality(S) = Cardinality(S)
BY DEF Audit!Cardinality, Cardinality

\* A report with [INTEGRITY: OK] is the record of a snapshot that was taken and
\* is not yet logged as often as it was delivered.
LEMMA ReportIsRecord ==
  ASSUME Shape, Placed, NEW w \in Worker, R!WriteReport(w), UNCHANGED clock
  PROVE  \/ UNCHANGED OkReports(log)
         \/ \E c \in Cluster : \E e \in 1 .. MaxEpoch : Audit!Record(c, e)
<1> DEFINE job == worker[w].job
           r == R!ReportOf(job)
           c == job.frames[1].text.cluster
           e == job.frames[1].text.epoch
<1>1. /\ worker[w].step = "check" /\ R!CanJoin(job) /\ log' = Append(log, r)
  BY DEF R!WriteReport
<1>2. SoundJob(job)
  BY <1>1 DEF Shape, PoolShape
<1>3. OkReports(log)' = Longer(OkReports(log), r)
  BY <1>1, LogShape DEF Shape, PoolShape
<1>4. r.status = R!Status(job) /\ SnapshotOf(r) = [cluster |-> c, epoch |-> e]
  BY <1>1, <1>2, ReportShape
<1>5. CASE R!Status(job) # "VERIFIED"
  BY <1>3, <1>4, <1>5 DEF Longer
<1>6. CASE R!Status(job) = "VERIFIED"
  <2>1. job.total = 1 /\ c \in Cluster /\ e \in Nat
    BY <1>1, <1>2, <1>6, VerifiedIsAlone
  <2>2. w \in Checked(c, e)
    BY <1>1, <2>1 DEF Checked, JobOf, IsOf
  <2> HIDE DEF c, e, r
  <2>3. PlacedOnce(c, e)
    BY <2>1 DEF Placed
  <2> DEFINE N(A) == Cardinality(A)
  <2>4. /\ N(Unsent(c, e)) \in Nat /\ N(InFlight(c, e)) \in Nat /\ N(Submitted(c, e)) \in Nat
        /\ N(Checked(c, e)) \in Nat /\ N(Recorded(c, e)) \in Nat /\ N(Checked(c, e)) # 0
    BY <2>2, <2>3, FS_CardinalityType, FS_EmptySet DEF PlacedOnce, AllFinite
  <2>5. repeats \in 0 .. MaxRepeats /\ MaxRepeats \in Nat
    BY TelemetryAssumption DEF Shape, PoolShape
  <2>6. Copies(c, e) = N(Unsent(c, e)) + N(InFlight(c, e)) + N(Submitted(c, e))
                         + N(Checked(c, e)) + N(Recorded(c, e))
    BY DEF Copies
  <2>7. Copies(c, e) <= 1 + repeats /\ (e \notin 1 .. clock[c] => Copies(c, e) = 0)
    BY <2>3 DEF PlacedOnce
  <2>8. N(Recorded(c, e)) <= MaxRepeats /\ e \in 1 .. clock[c]
    <3> HIDE DEF N
    <3>1. \A i, j, k, m, n \in Nat : m # 0 => /\ i + j + k + m + n # 0
                                            /\ n + 1 <= i + j + k + m + n
      OBVIOUS
    <3>2. Copies(c, e) # 0 /\ N(Recorded(c, e)) + 1 <= Copies(c, e)
      BY <2>4, <2>6, <3>1, Zenon
    <3>3. Copies(c, e) \in Nat
      BY <2>4, <2>6
    <3> QED BY <2>4, <2>5, <2>7, <3>2, <3>3
  <2>9. Audit!Times(c, e) = N(Recorded(c, e)) /\ Audit!Taken(c) = 1 .. clock[c]
    <3>1. Audit!Times(c, e) = Cardinality(Recorded(c, e))
      BY CountsAlike, Zenon DEF Audit!Times, Recorded
    <3>2. Audit!Taken(c) = 1 .. clock[c]
      BY DEF Audit!Taken
    <3> QED BY <3>1, <3>2
  <2>10. e \in 1 .. MaxEpoch
    <3>1. clock[c] \in 0 .. MaxEpoch /\ MaxEpoch \in Nat
      BY <2>1, WireAssumption DEF Shape, PodShape
    <3> QED BY <3>1, <2>8
  <2>11. OkReports(log)' = Append(OkReports(log), [cluster |-> c, epoch |-> e])
    BY <1>3, <1>4, <1>6 DEF Longer
  <2>12. Audit!Record(c, e)
    BY <2>8, <2>9, <2>11 DEF Audit!Record
  <2> QED BY <2>1, <2>10, <2>12
<1> QED BY <1>5, <1>6

\* Only WriteReport touches the log, and only BeginCycle the clocks.
LEMMA StepIsAudit ==
  ASSUME Shape, Placed, [Next]_vars
  PROVE  [Audit!AuditNext]_(Audit!auditVars)
<1>1. ASSUME UNCHANGED <<clock, log>> PROVE UNCHANGED Audit!auditVars
  BY <1>1 DEF Audit!auditVars
<1>2. ASSUME NEW p \in Pod, C!BeginCycle(p), UNCHANGED log
      PROVE  \E c \in Cluster : Audit!TakeSnapshot(c)
  <2>1. ClusterOf[p] \in Cluster
    BY TelemetryAssumption
  <2>2. Audit!TakeSnapshot(ClusterOf[p])
    BY <1>2 DEF C!BeginCycle, Audit!TakeSnapshot
  <2> QED BY <2>1, <2>2
<1>3. CASE CollectorStep
  <2>1. UNCHANGED log
    BY <1>3, TwoSides
  <2>2. ASSUME NEW p \in Pod, C!PodNext(p), ~C!BeginCycle(p) PROVE UNCHANGED clock
    BY <2>2 DEF C!PodNext, C!ScriptStep, C!Boot, C!SendFrame, C!EndCycle, C!WriteSeq, C!Wake,
                C!StartPod, C!ExitScript, C!StopPod
  <2>3. ASSUME NEW b \in Cluster, C!DeleteVolume(b) \/ C!Repayload(b) PROVE UNCHANGED clock
    BY <2>3 DEF C!DeleteVolume, C!Repayload
  <2> QED BY <2>1, <2>2, <2>3, <1>1, <1>2, <1>3 DEF CollectorStep, C!CollectorNext, Audit!AuditNext
<1>4. CASE ReceiverStep
  <2>1. UNCHANGED clock
    BY <1>4, TwoSides
  <2>2. ASSUME NEW w \in Worker, R!WriteReport(w) PROVE [Audit!AuditNext]_(Audit!auditVars)
    <3>1. CASE UNCHANGED OkReports(log)
      BY <2>1, <3>1 DEF Audit!auditVars
    <3> QED BY <2>1, <2>2, <3>1, ReportIsRecord DEF Audit!AuditNext
  <2>3. ASSUME NEW w \in Worker, R!WorkerStep(w) \/ R!WorkerMishap(w), ~R!WriteReport(w)
        PROVE  UNCHANGED log
    BY <2>3
    DEF R!WorkerStep, R!TakeJob, R!JoinFails, R!ReadIds, R!AppendIds,
        R!WorkerMishap, R!WriteFails, R!ReadIdsFails, R!AppendIdsFails, R!WorkerDies
  <2>4. ASSUME NEW d, R!MainLoop(d) PROVE UNCHANGED log
    BY <2>4 DEF R!MainLoop, R!SkipMalformed, R!StoreFrame, R!SubmitMessage, R!SubmitRaises,
                R!poolVars
  <2>5. ASSUME R!StartReceiver \/ R!Interrupt \/ R!Stopped \/ R!KillReceiver PROVE UNCHANGED log
    BY <2>5 DEF R!StartReceiver, R!Interrupt, R!Stopped, R!KillReceiver, R!poolVars
  <2> QED BY <2>1, <2>2, <2>3, <2>4, <2>5, <1>1, <1>4 DEF ReceiverStep, R!ReceiverNext
<1>5. CASE (\E d \in net : Lose(d)) \/ UNCHANGED vars
  BY <1>1, <1>5, TwoSides DEF vars, pods, receiver
<1> QED BY <1>3, <1>4, <1>5 DEF Next

\* The pipeline is an audit trail: whatever is lost, repeated, reordered, mixed in
\* assembly_buffer, restarted or killed, the reports with [INTEGRITY: OK] are
\* snapshots really taken, each logged at most once per delivery.
THEOREM TelemetryRefinesAudit == Spec => RefinesAudit
<1>1. Init => Audit!AuditInit
  <2> SUFFICES ASSUME Init PROVE Audit!AuditInit
    OBVIOUS
  <2>1. clock = [c \in Cluster |-> 0] /\ log = <<>>
    BY DEF Init, C!CollectorInit, R!ReceiverInitExceptNet
  <2> QED BY <2>1, OkReportsEmpty DEF Audit!AuditInit
<1>2. Shape /\ Placed /\ [Next]_vars => [Audit!AuditNext]_(Audit!auditVars)
  BY StepIsAudit
<1> QED BY <1>1, <1>2, TelemetryPlaced, PTL DEF Spec, RefinesAudit, Audit!AuditSpec
=============================================================================
