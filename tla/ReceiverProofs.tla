--------------------------- MODULE ReceiverProofs ---------------------------
(***************************************************************************)
(* Proofs about ReceiverAlone, for any clusters, traffic, number of pool   *)
(* processes and mishaps: the types, that no complete message waits, that  *)
(* an OK report is one whole snapshot, that no cluster id is missed and no *)
(* accepted message dropped but by a mishap that met it, that no id is     *)
(* listed more often than there are processes and failed reads, and that   *)
(* no frame is logged twice unless the network repeats a datagram.         *)
(*                                                                         *)
(* An OK report is whole because every body in the receiver's hands came   *)
(* with a genuine datagram, whose HMAC is over a single text.  So an HMAC  *)
(* over the texts of a message can only be equal to it if the message has  *)
(* one text, and a job for one frame was made from a genuine datagram that *)
(* announced one frame.  And no frame is logged twice because in every     *)
(* step a text moves from one place to another: each place it is in after  *)
(* the step is one it was in before, and different places come from        *)
(* different ones (EachInOnePlace).                                        *)
(***************************************************************************)
EXTENDS ReceiverAlone, FiniteSetTheorems, TLAPS

FiniteIds ==
  \A w \in Worker : worker[w].step \in {"read", "append"} => IsFiniteSet(worker[w].ids)

JobsInSequence == \E S : jobs \in Seq(S)

Typed == ReceiverTypeOK /\ FiniteIds /\ JobsInSequence

-----------------------------------------------------------------------------
\* Lemmas about the values the actions build.

\* What a datagram leaves in the entry of its message.
LEMMA StoredEntry ==
  ASSUME ReceiverTypeOK, NEW d \in Datagram
  PROVE  /\ IsPartial(Stored(d))
         /\ d.frame \in DOMAIN Stored(d).frames
         /\ Stored(d).frames[d.frame] = [text |-> d.text, mac |-> d.mac]
         /\ \A k \in DOMAIN Stored(d).frames : k # d.frame =>
              /\ d.msg \in DOMAIN buffer /\ k \in DOMAIN buffer[d.msg].frames
              /\ Stored(d).frames[k] = buffer[d.msg].frames[k]
<1> DEFINE old == IF d.msg \in DOMAIN buffer THEN buffer[d.msg]
                  ELSE [total |-> d.total, frames |-> NoFrames]
           body == [text |-> d.text, mac |-> d.mac]
           frames == [k \in DOMAIN old.frames \cup {d.frame} |->
                        IF k = d.frame THEN body ELSE old.frames[k]]
<1>1. body \in Body /\ d.total \in Nat \ {0} /\ d.frame \in Nat \ {0}
  BY DEF Datagram, Body
<1>2. IsPartial(old)
  <2>1. CASE d.msg \in DOMAIN buffer
    BY <2>1 DEF ReceiverTypeOK
  <2>2. CASE d.msg \notin DOMAIN buffer
    BY <1>1, <2>2, FS_EmptySet DEF IsPartial, NoFrames
  <2> QED BY <2>1, <2>2
<1>3. Stored(d) = [old EXCEPT !.frames = frames]
  BY DEF Stored
<1>4. Stored(d).frames = frames /\ Stored(d).total = old.total
      /\ DOMAIN Stored(d) = {"total", "frames"}
  BY <1>2, <1>3 DEF IsPartial
<1>5. IsFiniteSet(DOMAIN frames) /\ DOMAIN frames \subseteq Nat \ {0}
  BY <1>1, <1>2, FS_AddElement DEF IsPartial
<1>6. frames \in [DOMAIN frames -> Body]
  BY <1>1, <1>2 DEF IsPartial
<1>7. IsPartial(Stored(d))
  BY <1>2, <1>4, <1>5, <1>6 DEF IsPartial
<1>8. \A k \in DOMAIN frames : k # d.frame => d.msg \in DOMAIN buffer
  BY DEF NoFrames
<1> QED BY <1>4, <1>7, <1>8

\* What the entry added to assembly_buffer changes.
LEMMA BufferUpdate ==
  ASSUME NEW m, NEW entry, buffer' = BufferWith(m, entry)
  PROVE  /\ DOMAIN buffer' = DOMAIN buffer \cup {m}
         /\ buffer'[m] = entry
         /\ \A n \in DOMAIN buffer : n # m => buffer'[n] = buffer[n]
BY DEF BufferWith

\* What a step of one worker changes.
LEMMA WorkerUpdate ==
  ASSUME ReceiverTypeOK, NEW w \in Worker, NEW s, worker' = [worker EXCEPT ![w] = s]
  PROVE  /\ DOMAIN worker' = Worker
         /\ worker'[w] = s
         /\ \A v \in Worker : v # w => worker'[v] = worker[v]
BY DEF ReceiverTypeOK

LEMMA ToAppendTyped ==
  ASSUME NEW s, IsWorkerState(s), s.step = "read", NEW ids \in SUBSET s.ids
  PROVE  IsWorkerState(ToAppend(s, ids)) /\ ToAppend(s, ids).ids = ids
BY DEF IsWorkerState, IdleWorker, ToAppend

LEMMA ReadsIds ==
  ASSUME ReceiverTypeOK, NEW w \in Worker
  PROVE  /\ ReadIds(w) =>
              worker' = [worker EXCEPT ![w] = ToAppend(worker[w], worker[w].ids \ Range(idFile))]
         /\ ReadIdsFails(w) =>
              worker' = [worker EXCEPT ![w] = ToAppend(worker[w], worker[w].ids)]
BY DEF ReceiverTypeOK, ReadIds, ReadIdsFails

\* jobs[i] for i in DOMAIN jobs, or in 1 .. Len(jobs).
LEMMA JobsAreCounted == JobsInSequence => DOMAIN jobs = 1 .. Len(jobs)
BY DEF JobsInSequence

\* What the join of a job's frames gives.
LEMMA JoinedTexts ==
  ASSUME NEW job, IsJob(job), CanJoin(job)
  PROVE  /\ job.total \in Nat \ {0}
         /\ \A k \in 1 .. job.total : job.frames[k] \in Body
         /\ TextsOf(job) \in Seq(Text) /\ Len(TextsOf(job)) = job.total
         /\ \A k \in 1 .. job.total : TextsOf(job)[k] = job.frames[k].text
         /\ ReportOf(job) \in Report
         /\ DiscoveredIds(job) \subseteq Cluster /\ IsFiniteSet(DiscoveredIds(job))
<1>1. job.total \in Nat \ {0} /\ job.msg \in MsgId /\ job.src \in Cluster
  BY DEF IsJob, IsPartial
<1>2. \A k \in 1 .. job.total : job.frames[k] \in Body
  BY DEF IsJob, IsPartial, CanJoin
<1>3. TextsOf(job) \in Seq(Text) /\ Len(TextsOf(job)) = job.total
      /\ \A k \in 1 .. job.total : TextsOf(job)[k] = job.frames[k].text
  BY <1>1, <1>2 DEF TextsOf, Body
<1>4. \A k \in 1 .. job.total : TextsOf(job)[k] \in Text
  BY <1>2, <1>3 DEF Body
<1>5. LookupTable(job) \in Cluster \X Nat
  BY <1>1, <1>4 DEF LookupTable, TableOf, Text
<1>6. ReportOf(job) \in Report
  BY <1>1, <1>3, <1>5 DEF ReportOf, Report, Status
<1>7. DiscoveredIds(job) \subseteq Cluster
  BY <1>4 DEF DiscoveredIds, Text
<1>8. IsFiniteSet(DiscoveredIds(job))
  <2> DEFINE f == [k \in 1 .. job.total |-> TextsOf(job)[k].cluster]
  <2>1. IsFiniteSet(1 .. job.total)
    BY <1>1, FS_Interval
  <2>2. f \in Surjection(1 .. job.total, DiscoveredIds(job))
    BY DEF Surjection, DiscoveredIds
  <2> QED BY <2>1, <2>2, FS_Surjection
<1> QED BY <1>1, <1>2, <1>3, <1>6, <1>7, <1>8

\* The texts in the receiver's hands are texts.
LEMMA TextsTyped ==
  ASSUME ReceiverTypeOK, JobsInSequence
  PROVE  /\ InBuffer \subseteq Text /\ InJobs \subseteq Text /\ InHands \subseteq Text
         /\ \A w \in Worker : InHand(worker[w]) \subseteq Text
         /\ \A d \in net \ Noise : d.text \in Text
         /\ \A d \in net \ Noise : TextsIn(Stored(d).frames) \subseteq Text
<1>1. ASSUME NEW e, IsPartial(e) PROVE TextsIn(e.frames) \subseteq Text
  BY <1>1 DEF IsPartial, TextsIn, Body
<1>2. ASSUME NEW job, IsJob(job) PROVE TextsIn(job.frames) \subseteq Text
  <2>1. IsPartial([total |-> job.total, frames |-> job.frames])
    BY <1>2 DEF IsJob
  <2> QED BY <2>1, <1>1
<1>3. InBuffer \subseteq Text
  BY <1>1 DEF InBuffer, ReceiverTypeOK
<1>4. InJobs \subseteq Text
  <2>1. \A i \in DOMAIN jobs : TextsIn(jobs[i].frames) \subseteq Text
    BY <1>2, JobsAreCounted DEF ReceiverTypeOK
  <2> QED BY <2>1 DEF InJobs
<1>5. \A w \in Worker : InHand(worker[w]) \subseteq Text
  <2> SUFFICES ASSUME NEW w \in Worker PROVE InHand(worker[w]) \subseteq Text
    OBVIOUS
  <2>1. IsWorkerState(worker[w])
    BY DEF ReceiverTypeOK
  <2>2. CASE worker[w].step = "check"
    <3>1. IsJob(worker[w].job)
      BY <2>1, <2>2 DEF IsWorkerState, IdleWorker
    <3> QED BY <2>2, <3>1, <1>2 DEF InHand
  <2>3. CASE worker[w].step \in {"read", "append"}
    BY <2>1, <2>3 DEF InHand, IsWorkerState, IdleWorker
  <2>4. CASE worker[w] = IdleWorker
    BY <2>4 DEF InHand, IdleWorker
  <2> QED BY <2>1, <2>2, <2>3, <2>4 DEF IsWorkerState
<1>6. InHands \subseteq Text
  BY <1>5 DEF InHands
<1>7. \A d \in net \ Noise : d \in Datagram /\ d.text \in Text
  BY DEF ReceiverTypeOK, Datagram
<1>8. \A d \in net \ Noise : TextsIn(Stored(d).frames) \subseteq Text
  BY <1>1, <1>7, StoredEntry
<1> QED BY <1>3, <1>4, <1>5, <1>6, <1>7, <1>8

\* A mishap keeps the types of its bound and histories.
LEMMA MishapTyped ==
  ASSUME ReceiverTypeOK, NEW texts \in SUBSET Text, Mishap(texts), unread' \in {unread, unread + 1}
  PROVE  lost' \subseteq Text /\ mishaps' \in 0 .. MaxMishaps /\ unread' \in 0 .. mishaps'
BY ReceiverAssumption DEF ReceiverTypeOK, Mishap

-----------------------------------------------------------------------------
\* Types.

\* The types hold at the start.
LEMMA TypedInit == Init => Typed
<1> SUFFICES ASSUME Init PROVE Typed
  OBVIOUS
<1>1. net \subseteq Datagram \cup Noise
  BY TrafficAssumption DEF Init, Genuine, Collected, Emulated
<1>2. \A w \in Worker : worker[w] = IdleWorker
  BY DEF Init, ReceiverInitExceptNet
<1>3. FiniteIds
  BY <1>2 DEF FiniteIds, IdleWorker
<1>4. log \in Seq(Report) /\ idFile \in Seq(Cluster) /\ JobsInSequence
  BY DEF Init, ReceiverInitExceptNet, JobsInSequence
<1>5. DOMAIN buffer = {} /\ Len(jobs) = 0
  BY DEF Init, ReceiverInitExceptNet, NoMessages
<1>6. DOMAIN worker = Worker /\ \A w \in Worker : IsWorkerState(worker[w])
  BY <1>2 DEF Init, ReceiverInitExceptNet, IsWorkerState
<1>7. broken \in BOOLEAN /\ status \in {"up", "stopping", "stopped", "failed"}
  BY DEF Init, ReceiverInitExceptNet
<1>8. repeats = 0 /\ mishaps = 0 /\ unread = 0 /\ lost = {}
  BY DEF Init, ReceiverInitExceptNet
<1>9. ReceiverTypeOK
  BY <1>1, <1>4, <1>5, <1>6, <1>7, <1>8, ReceiverAssumption DEF ReceiverTypeOK
<1> QED BY <1>3, <1>4, <1>9 DEF Typed

\* A step of the main process or a mishap that leaves the workers' results.
LEMMA TypedMain ==
  ASSUME Typed,
         status' \in {"up", "stopping", "stopped", "failed"}, net' \subseteq net,
         \A m \in DOMAIN buffer' : m \in MsgId /\ IsPartial(buffer'[m]),
         \/ jobs' = jobs
         \/ jobs' = <<>>
         \/ \E job : IsJob(job) /\ jobs' = Append(jobs, job),
         worker' = worker \/ worker' = AllIdle,
         broken' \in BOOLEAN, log' = log, idFile' = idFile,
         repeats' \in 0 .. MaxRepeats, mishaps' \in 0 .. MaxMishaps, unread' \in 0 .. mishaps',
         lost' \subseteq Text
  PROVE  Typed'
<1>1. JobsInSequence' /\ \A i \in 1 .. Len(jobs') : IsJob(jobs'[i])
  <2> PICK S : jobs \in Seq(S)
    BY DEF Typed, JobsInSequence
  <2>1. CASE jobs' = jobs
    BY <2>1 DEF Typed, ReceiverTypeOK, JobsInSequence
  <2>2. CASE jobs' = <<>>
    BY <2>2 DEF JobsInSequence
  <2>3. CASE \E job : IsJob(job) /\ jobs' = Append(jobs, job)
    <3> PICK job : IsJob(job) /\ jobs' = Append(jobs, job)
      BY <2>3
    <3>1. jobs \in Seq(S \cup {job})
      OBVIOUS
    <3>2. jobs' \in Seq(S \cup {job}) /\ Len(jobs') = Len(jobs) + 1
          /\ jobs'[Len(jobs) + 1] = job
          /\ \A i \in 1 .. Len(jobs) : jobs'[i] = jobs[i]
      BY <3>1
    <3> QED BY <3>2 DEF Typed, ReceiverTypeOK, JobsInSequence
  <2> QED BY <2>1, <2>2, <2>3
<1>2. /\ DOMAIN worker' = Worker
      /\ \A w \in Worker : IsWorkerState(worker'[w])
      /\ FiniteIds'
  <2>1. CASE worker' = worker
    BY <2>1 DEF Typed, ReceiverTypeOK, FiniteIds
  <2>2. CASE worker' = AllIdle
    BY <2>2 DEF AllIdle, IdleWorker, IsWorkerState, FiniteIds
  <2> QED BY <2>1, <2>2
<1> QED BY <1>1, <1>2 DEF Typed, ReceiverTypeOK

\* A step of a worker.
LEMMA TypedWorker ==
  ASSUME Typed, NEW w \in Worker, NEW s, worker' = [worker EXCEPT ![w] = s],
         IsWorkerState(s), s.step \in {"read", "append"} => IsFiniteSet(s.ids),
         jobs' = jobs \/ (jobs # <<>> /\ jobs' = Tail(jobs)),
         log' \in Seq(Report), idFile' \in Seq(Cluster),
         mishaps' \in 0 .. MaxMishaps, unread' \in 0 .. mishaps', lost' \subseteq Text,
         UNCHANGED <<status, net, buffer, broken, repeats>>
  PROVE  Typed'
<1>1. JobsInSequence' /\ \A i \in 1 .. Len(jobs') : IsJob(jobs'[i])
  <2> PICK S : jobs \in Seq(S)
    BY DEF Typed, JobsInSequence
  <2>1. CASE jobs' = jobs
    BY <2>1 DEF Typed, ReceiverTypeOK, JobsInSequence
  <2>2. CASE jobs # <<>> /\ jobs' = Tail(jobs)
    BY <2>2 DEF Typed, ReceiverTypeOK, JobsInSequence
  <2> QED BY <2>1, <2>2
<1>2. /\ DOMAIN worker' = Worker
      /\ \A v \in Worker : IsWorkerState(worker'[v])
      /\ FiniteIds'
  BY WorkerUpdate DEF Typed, ReceiverTypeOK, FiniteIds
<1> QED BY <1>1, <1>2 DEF Typed, ReceiverTypeOK

\* Every step keeps them.
LEMMA TypedStep == Typed /\ [Next]_receiverVars => Typed'
<1> SUFFICES ASSUME Typed, [Next]_receiverVars PROVE Typed'
  OBVIOUS
<1> USE ReceiverAssumption
<1>0. /\ ReceiverTypeOK
      /\ status \in {"up", "stopping", "stopped", "failed"} /\ broken \in BOOLEAN
      /\ repeats \in 0 .. MaxRepeats /\ mishaps \in 0 .. MaxMishaps
      /\ unread \in 0 .. mishaps /\ lost \subseteq Text
      /\ \A m \in DOMAIN buffer : m \in MsgId /\ IsPartial(buffer[m])
  BY DEF Typed, ReceiverTypeOK
<1>l. /\ InBuffer \subseteq Text /\ InJobs \subseteq Text /\ InHands \subseteq Text
      /\ \A w \in Worker : InHand(worker[w]) \subseteq Text
      /\ \A d \in net \ Noise : d.text \in Text /\ TextsIn(Stored(d).frames) \subseteq Text
  BY <1>0, TextsTyped DEF Typed
<1>1. CASE StartReceiver \/ Interrupt \/ Stopped \/ KillReceiver
  <2>1. CASE StartReceiver
    <3>1. net' \subseteq net /\ lost' \subseteq Text /\ status' = "up"
      BY <1>0, <1>l, <2>1 DEF StartReceiver
    <3>2. UNCHANGED <<buffer, jobs, worker, log, idFile, broken, repeats, unread, mishaps>>
      BY <2>1 DEF StartReceiver, poolVars
    <3> QED BY <1>0, <3>1, <3>2, TypedMain
  <2>2. CASE Interrupt
    <3>1. \E texts \in SUBSET Text : Mishap(texts)
      BY <1>l, <2>2 DEF Interrupt
    <3>2. lost' \subseteq Text /\ mishaps' \in 0 .. MaxMishaps /\ unread' \in 0 .. mishaps'
      BY <1>0, <2>2, <3>1, MishapTyped DEF Interrupt
    <3>3. /\ status' = "stopping" /\ broken' \in BOOLEAN
          /\ jobs' = jobs \/ jobs' = <<>>
          /\ worker' = worker \/ worker' = AllIdle
          /\ UNCHANGED <<net, buffer, log, idFile, repeats>>
      BY <1>0, <2>2 DEF Interrupt
    <3> QED BY <1>0, <3>2, <3>3, TypedMain
  <2>3. CASE Stopped
    <3>1. DOMAIN buffer' = {} /\ lost' \subseteq Text
      BY <1>0, <1>l, <2>3 DEF Stopped, NoMessages
    <3>2. broken' \in BOOLEAN /\ status' = "stopped"
      BY <2>3 DEF Stopped
    <3>3. UNCHANGED <<net, jobs, worker, log, idFile, repeats, unread, mishaps>>
      BY <2>3 DEF Stopped, poolVars
    <3> QED BY <1>0, <3>1, <3>2, <3>3, TypedMain
  <2>4. CASE KillReceiver
    <3>1. DOMAIN buffer' = {}
      BY <2>4 DEF KillReceiver, NoMessages
    <3>2. InBuffer \cup InHands \cup InJobs \in SUBSET Text
      BY <1>l
    <3>3. lost' \subseteq Text /\ mishaps' \in 0 .. MaxMishaps /\ unread' \in 0 .. mishaps'
      BY <1>0, <2>4, <3>2, MishapTyped DEF KillReceiver
    <3>4. /\ status' = "failed" /\ broken' \in BOOLEAN /\ jobs' = <<>> /\ worker' = AllIdle
          /\ UNCHANGED <<net, log, idFile, repeats>>
      BY <2>4 DEF KillReceiver
    <3> QED BY <1>0, <3>1, <3>3, <3>4, TypedMain
  <2> QED BY <1>1, <2>1, <2>2, <2>3, <2>4
<1>2. ASSUME NEW d \in net, MainLoop(d) PROVE Typed'
  <2>1. /\ status' = status /\ status \in {"up", "stopping", "stopped", "failed"}
        /\ net' \subseteq net /\ repeats' \in 0 .. MaxRepeats
        /\ UNCHANGED <<worker, broken, log, idFile, mishaps, unread>>
    BY <1>0, <1>2 DEF MainLoop, SkipMalformed, StoreFrame, SubmitMessage, SubmitRaises,
       Recv, poolVars, mishapVars
  <2>l. lost' \subseteq Text
    BY <1>0, <1>l, <1>2 DEF MainLoop, SkipMalformed, StoreFrame, SubmitMessage, SubmitRaises,
       mishapVars
  <2>2. d \in Noise \/ d \in Datagram
    BY <1>0 DEF ReceiverTypeOK
  <2>3. ASSUME d \in Datagram, buffer' = BufferWith(d.msg, Stored(d))
        PROVE  \A m \in DOMAIN buffer' : m \in MsgId /\ IsPartial(buffer'[m])
    <3>1. IsPartial(Stored(d)) /\ d.msg \in MsgId
      BY <1>0, <2>3, StoredEntry DEF Datagram
    <3> DEFINE entry == Stored(d)
               m0 == d.msg
    <3>2. /\ DOMAIN buffer' = DOMAIN buffer \cup {m0}
          /\ buffer'[m0] = entry
          /\ \A n \in DOMAIN buffer : n # m0 => buffer'[n] = buffer[n]
      <4> HIDE DEF entry, m0
      <4>1. buffer' = BufferWith(m0, entry)
        BY <2>3 DEF entry, m0
      <4> QED BY <4>1, BufferUpdate
    <3> QED BY <1>0, <3>1, <3>2
  <2>4. CASE SkipMalformed(d)
    BY <1>0, <2>1, <2>l, <2>4, TypedMain DEF SkipMalformed, poolVars
  <2>5. CASE StoreFrame(d)
    BY <1>0, <2>1, <2>l, <2>2, <2>3, <2>5, TypedMain DEF StoreFrame, poolVars
  <2>6. CASE SubmitMessage(d)
    <3> DEFINE job == [msg |-> d.msg, src |-> d.src, total |-> d.total,
                       frames |-> Stored(d).frames]
    <3>1. d \in Datagram
      BY <2>2, <2>6 DEF SubmitMessage
    <3>2. IsPartial([total |-> d.total, frames |-> Stored(d).frames])
      BY <1>0, <3>1, StoredEntry DEF IsPartial, Datagram
    <3>3. IsJob(job)
      BY <3>1, <3>2 DEF IsJob, Datagram
    <3>4. \A m \in DOMAIN buffer' : m \in MsgId /\ IsPartial(buffer'[m])
      BY <1>0, <2>6 DEF SubmitMessage, Restrict
    <3>5. jobs' = Append(jobs, job)
      BY <2>6 DEF SubmitMessage
    <3>6. \E j : IsJob(j) /\ jobs' = Append(jobs, j)
      BY <3>3, <3>5
    <3> QED BY <1>0, <2>1, <2>l, <3>4, <3>6, TypedMain
  <2>7. CASE SubmitRaises(d)
    BY <1>0, <2>1, <2>l, <2>2, <2>3, <2>7, TypedMain DEF SubmitRaises, poolVars
  <2> QED BY <1>2, <2>4, <2>5, <2>6, <2>7 DEF MainLoop
<1>3. ASSUME NEW w \in Worker, WorkerStep(w) PROVE Typed'
  <2>1. log \in Seq(Report) /\ idFile \in Seq(Cluster) /\ IsWorkerState(worker[w])
    BY <1>0 DEF ReceiverTypeOK
  <2>2. CASE TakeJob(w)
    <3> DEFINE s == [step |-> "check", job |-> Head(jobs)]
    <3>1. jobs # <<>> /\ IsJob(Head(jobs))
      BY <2>2 DEF TakeJob, Typed, ReceiverTypeOK, JobsInSequence
    <3>2. IsWorkerState(s) /\ s.step = "check"
      BY <3>1 DEF IsWorkerState
    <3> QED BY <1>0, <2>1, <2>2, <3>1, <3>2, TypedWorker DEF TakeJob, mishapVars
  <2>3. CASE JoinFails(w)
    <3>1. IsWorkerState(IdleWorker) /\ IdleWorker.step = "idle"
      BY DEF IsWorkerState, IdleWorker
    <3> QED BY <1>0, <2>1, <2>3, <3>1, TypedWorker DEF JoinFails, mishapVars
  <2>4. CASE WriteReport(w)
    <3> DEFINE job == worker[w].job
               s == [step |-> "read", ids |-> DiscoveredIds(job), texts |-> Range(TextsOf(job))]
    <3>1. IsJob(job) /\ CanJoin(job)
      BY <2>1, <2>4 DEF WriteReport, IsWorkerState, IdleWorker
    <3>2. ReportOf(job) \in Report /\ DiscoveredIds(job) \subseteq Cluster
          /\ IsFiniteSet(DiscoveredIds(job)) /\ TextsOf(job) \in Seq(Text)
      BY <3>1, JoinedTexts
    <3>3. Range(TextsOf(job)) \subseteq Text
      BY <3>2 DEF Range
    <3>4. IsWorkerState(s) /\ s.step = "read" /\ IsFiniteSet(s.ids)
      BY <3>2, <3>3 DEF IsWorkerState
    <3>5. log' \in Seq(Report)
      BY <2>1, <2>4, <3>2 DEF WriteReport
    <3> QED BY <1>0, <2>1, <2>4, <3>4, <3>5, TypedWorker DEF WriteReport, mishapVars
  <2>5. CASE ReadIds(w)
    <3> DEFINE ids == worker[w].ids \ Range(idFile)
    <3>1. IsWorkerState(worker[w]) /\ worker[w].step = "read" /\ IsFiniteSet(worker[w].ids)
      BY <2>1, <2>5 DEF ReadIds, Typed, FiniteIds
    <3>2. ids \subseteq worker[w].ids /\ IsFiniteSet(ids)
      BY <3>1, FS_Subset
    <3>3. IsWorkerState(ToAppend(worker[w], ids)) /\ ToAppend(worker[w], ids).ids = ids
      BY <3>1, <3>2, ToAppendTyped
    <3>4. worker' = [worker EXCEPT ![w] = ToAppend(worker[w], ids)]
      BY <1>0, <2>5, <3>1, ReadsIds
    <3>5. /\ log' = log /\ idFile' = idFile /\ jobs' = jobs
          /\ UNCHANGED <<status, net, buffer, broken, repeats, unread, mishaps, lost>>
      BY <2>5 DEF ReadIds, mishapVars
    <3> HIDE DEF ids
    <3> QED BY <1>0, <2>1, <3>2, <3>3, <3>4, <3>5, TypedWorker
  <2>6. CASE AppendIds(w)
    <3>1. worker[w].ids \subseteq Cluster /\ Cardinality(worker[w].ids) \in Nat
      BY <2>1, <2>6, FS_CardinalityType
      DEF AppendIds, IsWorkerState, IdleWorker, Typed, FiniteIds
    <3>2. idFile' \in Seq(Cluster)
      BY <2>1, <2>6, <3>1 DEF AppendIds
    <3>3. IsWorkerState(IdleWorker) /\ IdleWorker.step = "idle"
      BY DEF IsWorkerState, IdleWorker
    <3> QED BY <1>0, <2>1, <2>6, <3>2, <3>3, TypedWorker DEF AppendIds, mishapVars
  <2> QED BY <1>3, <2>2, <2>3, <2>4, <2>5, <2>6 DEF WorkerStep
<1>4. ASSUME NEW w \in Worker, WorkerMishap(w) PROVE Typed'
  <2>1. log \in Seq(Report) /\ idFile \in Seq(Cluster) /\ IsWorkerState(worker[w])
    BY <1>0 DEF ReceiverTypeOK
  <2>2. CASE WriteFails(w) \/ AppendIdsFails(w)
    <3>1. lost' \subseteq Text /\ mishaps' \in 0 .. MaxMishaps /\ unread' \in 0 .. mishaps'
      BY <1>0, <1>l, <2>2, MishapTyped DEF WriteFails, AppendIdsFails
    <3>2. /\ worker' = [worker EXCEPT ![w] = IdleWorker]
          /\ UNCHANGED <<status, net, buffer, jobs, broken, log, idFile, repeats>>
      BY <2>2 DEF WriteFails, AppendIdsFails
    <3>3. IsWorkerState(IdleWorker) /\ IdleWorker.step = "idle"
      BY DEF IsWorkerState, IdleWorker
    <3> QED BY <2>1, <3>1, <3>2, <3>3, TypedWorker
  <2>3. CASE ReadIdsFails(w)
    <3>1. lost' \subseteq Text /\ mishaps' \in 0 .. MaxMishaps /\ unread' \in 0 .. mishaps'
      BY <1>0, <2>3, MishapTyped DEF ReadIdsFails
    <3>2. IsWorkerState(worker[w]) /\ worker[w].step = "read" /\ IsFiniteSet(worker[w].ids)
      BY <2>1, <2>3 DEF ReadIdsFails, Typed, FiniteIds
    <3> DEFINE ids == worker[w].ids
    <3>3. IsWorkerState(ToAppend(worker[w], ids)) /\ ToAppend(worker[w], ids).ids = ids
      BY <3>2, ToAppendTyped
    <3>4. worker' = [worker EXCEPT ![w] = ToAppend(worker[w], ids)]
      BY <1>0, <2>3, <3>2, ReadsIds
    <3>5. UNCHANGED <<status, net, buffer, jobs, broken, log, idFile, repeats>>
      BY <2>3 DEF ReadIdsFails
    <3> QED BY <2>1, <3>1, <3>2, <3>3, <3>4, <3>5, TypedWorker
  <2>4. CASE WorkerDies(w)
    <3>1. InHands \cup InJobs \in SUBSET Text
      BY <1>l
    <3>2. lost' \subseteq Text /\ mishaps' \in 0 .. MaxMishaps /\ unread' \in 0 .. mishaps'
      BY <1>0, <2>4, <3>1, MishapTyped DEF WorkerDies
    <3>3. /\ broken' \in BOOLEAN /\ jobs' = <<>> /\ worker' = AllIdle
          /\ UNCHANGED <<status, net, buffer, log, idFile, repeats>>
      BY <2>4 DEF WorkerDies
    <3> QED BY <1>0, <3>2, <3>3, TypedMain
  <2> QED BY <1>4, <2>2, <2>3, <2>4 DEF WorkerMishap
<1>5. CASE UNCHANGED receiverVars
  BY <1>5, <1>0, TypedMain DEF receiverVars, poolVars, mishapVars, Typed, ReceiverTypeOK
<1> QED BY <1>1, <1>2, <1>3, <1>4, <1>5 DEF Next, ReceiverNext


\* The receiver's state keeps its types, whatever arrives, dies or is killed: the
\* entries of assembly_buffer, the jobs and the reports are well formed.
THEOREM ReceiverTypeCorrect == Spec => []ReceiverTypeOK
<1>1. Typed => ReceiverTypeOK
  BY DEF Typed
<1> QED BY <1>1, TypedInit, TypedStep, PTL DEF Spec

-----------------------------------------------------------------------------
\* assembly_buffer holds no complete message.

\* The pass of the main loop that completes a message also submits and deletes
\* it, as long as the pool takes jobs (telemetry_receiver.py 264-276).
THEOREM CompleteIsSubmitted == Spec => []NothingCompleteWaits
<1>1. Init => NothingCompleteWaits
  BY DEF Init, ReceiverInitExceptNet, NoMessages, NothingCompleteWaits
<1>2. NothingCompleteWaits /\ [Next]_receiverVars => NothingCompleteWaits'
  <2> SUFFICES ASSUME NothingCompleteWaits, [Next]_receiverVars, ~broken',
                      NEW m \in DOMAIN buffer'
               PROVE  ~IsComplete(buffer'[m])
    BY DEF NothingCompleteWaits, IsComplete
  <2> USE DEF NothingCompleteWaits
  <2>1. CASE Stopped \/ KillReceiver
    BY <2>1 DEF Stopped, KillReceiver, NoMessages
  <2>2. CASE UNCHANGED <<buffer, broken>>
    BY <2>2
  <2>3. ASSUME NEW d \in net, StoreFrame(d) PROVE ~IsComplete(buffer'[m])
    BY <2>3 DEF StoreFrame, BufferWith
  <2>4. ASSUME NEW d \in net, SubmitMessage(d) PROVE ~IsComplete(buffer'[m])
    BY <2>4 DEF SubmitMessage, Restrict
  <2>5. ASSUME NEW d \in net, SubmitRaises(d) PROVE ~IsComplete(buffer'[m])
    BY <2>5 DEF SubmitRaises
  <2>6. ASSUME NEW w \in Worker, WorkerMishap(w) PROVE UNCHANGED <<buffer, broken>>
    BY <2>6 DEF WorkerMishap, WriteFails, ReadIdsFails, AppendIdsFails, WorkerDies
  <2>7. ASSUME NEW w \in Worker, WorkerStep(w) PROVE UNCHANGED <<buffer, broken>>
    BY <2>7 DEF WorkerStep, TakeJob, JoinFails, WriteReport, ReadIds, AppendIds
  <2>8. ASSUME NEW d \in net, SkipMalformed(d) PROVE UNCHANGED <<buffer, broken>>
    BY <2>8 DEF SkipMalformed
  <2>9. StartReceiver \/ Interrupt \/ UNCHANGED receiverVars => UNCHANGED <<buffer, broken>>
    BY DEF StartReceiver, Interrupt, receiverVars, poolVars
  <2> QED BY <2>1, <2>2, <2>3, <2>4, <2>5, <2>6, <2>7, <2>8, <2>9
      DEF Next, ReceiverNext, MainLoop
<1> QED BY <1>1, <1>2, PTL DEF Spec


-----------------------------------------------------------------------------
\* An OK report is one whole snapshot.

BodyOf(d) == [text |-> d.text, mac |-> d.mac]

\* Every body came with a genuine datagram.
AllGenuine(frames) == \A k \in DOMAIN frames : \E d \in Genuine : frames[k] = BodyOf(d)

\* A job for a single frame was made from a genuine datagram that announced one.
SingleGenuine(job) ==
  job.total = 1 =>
    \E d \in Genuine : d.total = 1 /\ d.src = job.src /\ job.frames[1] = BodyOf(d)

SoundJob(job) == AllGenuine(job.frames) /\ SingleGenuine(job)

WholeReport(e) ==
  e.status = "VERIFIED" =>
    LET t == e.texts[1] IN
    /\ e.total = 1 /\ Len(e.texts) = 1
    /\ t.cluster = e.src /\ SaltOf[t.cluster] = HmacSalt
    /\ t.lines = 1 .. t.count
    /\ e.table = TableOf(t)

Sound ==
  /\ net \ Noise \subseteq Genuine
  /\ \A m \in DOMAIN buffer : AllGenuine(buffer[m].frames)
  /\ \A i \in 1 .. Len(jobs) : SoundJob(jobs[i])
  /\ \A w \in Worker : worker[w].step = "check" => SoundJob(worker[w].job)
  /\ \A i \in DOMAIN log : WholeReport(log[i])

\* What a datagram leaves in its entry is genuine if it and the entry were.
LEMMA StoredGenuine ==
  ASSUME ReceiverTypeOK, Sound, NEW d \in Genuine
  PROVE  AllGenuine(Stored(d).frames) /\ Stored(d).frames[d.frame] = BodyOf(d)
<1>1. d \in Datagram
  BY DEF Genuine, Collected, Emulated
<1>2. /\ Stored(d).frames[d.frame] = BodyOf(d)
      /\ \A k \in DOMAIN Stored(d).frames : k # d.frame =>
           /\ d.msg \in DOMAIN buffer /\ k \in DOMAIN buffer[d.msg].frames
           /\ Stored(d).frames[k] = buffer[d.msg].frames[k]
  BY <1>1, StoredEntry DEF BodyOf
<1>3. ASSUME NEW k \in DOMAIN Stored(d).frames
      PROVE  \E g \in Genuine : Stored(d).frames[k] = BodyOf(g)
  BY <1>2 DEF Sound, AllGenuine
<1> QED BY <1>2, <1>3 DEF AllGenuine

\* The HMAC of the last frame is over one text, so it can only equal the HMAC
\* over all the texts of the message if that is the only one.
LEMMA VerifiedIsSingle ==
  ASSUME NEW job, IsJob(job), CanJoin(job), SoundJob(job)
  PROVE  WholeReport(ReportOf(job))
<1> SUFFICES ASSUME Status(job) = "VERIFIED"
             PROVE  WholeReport(ReportOf(job))
  BY DEF WholeReport, ReportOf
<1>1. /\ job.total \in Nat \ {0}
      /\ TextsOf(job) \in Seq(Text) /\ Len(TextsOf(job)) = job.total
      /\ \A k \in 1 .. job.total : TextsOf(job)[k] = job.frames[k].text
  BY JoinedTexts
<1>2. PICK g \in Genuine : job.frames[job.total] = BodyOf(g)
  BY <1>1 DEF SoundJob, AllGenuine, CanJoin
<1>3. g.mac = MAC(SaltOf[g.src], <<g.text>>)
  BY DEF Genuine, Collected, Emulated, Signed
<1>4. MAC(HmacSalt, TextsOf(job)) = MAC(SaltOf[g.src], <<g.text>>)
  BY <1>2, <1>3 DEF Status, LastMAC, BodyOf
<1>5. HmacSalt = SaltOf[g.src] /\ TextsOf(job) = <<g.text>>
  BY <1>4 DEF MAC
<1>6. job.total = 1
  BY <1>1, <1>5
<1>7. PICK d \in Genuine : d.total = 1 /\ d.src = job.src /\ job.frames[1] = BodyOf(d)
  BY <1>6 DEF SoundJob, SingleGenuine
<1>8. d.text = g.text /\ TextsOf(job)[1] = d.text /\ d.mac = g.mac
  BY <1>1, <1>2, <1>5, <1>6, <1>7 DEF BodyOf
<1>9. d.text.cluster = d.src /\ d.mac = MAC(SaltOf[d.src], <<d.text>>)
      /\ d.text.lines = 1 .. d.text.count
  BY <1>7 DEF Genuine, Collected, Emulated, Signed, IsWhole
<1>10. SaltOf[d.src] = HmacSalt
  BY <1>3, <1>5, <1>8, <1>9 DEF MAC
<1> QED BY <1>1, <1>6, <1>7, <1>8, <1>9, <1>10 DEF WholeReport, ReportOf, LookupTable

\* The receiver starts with nothing, and what may arrive is genuine or noise.
LEMMA SoundInit == Init => Sound
BY TrafficAssumption
DEF Init, ReceiverInitExceptNet, NoMessages, IdleWorker, Sound

\* A step that brings in no new body, job or report.
LEMMA SoundKept ==
  ASSUME Sound, net' \subseteq net, buffer' = buffer \/ DOMAIN buffer' = {},
         jobs' = jobs \/ jobs' = <<>>, worker' = worker \/ worker' = AllIdle, log' = log
  PROVE  Sound'
<1>1. \A m \in DOMAIN buffer' : AllGenuine(buffer'[m].frames)
  BY DEF Sound
<1>2. \A i \in 1 .. Len(jobs') : SoundJob(jobs'[i])
  BY DEF Sound
<1>3. \A w \in Worker : worker'[w].step = "check" => SoundJob(worker'[w].job)
  BY DEF Sound, AllIdle, IdleWorker
<1> QED BY <1>1, <1>2, <1>3 DEF Sound


\* Every step keeps it.
LEMMA SoundStep == Typed /\ Sound /\ [Next]_receiverVars => Sound'
<1> SUFFICES ASSUME Typed, Sound, [Next]_receiverVars PROVE Sound'
  OBVIOUS
<1>0. ReceiverTypeOK
  BY DEF Typed
<1>1. CASE StartReceiver \/ Interrupt \/ Stopped \/ KillReceiver \/ UNCHANGED receiverVars
  BY <1>1, SoundKept
  DEF StartReceiver, Interrupt, Stopped, KillReceiver, NoMessages, poolVars, receiverVars
<1>2. ASSUME NEW w \in Worker, WorkerMishap(w) PROVE Sound'
  <2>1. /\ UNCHANGED <<net, buffer, log>>
        /\ jobs' = jobs \/ jobs' = <<>>
    BY <1>2 DEF WorkerMishap, WriteFails, ReadIdsFails, AppendIdsFails, WorkerDies
  <2>2. \A v \in Worker : worker'[v].step = "check" =>
          worker[v].step = "check" /\ worker'[v] = worker[v]
    BY <1>0, <1>2
    DEF WorkerMishap, WriteFails, ReadIdsFails, AppendIdsFails, WorkerDies, AllIdle, IdleWorker,
        ToAppend, ReceiverTypeOK
  <2> QED BY <2>1, <2>2 DEF Sound
<1>3. ASSUME NEW d \in net, MainLoop(d) PROVE Sound'
  <2>1. net' \subseteq net /\ worker' = worker /\ log' = log
    BY <1>3 DEF MainLoop, SkipMalformed, StoreFrame, SubmitMessage, SubmitRaises, Recv, poolVars
  <2>2. CASE SkipMalformed(d)
    BY <2>1, <2>2, SoundKept DEF SkipMalformed, poolVars
  <2>3. CASE d \in net \ Noise
    <3>1. d \in Genuine
      BY <2>3 DEF Sound
    <3>2. AllGenuine(Stored(d).frames) /\ Stored(d).frames[d.frame] = BodyOf(d)
      BY <1>0, <3>1, StoredGenuine
    <3>3. ASSUME buffer' = BufferWith(d.msg, Stored(d)), jobs' = jobs PROVE Sound'
      <4> DEFINE entry == Stored(d)
                 m0 == d.msg
      <4>1. \A m \in DOMAIN buffer' : AllGenuine(buffer'[m].frames)
        <5>1. AllGenuine(entry.frames) /\ buffer' = BufferWith(m0, entry)
          BY <3>2, <3>3
        <5> HIDE DEF entry, m0
        <5>2. /\ DOMAIN buffer' = DOMAIN buffer \cup {m0} /\ buffer'[m0] = entry
              /\ \A n \in DOMAIN buffer : n # m0 => buffer'[n] = buffer[n]
          BY <5>1, BufferUpdate
        <5> QED BY <5>1, <5>2 DEF Sound
      <4> QED BY <2>1, <3>3, <4>1 DEF Sound
    <3>4. CASE SubmitMessage(d)
      <4> DEFINE job == [msg |-> d.msg, src |-> d.src, total |-> d.total,
                         frames |-> Stored(d).frames]
      <4>1. SingleGenuine(job)
        <5>1. job.total = 1 => d.frame = 1
          BY <3>1 DEF Genuine, Collected, Emulated, Datagram
        <5> QED BY <3>1, <3>2, <5>1 DEF SingleGenuine
      <4>2. SoundJob(job)
        BY <3>2, <4>1 DEF SoundJob
      <4>3. \A m \in DOMAIN buffer' : AllGenuine(buffer'[m].frames)
        BY <3>4 DEF SubmitMessage, Restrict, Sound
      <4>4. jobs' = Append(jobs, job)
        BY <3>4 DEF SubmitMessage
      <4> HIDE DEF job
      <4>5. \A i \in 1 .. Len(jobs') : SoundJob(jobs'[i])
        <5> PICK S : jobs \in Seq(S)
          BY DEF Typed, JobsInSequence
        <5>1. jobs \in Seq(S \cup {job})
          OBVIOUS
        <5>2. Len(jobs') = Len(jobs) + 1 /\ jobs'[Len(jobs) + 1] = job
              /\ \A i \in 1 .. Len(jobs) : jobs'[i] = jobs[i]
          BY <4>4, <5>1
        <5> QED BY <4>2, <5>2 DEF Sound
      <4> QED BY <2>1, <4>3, <4>5 DEF Sound
    <3> QED BY <1>3, <2>2, <3>3, <3>4 DEF MainLoop, StoreFrame, SubmitRaises, poolVars
  <2> QED BY <1>3, <2>2, <2>3 DEF MainLoop, StoreFrame, SubmitMessage, SubmitRaises
<1>4. ASSUME NEW w \in Worker, WorkerStep(w) PROVE Sound'
  <2>1. UNCHANGED <<net, buffer>>
    BY <1>4 DEF WorkerStep, TakeJob, JoinFails, WriteReport, ReadIds, AppendIds
  <2>2. CASE TakeJob(w)
    <3>1. /\ \A i \in 1 .. Len(jobs') : SoundJob(jobs'[i])
          /\ SoundJob(Head(jobs))
      BY <2>2 DEF TakeJob, Sound, Typed, JobsInSequence
    <3>2. \A v \in Worker : worker'[v].step = "check" => SoundJob(worker'[v].job)
      BY <1>0, <2>2, <3>1, WorkerUpdate DEF TakeJob, Sound
    <3> QED BY <2>1, <2>2, <3>1, <3>2 DEF TakeJob, Sound
  <2>3. CASE JoinFails(w) \/ ReadIds(w) \/ AppendIds(w)
    <3>1. \A v \in Worker : worker'[v].step = "check" => SoundJob(worker'[v].job)
      BY <1>0, <2>3 DEF JoinFails, ReadIds, AppendIds, ToAppend, IdleWorker, Sound, ReceiverTypeOK
    <3> QED BY <2>1, <2>3, <3>1 DEF JoinFails, ReadIds, AppendIds, Sound
  <2>4. CASE WriteReport(w)
    <3>1. IsJob(worker[w].job) /\ CanJoin(worker[w].job) /\ SoundJob(worker[w].job)
      BY <1>0, <2>4, SMTT(30) DEF WriteReport, ReceiverTypeOK, IsWorkerState, IdleWorker, Sound
    <3>2. WholeReport(ReportOf(worker[w].job)) /\ ReportOf(worker[w].job) \in Report
      BY <3>1, VerifiedIsSingle, JoinedTexts
    <3>3. \A i \in DOMAIN log' : WholeReport(log'[i])
      BY <1>0, <2>4, <3>2 DEF WriteReport, ReceiverTypeOK, Sound
    <3>4. \A v \in Worker : worker'[v].step = "check" => SoundJob(worker'[v].job)
      BY <1>0, <2>4 DEF WriteReport, Sound, ReceiverTypeOK
    <3> QED BY <2>1, <2>4, <3>3, <3>4 DEF WriteReport, Sound
  <2> QED BY <1>4, <2>2, <2>3, <2>4 DEF WorkerStep
<1> QED BY <1>1, <1>2, <1>3, <1>4 DEF Next, ReceiverNext

\* Whatever is repeated, reordered, mixed under one message id or lost in a
\* crash, a report logged with [INTEGRITY: OK] is one whole snapshot of the
\* cluster it names, signed with the receiver's salt (telemetry_receiver.py
\* 98-177).
THEOREM VerifiedReportsAreWhole == Spec => []VerifiedIsWholeSnapshot
<1>1. Sound => VerifiedIsWholeSnapshot
  BY DEF Sound, WholeReport, VerifiedIsWholeSnapshot
<1> QED BY <1>1, TypedInit, TypedStep, SoundInit, SoundStep, PTL DEF Spec

-----------------------------------------------------------------------------
\* No cluster id is missed.

\* A worker that holds the report of the text has its cluster's id to append.
Carries(s, t) == s.step \in {"read", "append"} /\ t \in s.texts /\ t.cluster \in s.ids
Secured(t) ==
  t \in lost \/ t.cluster \in Range(idFile) \/ \E w \in Worker : Carries(worker[w], t)
AllSecured == \A i \in DOMAIN log : \A t \in TextsLogged(i) : Secured(t)

\* A step of a worker that has no ids, or hands them on, takes no id away.
LEMMA SecuredByWorker ==
  ASSUME ReceiverTypeOK, NEW w \in Worker, NEW s, worker' = [worker EXCEPT ![w] = s],
         Range(idFile) \subseteq Range(idFile'), lost \subseteq lost',
         \A t : Carries(worker[w], t) =>
           Carries(s, t) \/ t.cluster \in Range(idFile') \/ t \in lost'
  PROVE  \A t : Secured(t) => Secured(t)'
<1>1. worker'[w] = s /\ \A v \in Worker : v # w => worker'[v] = worker[v]
  BY WorkerUpdate
<1> QED BY <1>1 DEF Secured

\* What ends the work of all workers counts the texts in their hands as lost.
LEMMA SecuredByMishap ==
  ASSUME UNCHANGED idFile, lost \cup InHands \subseteq lost'
  PROVE  \A t : Secured(t) => Secured(t)'
<1>1. \A t : \A w \in Worker : Carries(worker[w], t) => t \in InHands
  BY DEF Carries, InHands, InHand
<1> QED BY <1>1 DEF Secured

\* Every step keeps it.
LEMMA SecuredStep == Typed /\ AllSecured /\ [Next]_receiverVars => AllSecured'
<1> SUFFICES ASSUME Typed, AllSecured, [Next]_receiverVars PROVE AllSecured'
  OBVIOUS
<1>0. ReceiverTypeOK
  BY DEF Typed
<1>1. ASSUME log' = log, \A t : Secured(t) => Secured(t)' PROVE AllSecured'
  BY <1>1 DEF AllSecured, TextsLogged
<1>2. ASSUME UNCHANGED <<log, idFile, worker>>, lost \subseteq lost' PROVE AllSecured'
  BY <1>1, <1>2 DEF Secured
<1>3. CASE StartReceiver \/ Stopped \/ UNCHANGED receiverVars
  BY <1>2, <1>3 DEF StartReceiver, Stopped, poolVars, mishapVars, receiverVars
<1>4. CASE Interrupt
  <2>1. UNCHANGED <<log, idFile>> /\ lost \subseteq lost'
    BY <1>4 DEF Interrupt, Mishap
  <2>2. CASE worker' = worker
    BY <1>2, <2>1, <2>2
  <2>3. CASE InHands \subseteq lost'
    BY <1>1, <2>1, <2>3, SecuredByMishap
  <2> QED BY <1>4, <2>2, <2>3 DEF Interrupt, Mishap
<1>5. CASE KillReceiver \/ \E w \in Worker : WorkerDies(w)
  <2>1. UNCHANGED <<log, idFile>> /\ lost \cup InHands \subseteq lost'
    BY <1>5 DEF KillReceiver, WorkerDies, Mishap
  <2> QED BY <1>1, <2>1, SecuredByMishap
<1>6. ASSUME NEW d \in net, MainLoop(d) PROVE AllSecured'
  <2>1. UNCHANGED <<log, idFile, worker>> /\ lost \subseteq lost'
    BY <1>6
    DEF MainLoop, SkipMalformed, StoreFrame, SubmitMessage, SubmitRaises, poolVars, mishapVars
  <2> QED BY <1>2, <2>1
<1>7. ASSUME NEW w \in Worker, WorkerStep(w) PROVE AllSecured'
  <2>0. lost' = lost
    BY <1>7 DEF WorkerStep, TakeJob, JoinFails, WriteReport, ReadIds, AppendIds, mishapVars
  <2>1. CASE TakeJob(w)
    <3>1. \A t : ~Carries(worker[w], t)
      BY <2>1 DEF TakeJob, Carries
    <3> QED BY <1>0, <1>1, <2>0, <2>1, <3>1, SecuredByWorker DEF TakeJob
  <2>2. CASE JoinFails(w)
    <3>1. \A t : ~Carries(worker[w], t)
      BY <2>2 DEF JoinFails, Carries
    <3> QED BY <1>0, <1>1, <2>0, <2>2, <3>1, SecuredByWorker DEF JoinFails
  <2>3. CASE WriteReport(w)
    <3> DEFINE job == worker[w].job
               s == [step |-> "read", ids |-> DiscoveredIds(job), texts |-> Range(TextsOf(job))]
    <3>1. IsJob(job) /\ CanJoin(job)
      BY <1>0, <2>3 DEF WriteReport, ReceiverTypeOK, IsWorkerState, IdleWorker
    <3>2. /\ ReportOf(job) \in Report /\ ReportOf(job).texts = TextsOf(job)
          /\ DOMAIN TextsOf(job) = 1 .. job.total
      BY <3>1, JoinedTexts DEF ReportOf, TextsOf
    <3>3. \A t : ~Carries(worker[w], t)
      BY <2>3 DEF WriteReport, Carries
    <3>4. worker' = [worker EXCEPT ![w] = s] /\ idFile' = idFile
      BY <2>3 DEF WriteReport
    <3>5. \A t : Secured(t) => Secured(t)'
      BY <1>0, <2>0, <3>3, <3>4, SecuredByWorker
    <3>6. worker'[w] = s
      BY <1>0, <3>4, WorkerUpdate
    <3>7. \A t \in Range(TextsOf(job)) : Secured(t)'
      <4>1. \A t \in Range(TextsOf(job)) : t.cluster \in DiscoveredIds(job)
        BY <3>2 DEF Range, DiscoveredIds
      <4> QED BY <3>6, <4>1 DEF Secured, Carries
    <3>8. /\ DOMAIN log' = DOMAIN log \cup {Len(log) + 1} /\ log'[Len(log) + 1] = ReportOf(job)
          /\ \A i \in DOMAIN log : log'[i] = log[i]
      BY <1>0, <2>3, <3>2 DEF WriteReport, ReceiverTypeOK
    <3> QED BY <3>2, <3>5, <3>7, <3>8 DEF AllSecured, TextsLogged
  <2>4. CASE ReadIds(w)
    <3> DEFINE s == ToAppend(worker[w], worker[w].ids \ Range(idFile))
    <3>1. worker' = [worker EXCEPT ![w] = s] /\ idFile' = idFile
      BY <1>0, <2>4, ReadsIds DEF ReadIds
    <3>2. \A t : Carries(worker[w], t) => Carries(s, t) \/ t.cluster \in Range(idFile')
      BY <3>1 DEF Carries, ToAppend
    <3>3. \A t : Secured(t) => Secured(t)'
      BY <1>0, <2>0, <3>1, <3>2, SecuredByWorker
    <3> QED BY <1>1, <2>4, <3>3 DEF ReadIds
  <2>5. CASE AppendIds(w)
    <3> PICK order \in [1 .. Cardinality(worker[w].ids) -> worker[w].ids] :
               Range(order) = worker[w].ids /\ idFile' = idFile \o order
      BY <2>5 DEF AppendIds
    <3>1. idFile \in Seq(Cluster) /\ worker[w].ids \subseteq Cluster
          /\ Cardinality(worker[w].ids) \in Nat
      <4>1. idFile \in Seq(Cluster) /\ IsWorkerState(worker[w]) /\ worker[w].step = "append"
        BY <1>0, <2>5 DEF AppendIds, ReceiverTypeOK
      <4>2. worker[w].ids \subseteq Cluster
        BY <4>1 DEF IsWorkerState, IdleWorker
      <4>3. IsFiniteSet(worker[w].ids)
        BY <4>1 DEF Typed, FiniteIds
      <4> QED BY <4>1, <4>2, <4>3, FS_CardinalityType
    <3>2. order \in Seq(Cluster)
      <4> DEFINE n == Cardinality(worker[w].ids)
                 ids == worker[w].ids
      <4>1. n \in Nat /\ ids \subseteq Cluster /\ order \in [1 .. n -> ids]
        BY <3>1
      <4> HIDE DEF n, ids
      <4> QED BY <4>1
    <3>3. Range(idFile') = Range(idFile) \cup Range(order)
      <4>1. /\ DOMAIN idFile' = 1 .. Len(idFile) + Len(order)
            /\ \A i \in 1 .. Len(idFile) : idFile'[i] = idFile[i]
            /\ \A i \in 1 .. Len(order) : idFile'[Len(idFile) + i] = order[i]
        BY <3>1, <3>2
      <4>2. \A i \in DOMAIN idFile' :
              i \in 1 .. Len(idFile) \/ (i - Len(idFile)) \in 1 .. Len(order)
        BY <3>1, <3>2, <4>1
      <4>3. Range(idFile') \subseteq Range(idFile) \cup Range(order)
        BY <3>1, <3>2, <4>1, <4>2 DEF Range
      <4>4. ASSUME NEW i \in DOMAIN idFile PROVE idFile[i] \in Range(idFile')
        <6>1. i \in DOMAIN idFile' /\ idFile'[i] = idFile[i]
          BY <3>1, <3>2, <4>1
        <6> QED BY <6>1 DEF Range
      <4>5. ASSUME NEW i \in DOMAIN order PROVE order[i] \in Range(idFile')
        <6>1. Len(idFile) + i \in DOMAIN idFile' /\ idFile'[Len(idFile) + i] = order[i]
          BY <3>1, <3>2, <4>1
        <6> QED BY <6>1 DEF Range
      <4>6. Range(idFile) \subseteq Range(idFile')
        BY <4>4 DEF Range
      <4>7. Range(order) \subseteq Range(idFile')
        BY <4>5 DEF Range
      <4> QED BY <4>3, <4>6, <4>7
    <3>4. \A t : Carries(worker[w], t) => t.cluster \in Range(idFile')
      BY <3>3 DEF Carries
    <3>5. \A t : Secured(t) => Secured(t)'
      BY <1>0, <2>0, <2>5, <3>3, <3>4, SecuredByWorker DEF AppendIds
    <3> QED BY <1>1, <2>5, <3>5 DEF AppendIds
  <2> QED BY <1>7, <2>1, <2>2, <2>3, <2>4, <2>5 DEF WorkerStep
<1>8. ASSUME NEW w \in Worker, WriteFails(w) \/ ReadIdsFails(w) \/ AppendIdsFails(w)
      PROVE  AllSecured'
  <2>1. UNCHANGED <<log, idFile>> /\ lost \subseteq lost'
    BY <1>8 DEF WriteFails, ReadIdsFails, AppendIdsFails, Mishap
  <2>2. CASE WriteFails(w)
    <3>1. \A t : ~Carries(worker[w], t)
      BY <2>2 DEF WriteFails, Carries
    <3> QED BY <1>0, <1>1, <2>1, <2>2, <3>1, SecuredByWorker DEF WriteFails
  <2>3. CASE ReadIdsFails(w)
    <3>1. worker' = [worker EXCEPT ![w] = ToAppend(worker[w], worker[w].ids)]
      BY <1>0, <2>3, ReadsIds
    <3>2. \A t : Carries(worker[w], t) => Carries(ToAppend(worker[w], worker[w].ids), t)
      BY DEF Carries, ToAppend
    <3> QED BY <1>0, <1>1, <2>1, <3>1, <3>2, SecuredByWorker
  <2>4. CASE AppendIdsFails(w)
    <3>1. worker[w].texts \subseteq lost'
      BY <2>4 DEF AppendIdsFails, Mishap, InHand
    <3>2. \A t : Carries(worker[w], t) => t \in lost'
      BY <3>1 DEF Carries
    <3> QED BY <1>0, <1>1, <2>1, <2>4, <3>2, SecuredByWorker DEF AppendIdsFails
  <2> QED BY <1>8, <2>2, <2>3, <2>4
<1> QED BY <1>3, <1>4, <1>5, <1>6, <1>7, <1>8 DEF Next, ReceiverNext, WorkerMishap

\* The workers read cluster_ids_<day>.log and append to it without a lock, and
\* still every cluster with a report in the log is in that file, or a worker
\* carries it there, unless a mishap met the very report: a Ctrl-C or a death
\* while a worker had it in hand, or a failed append (telemetry_receiver.py
\* 179-198).
THEOREM NoIdIsMissed == Spec => []LoggedIdsListed
<1>1. Init => AllSecured
  BY DEF Init, ReceiverInitExceptNet, AllSecured
<1>2. AllSecured => LoggedIdsListed
  BY DEF AllSecured, Secured, Carries, LoggedIdsListed
<1> QED BY <1>1, <1>2, TypedInit, TypedStep, SecuredStep, PTL DEF Spec

-----------------------------------------------------------------------------
\* What is accepted stays so until it is logged.

Waiting(job, t) == CanJoin(job) /\ t \in Range(TextsOf(job))
InQueue(t) == \E i \in DOMAIN jobs : Waiting(jobs[i], t)
WithWorker(w, t) == worker[w].step = "check" /\ Waiting(worker[w].job, t)

LEMMA AcceptedIs == \A t : Accepted(t) <=> (InQueue(t) \/ \E w \in Worker : WithWorker(w, t))
BY DEF Accepted, InQueue, WithWorker, Waiting

\* A text that waits is among those a mishap can cut off.
LEMMA WaitingIsHeld ==
  ASSUME ReceiverTypeOK, JobsInSequence, NEW t
  PROVE  /\ InQueue(t) => t \in InJobs
         /\ \A w \in Worker : WithWorker(w, t) => t \in InHand(worker[w]) /\ t \in InHands
<1>1. ASSUME NEW job, IsJob(job), Waiting(job, t) PROVE t \in TextsIn(job.frames)
  <2>1. /\ CanJoin(job) /\ DOMAIN TextsOf(job) = 1 .. job.total
        /\ \A k \in 1 .. job.total : TextsOf(job)[k] = job.frames[k].text
    BY <1>1, JoinedTexts DEF Waiting, TextsOf
  <2>2. PICK k \in 1 .. job.total : t = job.frames[k].text
    BY <1>1, <2>1 DEF Waiting, Range
  <2> QED BY <2>1, <2>2 DEF CanJoin, TextsIn
<1>2. \A i \in DOMAIN jobs : IsJob(jobs[i])
  BY JobsAreCounted DEF ReceiverTypeOK
<1>3. InQueue(t) => t \in InJobs
  BY <1>1, <1>2 DEF InQueue, InJobs
<1>4. ASSUME NEW w \in Worker, WithWorker(w, t) PROVE t \in InHand(worker[w])
  <2>1. worker[w].step = "check" /\ IsJob(worker[w].job)
    BY <1>4 DEF WithWorker, ReceiverTypeOK, IsWorkerState, IdleWorker
  <2> QED BY <1>1, <1>4, <2>1 DEF WithWorker, InHand
<1> QED BY <1>3, <1>4 DEF InHands

\* No step drops a message that was accepted.
LEMMA AcceptedStep ==
  ASSUME Typed, [Next]_receiverVars, NEW t, Accepted(t)
  PROVE  Accepted(t)' \/ Logged(t)' \/ t \in lost'
<1>0. ReceiverTypeOK /\ JobsInSequence
  BY DEF Typed
<1>a. InQueue(t) \/ \E w \in Worker : WithWorker(w, t)
  BY AcceptedIs
<1>b. (InQueue(t)' \/ \E w \in Worker : WithWorker(w, t)') => Accepted(t)'
  BY DEF Accepted, InQueue, WithWorker, Waiting
<1>1. ASSUME \A i \in DOMAIN jobs : i \in DOMAIN jobs' /\ jobs'[i] = jobs[i], worker' = worker
      PROVE  Accepted(t)'
  <2>1. InQueue(t) => InQueue(t)'
    BY <1>1 DEF InQueue, Waiting, CanJoin, TextsOf
  <2>2. \A w \in Worker : WithWorker(w, t) => WithWorker(w, t)'
    BY <1>1 DEF WithWorker, Waiting, CanJoin, TextsOf
  <2> QED BY <1>a, <1>b, <2>1, <2>2
<1>2. CASE StartReceiver \/ Stopped \/ UNCHANGED receiverVars
  BY <1>1, <1>2 DEF StartReceiver, Stopped, poolVars, receiverVars
<1>3. ASSUME InHands \subseteq lost', jobs' = jobs \/ InJobs \subseteq lost'
      PROVE  Accepted(t)' \/ t \in lost'
  <2>1. CASE InQueue(t) /\ jobs' = jobs
    BY <2>1, <1>b DEF InQueue, Waiting, CanJoin, TextsOf
  <2> QED BY <1>0, <1>3, <1>a, <2>1, WaitingIsHeld
<1>4. CASE KillReceiver \/ \E w \in Worker : WorkerDies(w)
  BY <1>3, <1>4 DEF KillReceiver, WorkerDies, Mishap
<1>5. CASE Interrupt
  <2>1. CASE UNCHANGED <<jobs, worker>>
    BY <1>1, <2>1
  <2>2. CASE Mishap(InHands) /\ UNCHANGED jobs
    BY <1>3, <2>2 DEF Mishap
  <2>3. CASE Mishap(InHands \cup InJobs)
    BY <1>3, <2>3 DEF Mishap
  <2> QED BY <1>5, <2>1, <2>2, <2>3 DEF Interrupt
<1>6. ASSUME NEW d \in net, MainLoop(d) PROVE Accepted(t)'
  <2>1. worker' = worker
    BY <1>6 DEF MainLoop, SkipMalformed, StoreFrame, SubmitMessage, SubmitRaises, poolVars
  <2>2. CASE jobs' = jobs
    BY <1>1, <2>1, <2>2
  <2>3. CASE SubmitMessage(d)
    <3> PICK S : jobs \in Seq(S)
      BY <1>0 DEF JobsInSequence
    <3>1. PICK job : jobs' = Append(jobs, job)
      BY <2>3 DEF SubmitMessage
    <3>2. \A i \in DOMAIN jobs : i \in DOMAIN jobs' /\ jobs'[i] = jobs[i]
      BY <3>1
    <3> QED BY <1>1, <2>1, <3>2
  <2> QED BY <1>6, <2>2, <2>3
      DEF MainLoop, SkipMalformed, StoreFrame, SubmitRaises, poolVars
<1>7. ASSUME NEW w \in Worker, WorkerStep(w) \/ WorkerMishap(w), ~WorkerDies(w)
      PROVE  Accepted(t)' \/ Logged(t)' \/ t \in lost'
  <2>1. \A v \in Worker : v # w => worker'[v] = worker[v]
    <3>1. \E s : worker' = [worker EXCEPT ![w] = s]
      <4>1. CASE ReadIds(w) \/ ReadIdsFails(w)
        BY <1>0, <4>1, ReadsIds
      <4> QED BY <1>7, <4>1
          DEF WorkerStep, WorkerMishap, TakeJob, JoinFails, WriteReport, AppendIds, WriteFails,
              AppendIdsFails
    <3> QED BY <1>0, <3>1, WorkerUpdate
  <2>2. \A v \in Worker : v # w /\ WithWorker(v, t) => Accepted(t)'
    <3>1. \A v \in Worker : v # w /\ WithWorker(v, t) => WithWorker(v, t)'
      BY <2>1 DEF WithWorker, Waiting, CanJoin, TextsOf
    <3> QED BY <1>b, <3>1
  <2>3. ASSUME jobs' = jobs, WithWorker(w, t) => Logged(t)' \/ t \in lost'
        PROVE  Accepted(t)' \/ Logged(t)' \/ t \in lost'
    <3>1. InQueue(t) => InQueue(t)'
      BY <2>3 DEF InQueue, Waiting, CanJoin, TextsOf
    <3> QED BY <1>a, <1>b, <2>2, <2>3, <3>1
  <2>4. CASE TakeJob(w)
    <3> PICK S : jobs \in Seq(S)
      BY <1>0 DEF JobsInSequence
    <3>1. /\ jobs # <<>> /\ jobs' = Tail(jobs) /\ worker[w].step = "idle"
          /\ worker' = [worker EXCEPT ![w] = [step |-> "check", job |-> jobs[1]]]
      BY <2>4 DEF TakeJob
    <3>2. worker'[w] = [step |-> "check", job |-> jobs[1]]
      BY <1>0, <3>1, WorkerUpdate
    <3>3. ASSUME NEW i \in DOMAIN jobs, Waiting(jobs[i], t) PROVE Accepted(t)'
      <4>1. CASE i = 1
        <5>1. WithWorker(w, t)'
          BY <3>2, <3>3, <4>1 DEF WithWorker, Waiting, CanJoin, TextsOf
        <5> QED BY <1>b, <5>1
      <4>2. CASE i # 1
        <5>1. i - 1 \in DOMAIN jobs' /\ jobs'[i - 1] = jobs[i]
          BY <3>1, <4>2
        <5>2. InQueue(t)'
          BY <3>3, <5>1 DEF InQueue, Waiting, CanJoin, TextsOf
        <5> QED BY <1>b, <5>2
      <4> QED BY <4>1, <4>2
    <3>4. ~WithWorker(w, t)
      BY <3>1 DEF WithWorker
    <3> QED BY <1>a, <2>2, <3>3, <3>4 DEF InQueue
  <2>5. CASE JoinFails(w)
    <3>1. jobs' = jobs /\ ~WithWorker(w, t)
      BY <2>5 DEF JoinFails, WithWorker, Waiting
    <3> QED BY <2>3, <3>1
  <2>6. CASE WriteReport(w)
    <3>1. jobs' = jobs /\ log' = Append(log, ReportOf(worker[w].job)) /\ CanJoin(worker[w].job)
      BY <2>6 DEF WriteReport
    <3>2. ReportOf(worker[w].job) \in Report
      <4>1. IsJob(worker[w].job)
        BY <1>0, <2>6 DEF WriteReport, ReceiverTypeOK, IsWorkerState, IdleWorker
      <4> QED BY <3>1, <4>1, JoinedTexts
    <3>3. Len(log) + 1 \in DOMAIN log' /\ log'[Len(log) + 1] = ReportOf(worker[w].job)
      BY <1>0, <3>1, <3>2 DEF ReceiverTypeOK
    <3>4. log'[Len(log) + 1].texts = TextsOf(worker[w].job)
      BY <3>3 DEF ReportOf
    <3>5. WithWorker(w, t) => Logged(t)'
      BY <3>3, <3>4 DEF WithWorker, Waiting, Logged, TextsLogged
    <3> QED BY <2>3, <3>1, <3>5
  <2>7. CASE ReadIds(w) \/ AppendIds(w) \/ ReadIdsFails(w) \/ AppendIdsFails(w)
    <3>1. jobs' = jobs /\ worker[w].step # "check"
      BY <2>7 DEF ReadIds, AppendIds, ReadIdsFails, AppendIdsFails
    <3> QED BY <2>3, <3>1 DEF WithWorker
  <2>8. CASE WriteFails(w)
    <3>1. jobs' = jobs /\ InHand(worker[w]) \subseteq lost'
      BY <2>8 DEF WriteFails, Mishap
    <3> QED BY <1>0, <2>3, <3>1, WaitingIsHeld
  <2> QED BY <1>7, <2>4, <2>5, <2>6, <2>7, <2>8 DEF WorkerStep, WorkerMishap
<1> QED BY <1>2, <1>4, <1>5, <1>6, <1>7 DEF Next, ReceiverNext

\* What the pool has accepted stays with it until it is in the daily log, unless a mishap
\* cuts off that very message: the executor's exit waits for the pool, and a
\* failure or restart of other work drops nothing (telemetry_receiver.py
\* 239, 269-288).
THEOREM AcceptedIsKept == Spec => AcceptedUntilLogged
<1> DEFINE Kept == \A t \in {d.text : d \in UNION Traffics \ Noise} :
                     Accepted(t) => (Accepted(t) \/ Logged(t) \/ t \in lost)'
<1>1. Typed /\ [Next]_receiverVars => Kept
  BY AcceptedStep
<1>2. Typed /\ [Next]_receiverVars => [Kept]_receiverVars
  BY <1>1
<1> QED BY <1>2, TypedInit, TypedStep, PTL DEF Spec, AcceptedUntilLogged

-----------------------------------------------------------------------------
\* No cluster id is listed too often.

Entries(c) == {i \in DOMAIN idFile : idFile[i] = c}
Appending(c) == {w \in Worker : worker[w].step = "append" /\ c \in worker[w].ids}

\* A worker about to append an id is counted as if it had done so.
RoomFor(c) ==
  Cardinality(Entries(c)) + Cardinality(Appending(c)) <= Cardinality(Worker) + unread

LEMMA FiniteCounts ==
  ASSUME ReceiverTypeOK, NEW c
  PROVE  /\ IsFiniteSet(Entries(c)) /\ Cardinality(Entries(c)) \in Nat
         /\ IsFiniteSet(Appending(c)) /\ Cardinality(Appending(c)) \in Nat
         /\ Cardinality(Appending(c)) <= Cardinality(Worker) /\ Cardinality(Worker) \in Nat
<1>1. DOMAIN idFile = 1 .. Len(idFile) /\ Len(idFile) \in Nat
  BY DEF ReceiverTypeOK
<1>2. IsFiniteSet(DOMAIN idFile)
  BY <1>1, FS_Interval
<1>3. Entries(c) \in SUBSET DOMAIN idFile
  BY DEF Entries
<1>4. IsFiniteSet(Entries(c))
  BY <1>2, <1>3, FS_Subset
<1>5. IsFiniteSet(Worker) /\ Appending(c) \in SUBSET Worker
  BY ReceiverAssumption DEF Appending
<1>6. IsFiniteSet(Appending(c)) /\ Cardinality(Appending(c)) <= Cardinality(Worker)
  BY <1>5, FS_Subset
<1> QED BY <1>4, <1>5, <1>6, FS_CardinalityType

\* The arithmetic of the steps that write no id: the claims grow no more than the
\* failed reads.
LEMMA RoomKept ==
  ASSUME ReceiverTypeOK, ReceiverTypeOK', NEW c, RoomFor(c), idFile' = idFile,
         \/ Appending(c)' \subseteq Appending(c) /\ unread' = unread
         \/ \E w \in Worker : Appending(c)' \subseteq Appending(c) \cup {w} /\ unread' = unread + 1
  PROVE  RoomFor(c)'
<1>1. Entries(c)' = Entries(c)
  BY DEF Entries
<1> DEFINE a == Cardinality(Appending(c))
           b == Cardinality(Appending(c)')
           e == Cardinality(Entries(c))
           n == Cardinality(Worker)
<1>2. a \in Nat /\ e \in Nat /\ n \in Nat /\ unread \in Nat /\ unread' \in Nat
  <2>1. a \in Nat /\ e \in Nat /\ n \in Nat
    BY FiniteCounts
  <2>2. unread \in Nat /\ unread' \in Nat
    BY DEF ReceiverTypeOK
  <2> HIDE DEF a, e, n
  <2> QED BY <2>1, <2>2
<1>3. b \in Nat /\ b + unread <= a + unread'
  <2>1. IsFiniteSet(Appending(c))
    BY FiniteCounts
  <2>2. CASE Appending(c)' \subseteq Appending(c) /\ unread' = unread
    <3>1. Appending(c)' \in SUBSET Appending(c)
      BY <2>2
    <3>2. IsFiniteSet(Appending(c)') /\ b <= a
      BY <2>1, <3>1, FS_Subset
    <3>3. b \in Nat
      BY <3>2, FS_CardinalityType
    <3> HIDE DEF a, b
    <3> QED BY <1>2, <2>2, <3>2, <3>3
  <2>3. ASSUME NEW w \in Worker, Appending(c)' \subseteq Appending(c) \cup {w},
               unread' = unread + 1
        PROVE  b \in Nat /\ b + unread <= a + unread'
    <3> DEFINE A == Appending(c) \cup {w}
    <3>1. IsFiniteSet(A) /\ (Cardinality(A) = a \/ Cardinality(A) = a + 1)
      BY <2>1, FS_AddElement
    <3>2. Appending(c)' \in SUBSET A
      BY <2>3
    <3>3. IsFiniteSet(Appending(c)') /\ b <= Cardinality(A)
      BY <3>1, <3>2, FS_Subset
    <3>4. b \in Nat /\ Cardinality(A) \in Nat
      BY <3>1, <3>3, FS_CardinalityType
    <3> HIDE DEF a, b, A
    <3> QED BY <1>2, <2>3, <3>1, <3>3, <3>4
  <2> QED BY <2>2, <2>3
<1>4. e + a <= n + unread
  BY DEF RoomFor
<1> HIDE DEF a, b, e, n
<1> DEFINE u == unread
           v == unread'
<1>5. e + b <= n + v
  <2>1. /\ a \in Nat /\ e \in Nat /\ n \in Nat /\ u \in Nat /\ v \in Nat /\ b \in Nat
        /\ b + u <= a + v /\ e + a <= n + u
    BY <1>2, <1>3, <1>4
  <2> HIDE DEF u, v
  <2> QED BY <2>1
<1> QED BY <1>1, <1>5 DEF RoomFor, b, e, n

\* An id that is new to the file has no entry yet, so there is room for every worker.
LEMMA RoomWhenNew ==
  ASSUME ReceiverTypeOK, ReceiverTypeOK', NEW c, idFile' = idFile, c \notin Range(idFile)
  PROVE  RoomFor(c)'
<1>1. Entries(c)' = {}
  BY DEF Entries, Range
<1>2. Cardinality(Entries(c)') = 0
  BY <1>1, FS_EmptySet
<1>3. Appending(c)' \in SUBSET Worker /\ IsFiniteSet(Worker)
  BY ReceiverAssumption DEF Appending
<1>4. IsFiniteSet(Appending(c)') /\ Cardinality(Appending(c)') <= Cardinality(Worker)
  BY <1>3, FS_Subset
<1>5. Cardinality(Appending(c)') \in Nat /\ Cardinality(Worker) \in Nat /\ unread' \in Nat
  BY <1>3, <1>4, FS_CardinalityType DEF ReceiverTypeOK
<1>6. 0 + Cardinality(Appending(c)') <= Cardinality(Worker) + unread'
  BY <1>4, <1>5
<1> QED BY <1>2, <1>6 DEF RoomFor

HasOnce(order, n, c) == \E k \in 1 .. n : order[k] = c /\ \A j \in 1 .. n : order[j] = c => j = k

\* The order in which a set is appended has each of its members once.
LEMMA EachOnce ==
  ASSUME NEW ids, IsFiniteSet(ids), NEW order \in [1 .. Cardinality(ids) -> ids],
         Range(order) = ids, NEW c \in ids
  PROVE  HasOnce(order, Cardinality(ids), c)
<1> DEFINE n == Cardinality(ids)
<1>1. n \in Nat
  BY FS_CardinalityType
<1>2. IsFiniteSet(1 .. n) /\ Cardinality(1 .. n) = n
  <2> HIDE DEF n
  <2> QED BY <1>1, FS_Interval
<1>3. order \in Surjection(1 .. n, ids)
  BY DEF Surjection, Range
<1>4. order \in Injection(1 .. n, ids)
  BY <1>2, <1>3, FS_SurjSameCardinalityImpliesInj
<1>5. \A j, k \in 1 .. n : order[j] = order[k] => j = k
  BY <1>4 DEF Injection, IsInjective
<1>6. PICK k \in 1 .. n : order[k] = c
  BY DEF Range
<1> QED BY <1>5, <1>6 DEF HasOnce

\* A worker that appends an id turns its claim into one entry.
LEMMA RoomUsed ==
  ASSUME Typed, ReceiverTypeOK', NEW w \in Worker, AppendIds(w), NEW c, RoomFor(c)
  PROVE  RoomFor(c)'
<1> DEFINE ids == worker[w].ids
<1>0. ReceiverTypeOK
  BY DEF Typed
<1>0a. unread' = unread
  BY DEF AppendIds, mishapVars
<1>1. /\ worker[w].step = "append" /\ IsWorkerState(worker[w]) /\ IsFiniteSet(ids)
      /\ idFile \in Seq(Cluster)
      /\ worker' = [worker EXCEPT ![w] = IdleWorker]
  BY <1>0 DEF AppendIds, Typed, FiniteIds, ReceiverTypeOK
<1>2. ids \subseteq Cluster
  BY <1>1 DEF IsWorkerState, IdleWorker
<1>3. PICK order \in [1 .. Cardinality(ids) -> ids] :
             Range(order) = ids /\ idFile' = idFile \o order
  BY DEF AppendIds
<1>4. Appending(c)' = Appending(c) \ {w}
  <2>1. /\ worker'[w] = IdleWorker
        /\ \A v \in Worker : v # w => worker'[v] = worker[v]
    BY <1>0, <1>1, WorkerUpdate
  <2> QED BY <2>1 DEF Appending, IdleWorker
<1>5. Cardinality(ids) \in Nat
  BY <1>1, FS_CardinalityType
<1>6. order \in Seq(Cluster) /\ Len(order) = Cardinality(ids)
  <2> DEFINE n == Cardinality(ids)
  <2>1. n \in Nat /\ order \in [1 .. n -> ids] /\ ids \subseteq Cluster
    BY <1>2, <1>5
  <2> HIDE DEF n, ids
  <2>2. order \in Seq(Cluster) /\ Len(order) = n
    BY <2>1
  <2> QED BY <2>2 DEF n, ids
<1>7. ASSUME c \in ids
         PROVE  HasOnce(order, Cardinality(ids), c)
  <2>1. IsFiniteSet(ids) /\ order \in [1 .. Cardinality(ids) -> ids] /\ Range(order) = ids
    BY <1>1, <1>3
  <2> HIDE DEF ids
  <2> QED BY <1>7, <2>1, EachOnce
<1> HIDE DEF ids
<1>8. /\ DOMAIN idFile' = 1 .. Len(idFile) + Len(order)
      /\ DOMAIN idFile = 1 .. Len(idFile) /\ Len(idFile) \in Nat
      /\ \A i \in 1 .. Len(idFile) : idFile'[i] = idFile[i]
      /\ \A i \in 1 .. Len(order) : idFile'[Len(idFile) + i] = order[i]
  BY <1>1, <1>3, <1>6
<1>9. \A i \in DOMAIN idFile' :
        i \in 1 .. Len(idFile) \/ (i - Len(idFile)) \in 1 .. Len(order)
  BY <1>5, <1>6, <1>8
<1>10. \A i \in DOMAIN idFile' \ DOMAIN idFile :
        idFile'[i] = order[i - Len(idFile)] /\ (i - Len(idFile)) \in 1 .. Len(order)
  <2> SUFFICES ASSUME NEW i \in DOMAIN idFile' \ DOMAIN idFile
               PROVE  idFile'[i] = order[i - Len(idFile)] /\ (i - Len(idFile)) \in 1 .. Len(order)
    OBVIOUS
  <2>1. (i - Len(idFile)) \in 1 .. Len(order)
    BY <1>8, <1>9
  <2>2. i = Len(idFile) + (i - Len(idFile))
    BY <1>5, <1>6, <1>8
  <2> QED BY <1>8, <2>1, <2>2
<1>11. CASE c \notin ids
  <2>1. \A i \in DOMAIN idFile' \ DOMAIN idFile : idFile'[i] # c
    BY <1>3, <1>6, <1>10, <1>11
  <2>2. DOMAIN idFile \subseteq DOMAIN idFile' /\ \A i \in DOMAIN idFile : idFile'[i] = idFile[i]
    BY <1>5, <1>6, <1>8
  <2>3. Entries(c)' = Entries(c)
    BY <2>1, <2>2 DEF Entries
  <2>4. Appending(c)' = Appending(c)
    BY <1>4, <1>11 DEF Appending, ids
  <2> QED BY <1>0a, <2>3, <2>4 DEF RoomFor
<1>12. CASE c \in ids
  <2>1. PICK k \in 1 .. Cardinality(ids) :
          order[k] = c /\ \A j \in 1 .. Cardinality(ids) : order[j] = c => j = k
    BY <1>12, <1>7 DEF HasOnce
  <2> DEFINE at == Len(idFile) + k
  <2>2. at \in DOMAIN idFile' /\ at \notin DOMAIN idFile /\ idFile'[at] = c
    BY <1>5, <1>6, <1>8, <2>1
  <2>3. DOMAIN idFile \subseteq DOMAIN idFile' /\ \A i \in DOMAIN idFile : idFile'[i] = idFile[i]
    BY <1>5, <1>6, <1>8
  <2>4. \A i \in DOMAIN idFile' \ DOMAIN idFile : idFile'[i] = c => i = at
    <3> SUFFICES ASSUME NEW i \in DOMAIN idFile' \ DOMAIN idFile, idFile'[i] = c
                 PROVE  i = at
      OBVIOUS
    <3>1. i - Len(idFile) = k
      BY <1>6, <1>10, <2>1
    <3>2. i \in Nat /\ Len(idFile) \in Nat
      BY <1>5, <1>6, <1>8
    <3> QED BY <3>1, <3>2
  <2> HIDE DEF at
  <2>5. Entries(c)' = Entries(c) \cup {at} /\ at \notin Entries(c)
    BY <2>2, <2>3, <2>4 DEF Entries
  <2>6. Cardinality(Entries(c)') = Cardinality(Entries(c)) + 1
    BY <1>0, <2>5, FiniteCounts, FS_AddElement
  <2>7. w \in Appending(c)
    BY <1>1, <1>12 DEF Appending, ids
  <2>8. Cardinality(Appending(c)') = Cardinality(Appending(c)) - 1
    BY <1>0, <1>4, <2>7, FiniteCounts, FS_RemoveElement
  <2> DEFINE a == Cardinality(Appending(c))
             e == Cardinality(Entries(c))
             n == Cardinality(Worker)
  <2>9. a \in Nat /\ e \in Nat /\ n \in Nat /\ unread \in Nat /\ e + a <= n + unread
    BY <1>0, FiniteCounts DEF RoomFor, ReceiverTypeOK
  <2> HIDE DEF a, e, n
  <2>10. (e + 1) + (a - 1) <= n + unread
    BY <2>9
  <2> QED BY <1>0a, <2>6, <2>8, <2>10 DEF RoomFor, a, e, n
<1> QED BY <1>11, <1>12

\* The file is read and appended to without a lock, so an id can be listed
\* again, but never more often than there are pool processes and failed reads: a
\* worker that read the file claims an id only while the file has it not
\* (telemetry_receiver.py 179-198).
THEOREM RepeatsStayBounded == Spec => []IdRepeatsBounded
<1> DEFINE Room == \A c \in Cluster : RoomFor(c)
<1>1. Init => Room
  <2> SUFFICES ASSUME Init, NEW c \in Cluster PROVE RoomFor(c)
    OBVIOUS
  <2>1. ReceiverTypeOK
    BY TypedInit DEF Typed
  <2>2. Entries(c) = {} /\ Appending(c) = {} /\ unread = 0
    BY DEF Init, ReceiverInitExceptNet, Entries, Appending, IdleWorker
  <2>3. Cardinality({}) = 0
    BY FS_EmptySet
  <2>4. 0 + 0 <= Cardinality(Worker) + 0
    BY <2>1, FiniteCounts
  <2> QED BY <2>2, <2>3, <2>4 DEF RoomFor
<1>2. Typed /\ Room /\ [Next]_receiverVars => Room'
  <2> SUFFICES ASSUME Typed, Room, [Next]_receiverVars, NEW c \in Cluster PROVE RoomFor(c)'
    OBVIOUS
  <2>0. ReceiverTypeOK /\ ReceiverTypeOK' /\ RoomFor(c)
    BY TypedStep DEF Typed
  <2> HIDE DEF Room
  <2>1. ASSUME UNCHANGED <<idFile, unread>>, worker' = worker \/ worker' = AllIdle
        PROVE  RoomFor(c)'
    <3>1. Appending(c)' \subseteq Appending(c)
      BY <2>1 DEF Appending, AllIdle, IdleWorker
    <3> QED BY <2>0, <2>1, <3>1, RoomKept
  <2>2. CASE StartReceiver \/ Interrupt \/ Stopped \/ KillReceiver \/ UNCHANGED receiverVars
    BY <2>1, <2>2
    DEF StartReceiver, Interrupt, Stopped, KillReceiver, poolVars, mishapVars, receiverVars
  <2>3. ASSUME NEW d \in net, MainLoop(d) PROVE RoomFor(c)'
    BY <2>1, <2>3
    DEF MainLoop, SkipMalformed, StoreFrame, SubmitMessage, SubmitRaises, poolVars, mishapVars
  <2>4. ASSUME NEW w \in Worker, WorkerDies(w) PROVE RoomFor(c)'
    BY <2>1, <2>4 DEF WorkerDies
  <2>5. ASSUME NEW w \in Worker, NEW s, worker' = [worker EXCEPT ![w] = s], idFile' = idFile,
               \/ unread' = unread /\ (s.step = "append" /\ c \in s.ids => w \in Appending(c))
               \/ unread' = unread + 1
        PROVE  RoomFor(c)'
    <3>1. worker'[w] = s /\ \A v \in Worker : v # w => worker'[v] = worker[v]
      BY <2>0, <2>5, WorkerUpdate
    <3>2. Appending(c)' \subseteq Appending(c) \cup {w}
      BY <2>5, <3>1 DEF Appending
    <3>3. (s.step = "append" /\ c \in s.ids => w \in Appending(c))
            => Appending(c)' \subseteq Appending(c)
      BY <2>5, <3>1 DEF Appending
    <3> QED BY <2>0, <2>5, <3>2, <3>3, RoomKept
  <2>6. ASSUME NEW w \in Worker,
               TakeJob(w) \/ JoinFails(w) \/ WriteReport(w) \/ WriteFails(w) \/ AppendIdsFails(w)
        PROVE  RoomFor(c)'
    BY <2>5, <2>6
    DEF TakeJob, JoinFails, WriteReport, WriteFails, AppendIdsFails, mishapVars, IdleWorker
  <2>7. ASSUME NEW w \in Worker, ReadIds(w) PROVE RoomFor(c)'
    <3>1. CASE c \in Range(idFile)
      BY <2>5, <2>7, <3>1 DEF ReadIds, ToAppend, mishapVars
    <3>2. CASE c \notin Range(idFile)
      BY <2>0, <2>7, <3>2, RoomWhenNew DEF ReadIds
    <3> QED BY <3>1, <3>2
  <2>8. ASSUME NEW w \in Worker, ReadIdsFails(w) PROVE RoomFor(c)'
    BY <2>5, <2>8 DEF ReadIdsFails
  <2>9. ASSUME NEW w \in Worker, AppendIds(w) PROVE RoomFor(c)'
    BY <2>0, <2>9, RoomUsed
  <2> QED BY <2>2, <2>3, <2>4, <2>6, <2>7, <2>8, <2>9
      DEF Next, ReceiverNext, WorkerStep, WorkerMishap
<1>3. Typed /\ Room => IdRepeatsBounded
  <2> SUFFICES ASSUME Typed, Room, NEW c \in Cluster
               PROVE  Cardinality(Entries(c)) <= Cardinality(Worker) + unread
    BY DEF IdRepeatsBounded, Entries
  <2> DEFINE a == Cardinality(Appending(c))
             e == Cardinality(Entries(c))
             n == Cardinality(Worker)
  <2>1. a \in Nat /\ e \in Nat /\ n \in Nat /\ unread \in Nat /\ e + a <= n + unread
    BY FiniteCounts DEF Typed, ReceiverTypeOK, RoomFor
  <2> HIDE DEF a, e, n
  <2>2. e <= n + unread
    BY <2>1
  <2> QED BY <2>2 DEF e, n
<1> QED BY <1>1, <1>2, <1>3, TypedInit, TypedStep, PTL DEF Spec

-----------------------------------------------------------------------------
\* No frame is logged twice.  Where a frame is, named by its text: the datagram, the
\* slot of assembly_buffer, of a job or of the job a worker checks, or the position in
\* a report of the log.

InNet(t, x) == \E d \in net \ Noise : d.text = t /\ x = <<"net", d, 0>>
InEntry(t, x) ==
  \E m \in DOMAIN buffer : \E k \in DOMAIN buffer[m].frames :
    buffer[m].frames[k].text = t /\ x = <<"buffer", m, k>>
InJob(t, x) ==
  \E i \in 1 .. Len(jobs) : \E k \in DOMAIN jobs[i].frames :
    jobs[i].frames[k].text = t /\ x = <<"job", i, k>>
InWorker(t, x) ==
  \E w \in Worker : worker[w].step = "check" /\ \E k \in DOMAIN worker[w].job.frames :
    worker[w].job.frames[k].text = t /\ x = <<"worker", w, k>>
InLog(t, x) ==
  \E i \in 1 .. Len(log) : \E k \in 1 .. Len(log[i].texts) :
    log[i].texts[k] = t /\ x = <<"log", i, k>>

IsPlace(t, x) ==
  InNet(t, x) \/ InEntry(t, x) \/ InJob(t, x) \/ InWorker(t, x) \/ InLog(t, x)

OnePlace(t) == \A x, y : IsPlace(t, x) /\ IsPlace(t, y) => x = y
EachInOnePlace == \A t : OnePlace(t)

\* The second part of FrameLoggedOnce needs that a report has as many texts as frames.
TotalTexts == \A i \in DOMAIN log : Len(log[i].texts) = log[i].total

\* A step that only takes places away.
LEMMA FewerPlaces ==
  ASSUME EachInOnePlace, \A t, x : IsPlace(t, x)' => IsPlace(t, x)
  PROVE  EachInOnePlace'
BY DEF EachInOnePlace, OnePlace

LEMMA PlacesLeft ==
  ASSUME NEW t, NEW x
  PROVE  /\ net' \subseteq net => (InNet(t, x)' => InNet(t, x))
         /\ buffer' = buffer \/ buffer' = <<>> => (InEntry(t, x)' => InEntry(t, x))
         /\ jobs' = jobs \/ jobs' = <<>> => (InJob(t, x)' => InJob(t, x))
         /\ worker' = worker \/ worker' = AllIdle => (InWorker(t, x)' => InWorker(t, x))
         /\ log' = log => (InLog(t, x)' => InLog(t, x))
<1>1. net' \subseteq net => (InNet(t, x)' => InNet(t, x))
  BY DEF InNet
<1>2. buffer' = buffer \/ buffer' = <<>> => (InEntry(t, x)' => InEntry(t, x))
  BY DEF InEntry
<1>3. jobs' = jobs \/ jobs' = <<>> => (InJob(t, x)' => InJob(t, x))
  BY DEF InJob
<1>4. worker' = worker \/ worker' = AllIdle => (InWorker(t, x)' => InWorker(t, x))
  BY DEF InWorker, AllIdle, IdleWorker
<1>5. log' = log => (InLog(t, x)' => InLog(t, x))
  BY DEF InLog
<1> QED BY <1>1, <1>2, <1>3, <1>4, <1>5

\* The frame that is stored was in the datagram.
LEMMA StorePlaces ==
  ASSUME ReceiverTypeOK, EachInOnePlace, NEW d \in net \ Noise, net' = net \ {d},
         buffer' = BufferWith(d.msg, Stored(d)), UNCHANGED <<jobs, worker, log>>
  PROVE  EachInOnePlace'
<1> DEFINE New == <<"buffer", d.msg, d.frame>>
           Old(x) == IF x = New THEN <<"net", d, 0>> ELSE x
<1>1. d \in Datagram
  BY DEF ReceiverTypeOK
<1>2. /\ Stored(d).frames[d.frame] = [text |-> d.text, mac |-> d.mac]
      /\ \A k \in DOMAIN Stored(d).frames : k # d.frame =>
           /\ d.msg \in DOMAIN buffer /\ k \in DOMAIN buffer[d.msg].frames
           /\ Stored(d).frames[k] = buffer[d.msg].frames[k]
  BY <1>1, StoredEntry
<1>3. /\ DOMAIN buffer' = DOMAIN buffer \cup {d.msg} /\ buffer'[d.msg] = Stored(d)
      /\ \A n \in DOMAIN buffer : n # d.msg => buffer'[n] = buffer[n]
  BY BufferUpdate
<1> SUFFICES ASSUME NEW t, NEW x, NEW y, IsPlace(t, x)', IsPlace(t, y)' PROVE x = y
  BY DEF EachInOnePlace, OnePlace
<1>4. ASSUME NEW z, IsPlace(t, z)' PROVE IsPlace(t, Old(z)) /\ z # <<"net", d, 0>>
  <2>1. CASE InEntry(t, z)'
    <3>1. PICK m \in DOMAIN buffer' : \E k \in DOMAIN buffer'[m].frames :
            buffer'[m].frames[k].text = t /\ z = <<"buffer", m, k>>
      BY <2>1 DEF InEntry
    <3>2. PICK k \in DOMAIN buffer'[m].frames :
            buffer'[m].frames[k].text = t /\ z = <<"buffer", m, k>>
      BY <3>1
    <3>3. CASE m = d.msg /\ k = d.frame
      <4>1. d.text = t
        BY <1>2, <1>3, <3>2, <3>3
      <4>2. z = New /\ z # <<"net", d, 0>>
        BY <3>2, <3>3
      <4> QED BY <4>1, <4>2 DEF IsPlace, InNet
    <3>4. CASE ~(m = d.msg /\ k = d.frame)
      <4>1. /\ m \in DOMAIN buffer /\ k \in DOMAIN buffer[m].frames
            /\ buffer[m].frames[k].text = t
        BY <1>2, <1>3, <3>2, <3>4
      <4>2. z # New /\ z # <<"net", d, 0>>
        BY <3>2, <3>4
      <4> QED BY <3>2, <4>1, <4>2 DEF IsPlace, InEntry
    <3> QED BY <3>3, <3>4
  <2>2. CASE InNet(t, z)'
    <3>1. InNet(t, z) /\ z # New /\ z # <<"net", d, 0>>
      BY <2>2 DEF InNet
    <3> QED BY <3>1 DEF IsPlace
  <2>3. CASE InJob(t, z)' \/ InWorker(t, z)' \/ InLog(t, z)'
    <3>1. InJob(t, z) \/ InWorker(t, z) \/ InLog(t, z)
      BY <2>3, PlacesLeft
    <3>2. z # New /\ z # <<"net", d, 0>>
      BY <3>1 DEF InJob, InWorker, InLog
    <3> QED BY <3>1, <3>2 DEF IsPlace
  <2> QED BY <1>4, <2>1, <2>2, <2>3 DEF IsPlace
<1>5. IsPlace(t, Old(x)) /\ x # <<"net", d, 0>> /\ IsPlace(t, Old(y)) /\ y # <<"net", d, 0>>
  BY <1>4
<1>6. Old(x) = Old(y)
  BY <1>5 DEF EachInOnePlace, OnePlace
<1> QED BY <1>5, <1>6

\* The frames of a new job were in its entry, all but the last, which came now.
LEMMA SubmitPlaces ==
  ASSUME Typed, EachInOnePlace, NEW d \in net \ Noise, net' = net \ {d}, SubmitMessage(d)
  PROVE  EachInOnePlace'
<1> DEFINE n == Len(jobs) + 1
           job == [msg |-> d.msg, src |-> d.src, total |-> d.total, frames |-> Stored(d).frames]
<1>1. d \in Datagram
  BY DEF Typed, ReceiverTypeOK
<1>2. /\ Stored(d).frames[d.frame] = [text |-> d.text, mac |-> d.mac]
      /\ \A k \in DOMAIN Stored(d).frames : k # d.frame =>
           /\ d.msg \in DOMAIN buffer /\ k \in DOMAIN buffer[d.msg].frames
           /\ Stored(d).frames[k] = buffer[d.msg].frames[k]
  BY <1>1, StoredEntry DEF Typed
<1>3. /\ jobs' = Append(jobs, job) /\ UNCHANGED <<worker, log>>
      /\ buffer' = Restrict(buffer, DOMAIN buffer \ {d.msg})
  BY DEF SubmitMessage
<1>4. \A m \in DOMAIN buffer' : m # d.msg /\ m \in DOMAIN buffer /\ buffer'[m] = buffer[m]
  BY <1>3 DEF Restrict
<1>5. job.frames = Stored(d).frames
  OBVIOUS
<1> HIDE DEF job
<1>6. /\ Len(jobs) \in Nat /\ Len(jobs') = n /\ jobs'[n] = job
      /\ \A i \in 1 .. Len(jobs) : jobs'[i] = jobs[i]
  <2> PICK S : jobs \in Seq(S)
    BY DEF Typed, JobsInSequence
  <2>1. jobs \in Seq(S \cup {job})
    OBVIOUS
  <2> QED BY <2>1, <1>3
<1> DEFINE Old(x) == IF x[1] = "job" /\ x[2] = n
                     THEN IF x[3] = d.frame THEN <<"net", d, 0>> ELSE <<"buffer", d.msg, x[3]>>
                     ELSE x
           Fresh(x) == \E k : x = <<"job", n, k>>
           Kept(x) == /\ ~Fresh(x) /\ x # <<"net", d, 0>> /\ \A k : x # <<"buffer", d.msg, k>>
                      /\ Old(x) = x
<1> SUFFICES ASSUME NEW t, NEW x, NEW y, IsPlace(t, x)', IsPlace(t, y)' PROVE x = y
  BY DEF EachInOnePlace, OnePlace
<1>7. ASSUME NEW z, IsPlace(t, z)' PROVE IsPlace(t, Old(z)) /\ (Fresh(z) \/ Kept(z))
  <2>1. CASE InJob(t, z)'
    <3>1. PICK i \in 1 .. Len(jobs') : \E k \in DOMAIN jobs'[i].frames :
            jobs'[i].frames[k].text = t /\ z = <<"job", i, k>>
      BY <2>1 DEF InJob
    <3>2. PICK k \in DOMAIN jobs'[i].frames :
            jobs'[i].frames[k].text = t /\ z = <<"job", i, k>>
      BY <3>1
    <3>3. CASE i = n /\ k = d.frame
      <4>1. d.text = t /\ Old(z) = <<"net", d, 0>> /\ Fresh(z)
        BY <1>2, <1>5, <1>6, <3>2, <3>3
      <4> QED BY <4>1 DEF IsPlace, InNet
    <3>4. CASE i = n /\ k # d.frame
      <4>1. /\ d.msg \in DOMAIN buffer /\ k \in DOMAIN buffer[d.msg].frames
            /\ buffer[d.msg].frames[k].text = t
        BY <1>2, <1>5, <1>6, <3>2, <3>4
      <4>2. Old(z) = <<"buffer", d.msg, k>> /\ Fresh(z)
        BY <3>2, <3>4
      <4> QED BY <4>1, <4>2 DEF IsPlace, InEntry
    <3>5. CASE i # n
      <4>1. i \in 1 .. Len(jobs) /\ jobs'[i] = jobs[i]
        BY <1>6, <3>5
      <4>2. Kept(z)
        BY <3>2, <3>5
      <4>3. InJob(t, z)
        BY <4>1, <3>2 DEF InJob
      <4> QED BY <4>2, <4>3 DEF IsPlace
    <3> QED BY <3>3, <3>4, <3>5
  <2>2. CASE InEntry(t, z)'
    <3>1. PICK m \in DOMAIN buffer' : \E k \in DOMAIN buffer'[m].frames :
            buffer'[m].frames[k].text = t /\ z = <<"buffer", m, k>>
      BY <2>2 DEF InEntry
    <3>2. InEntry(t, z)
      BY <1>4, <3>1 DEF InEntry
    <3>3. Kept(z)
      BY <1>4, <3>1
    <3> QED BY <3>2, <3>3 DEF IsPlace
  <2>3. CASE InNet(t, z)'
    <3>1. InNet(t, z) /\ Kept(z)
      BY <2>3 DEF InNet
    <3> QED BY <3>1 DEF IsPlace
  <2>4. CASE InWorker(t, z)' \/ InLog(t, z)'
    <3>1. InWorker(t, z) \/ InLog(t, z)
      BY <2>4, <1>3, PlacesLeft
    <3>2. Kept(z)
      BY <3>1 DEF InWorker, InLog
    <3> QED BY <3>1, <3>2 DEF IsPlace
  <2> QED BY <1>7, <2>1, <2>2, <2>3, <2>4 DEF IsPlace
<1>8. /\ IsPlace(t, Old(x)) /\ (Fresh(x) \/ Kept(x))
      /\ IsPlace(t, Old(y)) /\ (Fresh(y) \/ Kept(y))
  BY <1>7
<1>9. Old(x) = Old(y)
  BY <1>8 DEF EachInOnePlace, OnePlace
<1>10. CASE Fresh(x) /\ Fresh(y)
  <2>1. PICK j, k : x = <<"job", n, j>> /\ y = <<"job", n, k>>
    BY <1>10
  <2>2. /\ Old(x) = IF j = d.frame THEN <<"net", d, 0>> ELSE <<"buffer", d.msg, j>>
        /\ Old(y) = IF k = d.frame THEN <<"net", d, 0>> ELSE <<"buffer", d.msg, k>>
    BY <2>1
  <2>3. j = k
    BY <2>2, <1>9
  <2> QED BY <2>1, <2>3
<1>11. CASE Fresh(x) /\ Kept(y)
  BY <1>9, <1>11
<1>12. CASE Kept(x) /\ Fresh(y)
  BY <1>9, <1>12
<1>13. CASE Kept(x) /\ Kept(y)
  BY <1>9, <1>13
<1> QED BY <1>8, <1>10, <1>11, <1>12, <1>13

\* The first job goes to the worker, the others move up.
LEMMA TakePlaces ==
  ASSUME Typed, EachInOnePlace, NEW w \in Worker, TakeJob(w)
  PROVE  EachInOnePlace'
<1>1. /\ jobs # <<>> /\ jobs' = Tail(jobs) /\ UNCHANGED <<net, buffer, log>>
      /\ worker' = [worker EXCEPT ![w] = [step |-> "check", job |-> Head(jobs)]]
      /\ worker[w].step = "idle"
  BY DEF TakeJob
<1>2. /\ Len(jobs) \in Nat \ {0} /\ Len(jobs') = Len(jobs) - 1 /\ Head(jobs) = jobs[1]
      /\ \A i \in 1 .. Len(jobs') : jobs'[i] = jobs[i + 1]
  <2> PICK S : jobs \in Seq(S)
    BY DEF Typed, JobsInSequence
  <2> QED BY <1>1
<1>3. /\ worker'[w] = [step |-> "check", job |-> jobs[1]]
      /\ \A v \in Worker : v # w => worker'[v] = worker[v]
  BY <1>1, <1>2, WorkerUpdate DEF Typed
<1> DEFINE Old(x) == IF x[1] = "worker" /\ x[2] = w THEN <<"job", 1, x[3]>>
                     ELSE IF x[1] = "job" THEN <<"job", x[2] + 1, x[3]>> ELSE x
           Taken(x) == \E k : x = <<"worker", w, k>>
           Moved(x) == \E i \in Nat \ {0} : \E k : x = <<"job", i, k>>
           Kept(x) == ~Taken(x) /\ x[1] # "job" /\ Old(x) = x
<1> SUFFICES ASSUME NEW t, NEW x, NEW y, IsPlace(t, x)', IsPlace(t, y)' PROVE x = y
  BY DEF EachInOnePlace, OnePlace
<1>4. ASSUME NEW z, IsPlace(t, z)' PROVE IsPlace(t, Old(z)) /\ (Taken(z) \/ Moved(z) \/ Kept(z))
  <2>1. CASE InWorker(t, z)'
    <3>1. PICK v \in Worker : worker'[v].step = "check" /\ \E k \in DOMAIN worker'[v].job.frames :
            worker'[v].job.frames[k].text = t /\ z = <<"worker", v, k>>
      BY <2>1 DEF InWorker
    <3>2. PICK k \in DOMAIN worker'[v].job.frames :
            worker'[v].job.frames[k].text = t /\ z = <<"worker", v, k>>
      BY <3>1
    <3>3. CASE v = w
      <4>1. k \in DOMAIN jobs[1].frames /\ jobs[1].frames[k].text = t
        BY <1>3, <3>2, <3>3
      <4>2. Old(z) = <<"job", 1, k>> /\ Taken(z) /\ 1 \in 1 .. Len(jobs)
        BY <1>2, <3>2, <3>3
      <4> QED BY <4>1, <4>2 DEF IsPlace, InJob
    <3>4. CASE v # w
      <4>1. Kept(z)
        BY <3>2, <3>4
      <4>2. InWorker(t, z)
        BY <1>3, <3>1, <3>2, <3>4 DEF InWorker
      <4> QED BY <4>1, <4>2 DEF IsPlace
    <3> QED BY <3>3, <3>4
  <2>2. CASE InJob(t, z)'
    <3>1. PICK i \in 1 .. Len(jobs') : \E k \in DOMAIN jobs'[i].frames :
            jobs'[i].frames[k].text = t /\ z = <<"job", i, k>>
      BY <2>2 DEF InJob
    <3>2. PICK k \in DOMAIN jobs'[i].frames :
            jobs'[i].frames[k].text = t /\ z = <<"job", i, k>>
      BY <3>1
    <3>3. /\ i \in Nat \ {0} /\ i + 1 \in 1 .. Len(jobs) /\ k \in DOMAIN jobs[i + 1].frames
          /\ jobs[i + 1].frames[k].text = t
      BY <1>2, <3>2
    <3>4. Old(z) = <<"job", i + 1, k>> /\ Moved(z)
      BY <3>2, <3>3
    <3> QED BY <3>3, <3>4 DEF IsPlace, InJob
  <2>3. CASE InNet(t, z)' \/ InEntry(t, z)' \/ InLog(t, z)'
    <3>1. InNet(t, z) \/ InEntry(t, z) \/ InLog(t, z)
      BY <2>3, <1>1, PlacesLeft
    <3>2. Kept(z)
      BY <3>1 DEF InNet, InEntry, InLog
    <3> QED BY <3>1, <3>2 DEF IsPlace
  <2> QED BY <1>4, <2>1, <2>2, <2>3 DEF IsPlace
<1>5. /\ IsPlace(t, Old(x)) /\ (Taken(x) \/ Moved(x) \/ Kept(x))
      /\ IsPlace(t, Old(y)) /\ (Taken(y) \/ Moved(y) \/ Kept(y))
  BY <1>4
<1>6. Old(x) = Old(y)
  BY <1>5 DEF EachInOnePlace, OnePlace
<1>7. ASSUME NEW z PROVE /\ Taken(z) => \E k : z = <<"worker", w, k>> /\ Old(z) = <<"job", 1, k>>
                         /\ Moved(z) => \E i \in Nat \ {0} : \E k :
                              z = <<"job", i, k>> /\ Old(z) = <<"job", i + 1, k>>
  OBVIOUS
<1>8. CASE Taken(x)
  <2>1. PICK j : x = <<"worker", w, j>> /\ Old(x) = <<"job", 1, j>>
    BY <1>7, <1>8
  <2>2. CASE Taken(y)
    <3>1. PICK k : y = <<"worker", w, k>> /\ Old(y) = <<"job", 1, k>>
      BY <1>7, <2>2
    <3> HIDE DEF Old
    <3> QED BY <2>1, <3>1, <1>6
  <2>3. CASE Moved(y)
    <3>1. PICK i \in Nat \ {0} : \E k : Old(y) = <<"job", i + 1, k>>
      BY <1>7, <2>3
    <3> HIDE DEF Old
    <3>2. i + 1 = 1
      BY <2>1, <3>1, <1>6
    <3> QED BY <3>1, <3>2
  <2>4. CASE Kept(y)
    BY <2>1, <2>4, <1>6
  <2> QED BY <2>2, <2>3, <2>4, <1>5
<1>9. CASE Moved(x)
  <2> PICK i \in Nat \ {0} : \E k : x = <<"job", i, k>> /\ Old(x) = <<"job", i + 1, k>>
    BY <1>7, <1>9
  <2>1. PICK k : x = <<"job", i, k>> /\ Old(x) = <<"job", i + 1, k>>
    OBVIOUS
  <2>2. CASE Taken(y)
    <3>1. PICK j : Old(y) = <<"job", 1, j>>
      BY <1>7, <2>2
    <3> HIDE DEF Old
    <3>2. i + 1 = 1
      BY <2>1, <3>1, <1>6
    <3> QED BY <2>1, <3>2
  <2>3. CASE Moved(y)
    <3> PICK j \in Nat \ {0} : \E m : y = <<"job", j, m>> /\ Old(y) = <<"job", j + 1, m>>
      BY <1>7, <2>3
    <3>1. PICK m : y = <<"job", j, m>> /\ Old(y) = <<"job", j + 1, m>>
      OBVIOUS
    <3> HIDE DEF Old
    <3>2. i + 1 = j + 1 /\ k = m
      BY <2>1, <3>1, <1>6
    <3>3. i = j
      BY <3>2
    <3> QED BY <2>1, <3>1, <3>2, <3>3
  <2>4. CASE Kept(y)
    BY <2>1, <2>4, <1>6
  <2> QED BY <2>2, <2>3, <2>4, <1>5
<1>10. CASE Kept(x)
  <2>1. ASSUME Taken(y) \/ Moved(y) PROVE FALSE
    BY <1>6, <1>10, <2>1
  <2>2. Kept(y)
    BY <2>1, <1>5
  <2> QED BY <1>6, <1>10, <2>2
<1> QED BY <1>5, <1>8, <1>9, <1>10

\* The texts of a report were in the job.
LEMMA ReportPlaces ==
  ASSUME Typed, EachInOnePlace, NEW w \in Worker, WriteReport(w)
  PROVE  EachInOnePlace'
<1> DEFINE job == worker[w].job
           r == ReportOf(job)
           n == Len(log) + 1
<1>1. /\ worker[w].step = "check" /\ CanJoin(job) /\ log' = Append(log, r)
      /\ worker' = [worker EXCEPT ![w] = [step |-> "read", ids |-> DiscoveredIds(job),
                                             texts |-> Range(TextsOf(job))]]
      /\ UNCHANGED <<net, buffer, jobs>>
  BY DEF WriteReport
<1>2. IsJob(job)
  BY <1>1, SMTT(30) DEF Typed, ReceiverTypeOK, IsWorkerState, IdleWorker
<1>3. /\ r \in Report /\ r.texts = TextsOf(job) /\ Len(TextsOf(job)) = job.total
      /\ \A k \in 1 .. job.total : k \in DOMAIN job.frames /\ TextsOf(job)[k] = job.frames[k].text
  <2>1. r.texts = TextsOf(job)
    BY DEF ReportOf
  <2> QED BY <1>1, <1>2, <2>1, JoinedTexts DEF CanJoin
<1>4. /\ worker'[w].step = "read"
      /\ \A v \in Worker : v # w => worker'[v] = worker[v]
  BY <1>1, WorkerUpdate DEF Typed
<1> HIDE DEF r
<1>5. /\ Len(log) \in Nat /\ Len(log') = n /\ log'[n] = r
      /\ \A i \in 1 .. Len(log) : log'[i] = log[i]
  BY <1>1, <1>3 DEF Typed, ReceiverTypeOK
<1> HIDE DEF job
<1> DEFINE Old(x) == IF x[1] = "log" /\ x[2] = n THEN <<"worker", w, x[3]>> ELSE x
           Fresh(x) == \E k : x = <<"log", n, k>> /\ Old(x) = <<"worker", w, k>>
           Kept(x) == (\A k : x # <<"worker", w, k>>) /\ Old(x) = x
<1> SUFFICES ASSUME NEW t, NEW x, NEW y, IsPlace(t, x)', IsPlace(t, y)' PROVE x = y
  BY DEF EachInOnePlace, OnePlace
<1>6. ASSUME NEW z, IsPlace(t, z)' PROVE IsPlace(t, Old(z)) /\ (Fresh(z) \/ Kept(z))
  <2>1. CASE InLog(t, z)'
    <3>1. PICK i \in 1 .. Len(log') : \E k \in 1 .. Len(log'[i].texts) :
            log'[i].texts[k] = t /\ z = <<"log", i, k>>
      BY <2>1 DEF InLog
    <3>2. PICK k \in 1 .. Len(log'[i].texts) : log'[i].texts[k] = t /\ z = <<"log", i, k>>
      BY <3>1
    <3>3. CASE i = n
      <4>1. k \in DOMAIN job.frames /\ job.frames[k].text = t
        BY <1>3, <1>5, <3>2, <3>3
      <4>2. Old(z) = <<"worker", w, k>> /\ Fresh(z)
        BY <3>2, <3>3
      <4>3. InWorker(t, Old(z))
        BY <1>1, <4>1, <4>2 DEF InWorker, job
      <4> QED BY <4>2, <4>3 DEF IsPlace
    <3>4. CASE i # n
      <4>1. i \in 1 .. Len(log) /\ log'[i] = log[i]
        BY <1>5, <3>4
      <4>2. InLog(t, z)
        BY <3>2, <4>1 DEF InLog
      <4>3. Kept(z)
        BY <3>2, <3>4
      <4> QED BY <4>2, <4>3 DEF IsPlace
    <3> QED BY <3>3, <3>4
  <2>2. CASE InWorker(t, z)'
    <3>1. PICK v \in Worker : worker'[v].step = "check" /\ \E k \in DOMAIN worker'[v].job.frames :
            worker'[v].job.frames[k].text = t /\ z = <<"worker", v, k>>
      BY <2>2 DEF InWorker
    <3>2. v # w /\ worker'[v] = worker[v]
      BY <1>4, <3>1
    <3>3. InWorker(t, z) /\ Kept(z)
      BY <3>1, <3>2 DEF InWorker
    <3> QED BY <3>3 DEF IsPlace
  <2>3. CASE InNet(t, z)' \/ InEntry(t, z)' \/ InJob(t, z)'
    <3>1. InNet(t, z) \/ InEntry(t, z) \/ InJob(t, z)
      BY <2>3, <1>1, PlacesLeft
    <3>2. Kept(z)
      BY <3>1 DEF InNet, InEntry, InJob
    <3> QED BY <3>1, <3>2 DEF IsPlace
  <2> QED BY <1>6, <2>1, <2>2, <2>3 DEF IsPlace
<1>7. /\ IsPlace(t, Old(x)) /\ (Fresh(x) \/ Kept(x))
      /\ IsPlace(t, Old(y)) /\ (Fresh(y) \/ Kept(y))
  BY <1>6
<1>8. Old(x) = Old(y)
  BY <1>7 DEF EachInOnePlace, OnePlace
<1> HIDE DEF Old
<1> QED BY <1>7, <1>8

LEMMA OnePlaceStep ==
  ASSUME Typed, repeats = 0 => EachInOnePlace, [Next]_receiverVars, repeats' = 0
  PROVE  EachInOnePlace'
<1>1. ASSUME NEW d \in net, Recv(d) PROVE repeats = 0 /\ net' = net \ {d}
  BY <1>1, ReceiverAssumption DEF Recv, Typed, ReceiverTypeOK
<1>2. ASSUME net' \subseteq net, buffer' = buffer \/ buffer' = <<>>, jobs' = jobs \/ jobs' = <<>>,
             worker' = worker \/ worker' = AllIdle, log' = log, repeats = 0
      PROVE  EachInOnePlace'
  <2>1. \A t, x : IsPlace(t, x)' => IsPlace(t, x)
    BY <1>2, PlacesLeft DEF IsPlace
  <2> QED BY <2>1, <1>2, FewerPlaces
<1>3. ASSUME NEW d \in net, MainLoop(d) PROVE EachInOnePlace'
  <2>1. Recv(d)
    BY <1>3 DEF MainLoop, SkipMalformed, StoreFrame, SubmitMessage, SubmitRaises
  <2>2. repeats = 0 /\ net' = net \ {d} /\ net' \subseteq net
    BY <1>1, <2>1
  <2>3. CASE SkipMalformed(d)
    BY <1>2, <2>2, <2>3 DEF SkipMalformed, poolVars
  <2>4. CASE StoreFrame(d) \/ SubmitRaises(d)
    <3>1. /\ d \in net \ Noise /\ buffer' = BufferWith(d.msg, Stored(d))
          /\ UNCHANGED <<jobs, worker, log>>
      BY <2>4 DEF StoreFrame, SubmitRaises, poolVars
    <3> QED BY <2>2, <3>1, StorePlaces DEF Typed
  <2>5. CASE SubmitMessage(d)
    <3>1. d \in net \ Noise
      BY <2>5 DEF SubmitMessage
    <3> QED BY <2>2, <2>5, <3>1, SubmitPlaces
  <2> QED BY <1>3, <2>3, <2>4, <2>5 DEF MainLoop
<1>4. ASSUME StartReceiver \/ Interrupt \/ Stopped \/ KillReceiver \/ UNCHANGED receiverVars
      PROVE  EachInOnePlace'
  BY <1>2, <1>4 DEF StartReceiver, Interrupt, Stopped, KillReceiver, receiverVars, poolVars, NoMessages
<1>5. ASSUME NEW w \in Worker, WorkerDies(w) PROVE EachInOnePlace'
  BY <1>2, <1>5 DEF WorkerDies
<1>6. ASSUME NEW w \in Worker,
             \/ JoinFails(w) \/ ReadIds(w) \/ AppendIds(w)
             \/ WriteFails(w) \/ ReadIdsFails(w) \/ AppendIdsFails(w)
      PROVE  EachInOnePlace'
  <2>1. UNCHANGED <<net, buffer, jobs, log, repeats>>
    BY <1>6 DEF JoinFails, ReadIds, AppendIds, WriteFails, ReadIdsFails, AppendIdsFails
  <2>2. \E s : s.step # "check" /\ worker' = [worker EXCEPT ![w] = s]
    <3>1. CASE ReadIds(w) \/ ReadIdsFails(w)
      <4>1. \A ids : ToAppend(worker[w], ids).step # "check"
        BY DEF ToAppend
      <4>2. \E ids : worker' = [worker EXCEPT ![w] = ToAppend(worker[w], ids)]
        BY <3>1, ReadsIds DEF Typed
      <4> QED BY <4>1, <4>2
    <3>2. CASE ~(ReadIds(w) \/ ReadIdsFails(w))
      BY <1>6, <3>2 DEF JoinFails, AppendIds, WriteFails, AppendIdsFails, IdleWorker
    <3> QED BY <3>1, <3>2
  <2>3. /\ worker'[w].step # "check"
        /\ \A v \in Worker : v # w => worker'[v] = worker[v]
    BY <2>2, WorkerUpdate DEF Typed
  <2>4. \A t, x : InWorker(t, x)' => InWorker(t, x)
    BY <2>3 DEF InWorker
  <2>5. \A t, x : IsPlace(t, x)' => IsPlace(t, x)
    BY <2>1, <2>4, PlacesLeft DEF IsPlace
  <2> QED BY <2>1, <2>5, FewerPlaces
<1>7. ASSUME NEW w \in Worker, TakeJob(w) \/ WriteReport(w) PROVE EachInOnePlace'
  <2>1. repeats = 0
    BY <1>7 DEF TakeJob, WriteReport
  <2> QED BY <2>1, <1>7, TakePlaces, ReportPlaces
<1> QED BY <1>3, <1>4, <1>5, <1>6, <1>7 DEF Next, ReceiverNext, WorkerStep, WorkerMishap

\* A report has as many texts as frames in every step.
LEMMA TotalTextsStep ==
  ASSUME Typed, TotalTexts, [Next]_receiverVars
  PROVE  TotalTexts'
<1>1. ASSUME log' = log PROVE TotalTexts'
  BY <1>1 DEF TotalTexts
<1>2. ASSUME NEW w \in Worker, WriteReport(w) PROVE TotalTexts'
  <2> DEFINE job == worker[w].job
             r == ReportOf(job)
  <2>1. worker[w].step = "check" /\ CanJoin(job) /\ log' = Append(log, r)
    BY <1>2 DEF WriteReport
  <2>2. IsJob(job)
    BY <2>1 DEF Typed, ReceiverTypeOK, IsWorkerState, IdleWorker
  <2>3. r \in Report /\ Len(r.texts) = r.total
    <3>1. r.texts = TextsOf(job) /\ r.total = job.total
      BY DEF ReportOf
    <3> QED BY <2>1, <2>2, <3>1, JoinedTexts
  <2> HIDE DEF r
  <2>4. /\ Len(log) \in Nat /\ DOMAIN log' = 1 .. Len(log) + 1 /\ log'[Len(log) + 1] = r
        /\ \A i \in 1 .. Len(log) : i \in DOMAIN log /\ log'[i] = log[i]
    BY <2>1, <2>3 DEF Typed, ReceiverTypeOK
  <2> QED BY <2>3, <2>4 DEF TotalTexts
<1>3. ASSUME NEW w \in Worker, WorkerStep(w) \/ WorkerMishap(w), ~WriteReport(w)
      PROVE  log' = log
  BY <1>3
  DEF WorkerStep, TakeJob, JoinFails, ReadIds, AppendIds,
      WorkerMishap, WriteFails, ReadIdsFails, AppendIdsFails, WorkerDies
<1>4. ASSUME NEW d, MainLoop(d) PROVE log' = log
  BY <1>4 DEF MainLoop, SkipMalformed, StoreFrame, SubmitMessage, SubmitRaises, poolVars
<1>5. ASSUME StartReceiver \/ Interrupt \/ Stopped \/ KillReceiver \/ UNCHANGED receiverVars
      PROVE  log' = log
  BY <1>5 DEF StartReceiver, Interrupt, Stopped, KillReceiver, receiverVars, poolVars
<1> QED BY <1>1, <1>2, <1>3, <1>4, <1>5 DEF Next, ReceiverNext

\* As many texts as positions, if no two positions hold the same.
LEMMA DistinctCount ==
  ASSUME NEW q, NEW S, q \in Seq(S), \A j, k \in 1 .. Len(q) : q[j] = q[k] => j = k
  PROVE  Cardinality(Range(q)) = Len(q)
<1>1. Len(q) \in Nat /\ DOMAIN q = 1 .. Len(q)
  OBVIOUS
<1>2. q \in Bijection(1 .. Len(q), Range(q))
  <2>1. q \in [1 .. Len(q) -> Range(q)]
    BY <1>1 DEF Range
  <2>2. \A x \in Range(q) : \E k \in 1 .. Len(q) : q[k] = x
    BY <1>1 DEF Range
  <2> QED BY <2>1, <2>2 DEF Bijection, Injection, Surjection, IsInjective
<1>3. IsFiniteSet(1 .. Len(q)) /\ Cardinality(1 .. Len(q)) = Len(q)
  BY <1>1, FS_Interval
<1>4. ExistsBijection(1 .. Len(q), Range(q))
  BY <1>2 DEF ExistsBijection
<1>5. Cardinality(Range(q)) = Cardinality(1 .. Len(q))
  BY <1>3, <1>4, FS_Bijection
<1> QED BY <1>3, <1>5

\* Two positions of the log never hold the same text.
LEMMA LogDistinct ==
  ASSUME Typed, EachInOnePlace, TotalTexts
  PROVE  /\ \A i, j \in DOMAIN log : i # j => TextsLogged(i) \cap TextsLogged(j) = {}
         /\ \A i \in DOMAIN log : Cardinality(TextsLogged(i)) = log[i].total
<1>1. /\ DOMAIN log = 1 .. Len(log)
      /\ \A i \in DOMAIN log : /\ log[i].texts \in Seq(Text)
                               /\ DOMAIN log[i].texts = 1 .. Len(log[i].texts)
  <2>1. log \in Seq(Report)
    BY DEF Typed, ReceiverTypeOK
  <2>2. DOMAIN log = 1 .. Len(log) /\ \A i \in DOMAIN log : log[i] \in Report
    BY <2>1
  <2>3. \A r \in Report : r.texts \in Seq(Text)
    BY DEF Report
  <2>4. \A q \in Seq(Text) : DOMAIN q = 1 .. Len(q)
    OBVIOUS
  <2> QED BY <2>2, <2>3, <2>4
<1>2. ASSUME NEW i \in DOMAIN log, NEW j \in DOMAIN log,
             NEW k \in 1 .. Len(log[i].texts), NEW m \in 1 .. Len(log[j].texts),
             log[i].texts[k] = log[j].texts[m]
      PROVE  i = j /\ k = m
  <2> DEFINE t == log[i].texts[k]
             x == <<"log", i, k>>
             y == <<"log", j, m>>
  <2>1. InLog(t, x) /\ InLog(t, y)
    BY <1>1, <1>2 DEF InLog
  <2>2. x = y
    <3> HIDE DEF x, y, t
    <3> QED BY <2>1 DEF IsPlace, EachInOnePlace, OnePlace
  <2> QED BY <2>2
<1>3. ASSUME NEW i \in DOMAIN log, NEW j \in DOMAIN log, i # j
      PROVE  TextsLogged(i) \cap TextsLogged(j) = {}
  <2> SUFFICES ASSUME NEW t \in TextsLogged(i), t \in TextsLogged(j) PROVE FALSE
    OBVIOUS
  <2>1. PICK k \in 1 .. Len(log[i].texts) : log[i].texts[k] = t
    BY <1>1 DEF TextsLogged, Range
  <2>2. PICK m \in 1 .. Len(log[j].texts) : log[j].texts[m] = t
    BY <1>1 DEF TextsLogged, Range
  <2> QED BY <1>2, <1>3, <2>1, <2>2
<1>4. ASSUME NEW i \in DOMAIN log PROVE Cardinality(TextsLogged(i)) = log[i].total
  <2>1. \A j, k \in 1 .. Len(log[i].texts) : log[i].texts[j] = log[i].texts[k] => j = k
    BY <1>2
  <2>2. Cardinality(Range(log[i].texts)) = Len(log[i].texts)
    BY <1>1, <2>1, DistinctCount
  <2> QED BY <2>2 DEF TextsLogged, TotalTexts
<1> QED BY <1>3, <1>4

\* If the network repeats nothing, no frame is logged twice, neither in two reports nor
\* in one: the pass that submits a message deletes its entry, and a job is taken by one
\* process (telemetry_receiver.py 264-275, 176).
THEOREM NoFrameIsLoggedTwice == Spec => []FrameLoggedOnce
<1>1. Init => EachInOnePlace /\ TotalTexts
  <2> SUFFICES ASSUME Init PROVE EachInOnePlace /\ TotalTexts
    OBVIOUS
  <2>1. PICK traffic \in Traffics : net \subseteq traffic
    BY DEF Init
  <2>2. /\ buffer = <<>> /\ jobs = <<>> /\ log = <<>>
        /\ \A w \in Worker : worker[w].step # "check"
    BY DEF Init, ReceiverInitExceptNet, NoMessages, IdleWorker
  <2>3. \A t, x : IsPlace(t, x) => InNet(t, x)
    BY <2>2 DEF IsPlace, InEntry, InJob, InWorker, InLog
  <2>4. \A d1, d2 \in net \ Noise : d1.text = d2.text => d1 = d2
    BY <2>1, TrafficAssumption
  <2>5. EachInOnePlace
    BY <2>3, <2>4 DEF EachInOnePlace, OnePlace, InNet
  <2> QED BY <2>2, <2>5 DEF TotalTexts
<1> DEFINE Inv == Typed /\ TotalTexts /\ (repeats = 0 => EachInOnePlace)
<1>2. Inv /\ [Next]_receiverVars => Inv'
  BY TypedStep, TotalTextsStep, OnePlaceStep
<1>3. Inv => FrameLoggedOnce
  BY LogDistinct DEF FrameLoggedOnce
<1>4. Init => Inv
  BY <1>1, TypedInit
<1> HIDE DEF Inv
<1> QED BY <1>2, <1>3, <1>4, PTL DEF Spec
=============================================================================
