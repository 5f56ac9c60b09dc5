------------------------------ MODULE Receiver ------------------------------
(***************************************************************************)
(* The central receiver, telemetry_receiver.py.  The main process loops on *)
(* one UDP socket, keeps partial messages in assembly_buffer (keyed by the *)
(* message id alone) and submits a complete message to a                   *)
(* ProcessPoolExecutor.  A pool worker joins the frames, checks the HMAC,  *)
(* appends a report to the daily log and then the cluster ids it has not   *)
(* seen to a second file.  Several workers run at once and share nothing   *)
(* but those two files.  The receiver is started by systemd, may be killed *)
(* and may be interrupted: a signal to the main process lets the pool      *)
(* finish first, a Ctrl-C reaches the pool's processes as well.            *)
(*                                                                         *)
(* One day is modelled: the two files are the ones of the current day.     *)
(***************************************************************************)
EXTENDS Wire, Functions

CONSTANTS
  Noise,       \* datagrams of other senders, whose header does not parse
  Worker,      \* processes of the pool
  MaxRepeats,  \* bound: datagrams the network delivers a second time
  MaxMishaps   \* bound: worker deaths, kills, interrupts and failing file operations

ASSUME ReceiverAssumption == IsFiniteSet(Worker) /\ MaxRepeats \in Nat /\ MaxMishaps \in Nat

VARIABLES
  status,   \* of the main process: "up", "stopping", "stopped" or "failed"
  net,      \* datagrams in flight or in the socket buffer
  buffer,   \* assembly_buffer: message id -> [total, frames]
  jobs,     \* submitted messages no worker has taken
  worker,   \* what each pool process is doing
  broken,   \* the pool has lost a process: submit raises BrokenProcessPool
  log,      \* telemetry_<day>.log, one entry per report
  idFile,   \* cluster_ids_<day>.log
  lost,     \* history: texts whose handling one of these mishaps has cut off
  unread,   \* history: failed reads of the id file
  repeats, mishaps  \* bound variables

poolVars == <<jobs, worker, log, idFile>>
mishapVars == <<lost, unread, mishaps>>
receiverVars == <<status, net, buffer, jobs, worker, broken, log, idFile, repeats, mishapVars>>

NoFrames == <<>>
NoMessages == <<>>
IdleWorker == [step |-> "idle"]

ReceiverInitExceptNet ==
  /\ status = "up"
  /\ buffer = NoMessages
  /\ jobs = <<>>
  /\ worker = [w \in Worker |-> IdleWorker]
  /\ broken = FALSE
  /\ log = <<>>
  /\ idFile = <<>>
  /\ repeats = 0
  /\ lost = {}
  /\ unread = 0
  /\ mishaps = 0

-----------------------------------------------------------------------------
\* Texts on their way through the receiver, and what cuts it off.

TextsIn(frames) == {frames[k].text : k \in DOMAIN frames}
InBuffer == UNION {TextsIn(buffer[m].frames) : m \in DOMAIN buffer}
InJobs == UNION {TextsIn(jobs[i].frames) : i \in DOMAIN jobs}
InHand(state) ==
  CASE state.step = "check" -> TextsIn(state.job.frames)
    [] state.step \in {"read", "append"} -> state.texts
    [] OTHER -> {}
InHands == UNION {InHand(worker[w]) : w \in Worker}

Mishap(texts) ==
  /\ mishaps < MaxMishaps
  /\ mishaps' = mishaps + 1
  /\ lost' = lost \cup texts

-----------------------------------------------------------------------------
\* Start and end of the main process.

\* load_encrypted_salt gives HmacSalt and the socket is bound; a start whose salt
\* cannot be decrypted or whose port is taken exits and changes nothing.  Datagrams
\* that came while no socket was open are lost.
StartReceiver ==
  /\ status \in {"stopped", "failed"}
  /\ status' = "up"
  /\ \E arriving \in SUBSET net :
       /\ net' = arriving
       /\ lost' = lost \cup {d.text : d \in (net \ arriving) \ Noise}
  /\ UNCHANGED <<buffer, poolVars, broken, repeats, unread, mishaps>>

AllIdle == [w \in Worker |-> IdleWorker]

\* KeyboardInterrupt of the main process: the loop ends, the executor's exit
\* waits for what has been submitted.  A Ctrl-C goes to the whole process group:
\* "except Exception" does not catch it, so each busy worker's task ends there,
\* and a process that waits for work, if the pool has started one, dies of it,
\* which breaks the pool and drops every pending job.
Interrupt ==
  /\ status = "up"
  /\ status' = "stopping"
  /\ \/ Mishap({}) /\ UNCHANGED <<jobs, worker, broken>>
     \/ Mishap(InHands) /\ worker' = AllIdle /\ UNCHANGED <<jobs, broken>>
     \/ /\ \E w \in Worker : worker[w] = IdleWorker
        /\ Mishap(InHands \cup InJobs)
        /\ worker' = AllIdle /\ jobs' = <<>> /\ broken' = TRUE
  /\ UNCHANGED <<net, buffer, log, idFile, repeats, unread>>

\* Mutant of Stopped: the executor does not wait.
StoppedAtOnce ==
  /\ status = "stopping"
  /\ status' = "stopped"
  /\ buffer' = NoMessages
  /\ lost' = lost \cup InBuffer
  /\ broken' = FALSE
  /\ jobs' = <<>>
  /\ worker' = AllIdle
  /\ UNCHANGED <<net, log, idFile, repeats, unread, mishaps>>

\* The pool is empty: the process ends, partial messages are lost.
Stopped ==
  /\ status = "stopping"
  /\ jobs = <<>> /\ worker = AllIdle
  /\ status' = "stopped"
  /\ buffer' = NoMessages
  /\ lost' = lost \cup InBuffer
  /\ broken' = FALSE
  /\ UNCHANGED <<net, poolVars, repeats, unread, mishaps>>

-----------------------------------------------------------------------------
\* The main loop.  Each action is one pass, for a datagram recvfrom returns.

\* The network may deliver the datagram again.
Recv(d) ==
  /\ status = "up"
  /\ UNCHANGED status
  /\ \/ net' = net \ {d} /\ UNCHANGED repeats
     \/ repeats < MaxRepeats /\ repeats' = repeats + 1 /\ UNCHANGED net

\* The entry of assembly_buffer after the frame is stored.
Stored(d) ==
  LET old == IF d.msg \in DOMAIN buffer THEN buffer[d.msg]
             ELSE [total |-> d.total, frames |-> NoFrames]
  IN  [old EXCEPT !.frames =
         [k \in DOMAIN old.frames \cup {d.frame} |->
            IF k = d.frame THEN [text |-> d.text, mac |-> d.mac]
            ELSE old.frames[k]]]

\* Mutant of IsComplete: more frames than announced are waited for.
IsCompleteTooLate(entry) == Cardinality(DOMAIN entry.frames) > entry.total

IsComplete(entry) == Cardinality(DOMAIN entry.frames) = entry.total

BufferWith(m, entry) ==
  [k \in DOMAIN buffer \cup {m} |-> IF k = m THEN entry ELSE buffer[k]]

\* No '|' in the datagram, or a header that is not three fields with two
\* integers: the loop continues with the next one.
SkipMalformed(d) ==
  /\ d \in net \cap Noise
  /\ Recv(d)
  /\ UNCHANGED <<buffer, poolVars, broken, mishapVars>>

StoreFrame(d) ==
  /\ d \in net \ Noise
  /\ ~IsComplete(Stored(d))
  /\ Recv(d)
  /\ buffer' = BufferWith(d.msg, Stored(d))
  /\ UNCHANGED <<poolVars, broken, mishapVars>>

\* Mutant of SubmitMessage: the entry is not deleted.
SubmitMessageKeepsEntry(d) ==
  /\ d \in net \ Noise
  /\ IsComplete(Stored(d))
  /\ ~broken
  /\ Recv(d)
  /\ jobs' = Append(jobs, [msg |-> d.msg, src |-> d.src, total |-> d.total,
                           frames |-> Stored(d).frames])
  /\ buffer' = BufferWith(d.msg, Stored(d))
  /\ UNCHANGED <<worker, log, idFile, broken, mishapVars>>

\* The frame completes its message: submit, then del.  The job's source and
\* frame count are those of this datagram, not those of the buffer entry.
SubmitMessage(d) ==
  /\ d \in net \ Noise
  /\ IsComplete(Stored(d))
  /\ ~broken
  /\ Recv(d)
  /\ jobs' = Append(jobs, [msg |-> d.msg, src |-> d.src, total |-> d.total,
                           frames |-> Stored(d).frames])
  /\ buffer' = Restrict(buffer, DOMAIN buffer \ {d.msg})
  /\ UNCHANGED <<worker, log, idFile, broken, mishapVars>>

\* The same with a broken pool: submit raises before del, the loop's
\* catch-all prints the exception and the entry stays.
SubmitRaises(d) ==
  /\ d \in net \ Noise
  /\ IsComplete(Stored(d))
  /\ broken
  /\ Recv(d)
  /\ buffer' = BufferWith(d.msg, Stored(d))
  /\ lost' = lost \cup TextsIn(Stored(d).frames)
  /\ UNCHANGED <<poolVars, broken, unread, mishaps>>

-----------------------------------------------------------------------------
\* A pool worker, process_completed_message.

\* Mutant of TakeJob: the job stays in the queue for another worker.
TakeJobTwice(w) ==
  /\ worker[w].step = "idle" /\ ~broken
  /\ jobs # <<>>
  /\ worker' = [worker EXCEPT ![w] = [step |-> "check", job |-> Head(jobs)]]
  /\ UNCHANGED <<status, net, buffer, jobs, broken, log, idFile, repeats, mishapVars>>

TakeJob(w) ==
  /\ worker[w].step = "idle" /\ ~broken
  /\ jobs # <<>>
  /\ worker' = [worker EXCEPT ![w] = [step |-> "check", job |-> Head(jobs)]]
  /\ jobs' = Tail(jobs)
  /\ UNCHANGED <<status, net, buffer, broken, log, idFile, repeats, mishapVars>>

CanJoin(job) == 1 .. job.total \subseteq DOMAIN job.frames

\* Mutant of JoinFails: the worker's process is in no state the pool knows.
JoinFailsStrands(w) ==
  /\ worker[w].step = "check"
  /\ ~CanJoin(worker[w].job)
  /\ worker' = [worker EXCEPT ![w] = [step |-> "failed"]]
  /\ UNCHANGED <<status, net, buffer, jobs, broken, log, idFile, repeats, mishapVars>>

\* frames[i] raises KeyError: the worker's catch-all prints it, nothing is logged.
JoinFails(w) ==
  /\ worker[w].step = "check"
  /\ ~CanJoin(worker[w].job)
  /\ worker' = [worker EXCEPT ![w] = IdleWorker]
  /\ UNCHANGED <<status, net, buffer, jobs, broken, log, idFile, repeats, mishapVars>>

\* The gunzipped frames one after the other; t_line is the last T line of all.
TextsOf(job) == [k \in 1 .. job.total |-> job.frames[k].text]
LastMAC(job) == job.frames[job.total].mac

\* Mutant of Status: only the frame that carries the last T line is hashed.
StatusOfLastFrame(job) ==
  IF MAC(HmacSalt, <<TextsOf(job)[job.total]>>) = LastMAC(job) THEN "VERIFIED" ELSE "FAILED"

Status(job) == IF MAC(HmacSalt, TextsOf(job)) = LastMAC(job)
               THEN "VERIFIED" ELSE "FAILED"

\* What an R line decodes to: the versions and roles of that snapshot.
TableOf(t) == <<t.cluster, t.epoch>>

\* The first R line of all resolves the indices of every H and N line.
LookupTable(job) == TableOf(TextsOf(job)[1])

ReportOf(job) == [msg |-> job.msg, src |-> job.src, total |-> job.total,
                  texts |-> TextsOf(job), status |-> Status(job), table |-> LookupTable(job)]

\* The ids the pattern finds in the raw text: those of its H lines.
DiscoveredIds(job) == {TextsOf(job)[k].cluster : k \in 1 .. job.total}

\* Whatever the status, the report is appended to the daily log in one write.
WriteReport(w) ==
  /\ worker[w].step = "check"
  /\ CanJoin(worker[w].job)
  /\ log' = Append(log, ReportOf(worker[w].job))
  /\ worker' = [worker EXCEPT ![w] =
       [step |-> "read", ids |-> DiscoveredIds(worker[w].job),
        texts |-> Range(TextsOf(worker[w].job))]]
  /\ UNCHANGED <<status, net, buffer, jobs, broken, idFile, repeats, mishapVars>>

ToAppend(state, ids) == [step |-> "append", ids |-> ids, texts |-> state.texts]

\* Mutant of ReadIds: the ids that are in the file already are not taken out.
ReadIdsKeepsAll(w) ==
  /\ worker[w].step = "read"
  /\ worker' = [worker EXCEPT ![w] = ToAppend(@, @.ids)]
  /\ UNCHANGED <<status, net, buffer, jobs, broken, log, idFile, repeats, mishapVars>>

\* new_ids: the ids of the message that are not in the file now.
ReadIds(w) ==
  /\ worker[w].step = "read"
  /\ worker' = [worker EXCEPT ![w] = ToAppend(@, @.ids \ Range(idFile))]
  /\ UNCHANGED <<status, net, buffer, jobs, broken, log, idFile, repeats, mishapVars>>

\* Mutant of AppendIds: the file is opened with "w".
AppendIdsTruncates(w) ==
  /\ worker[w].step = "append"
  /\ \E order \in [1 .. Cardinality(worker[w].ids) -> worker[w].ids] :
       /\ Range(order) = worker[w].ids
       /\ idFile' = order
  /\ worker' = [worker EXCEPT ![w] = IdleWorker]
  /\ UNCHANGED <<status, net, buffer, jobs, broken, log, repeats, mishapVars>>

\* They are appended in the order the set iterates.
AppendIds(w) ==
  /\ worker[w].step = "append"
  /\ \E order \in [1 .. Cardinality(worker[w].ids) -> worker[w].ids] :
       /\ Range(order) = worker[w].ids
       /\ idFile' = idFile \o order
  /\ worker' = [worker EXCEPT ![w] = IdleWorker]
  /\ UNCHANGED <<status, net, buffer, jobs, broken, log, repeats, mishapVars>>

-----------------------------------------------------------------------------
\* Failures.

\* open or write of the daily log raises: the worker's catch-all prints it.
WriteFails(w) ==
  /\ worker[w].step = "check"
  /\ CanJoin(worker[w].job)
  /\ Mishap(InHand(worker[w]))
  /\ worker' = [worker EXCEPT ![w] = IdleWorker]
  /\ UNCHANGED <<status, net, buffer, jobs, broken, log, idFile, repeats, unread>>

\* open or read of the id file raises: existing_ids stays empty.
ReadIdsFails(w) ==
  /\ worker[w].step = "read"
  /\ Mishap({})
  /\ unread' = unread + 1
  /\ worker' = [worker EXCEPT ![w] = ToAppend(@, @.ids)]
  /\ UNCHANGED <<status, net, buffer, jobs, broken, log, idFile, repeats>>

\* open or write of the id file raises: the new ids are not appended.
AppendIdsFails(w) ==
  /\ worker[w].step = "append"
  /\ worker[w].ids # {}
  /\ Mishap(InHand(worker[w]))
  /\ worker' = [worker EXCEPT ![w] = IdleWorker]
  /\ UNCHANGED <<status, net, buffer, jobs, broken, log, idFile, repeats, unread>>

\* A pool process dies.  The executor marks itself broken, terminates the
\* other processes and drops every pending job.
WorkerDies(w) ==
  /\ ~broken /\ worker[w] # IdleWorker
  /\ Mishap(InHands \cup InJobs)
  /\ broken' = TRUE
  /\ jobs' = <<>>
  /\ worker' = AllIdle
  /\ UNCHANGED <<status, net, buffer, log, idFile, repeats, unread>>

\* The receiver is killed: memory is lost.
KillReceiver ==
  /\ status \in {"up", "stopping"}
  /\ Mishap(InBuffer \cup InHands \cup InJobs)
  /\ status' = "failed"
  /\ buffer' = NoMessages
  /\ broken' = FALSE
  /\ jobs' = <<>>
  /\ worker' = AllIdle
  /\ UNCHANGED <<net, log, idFile, repeats, unread>>

MainLoop(d) == SkipMalformed(d) \/ StoreFrame(d) \/ SubmitMessage(d) \/ SubmitRaises(d)
WorkerStep(w) == TakeJob(w) \/ JoinFails(w) \/ WriteReport(w) \/ ReadIds(w) \/ AppendIds(w)
WorkerMishap(w) == WriteFails(w) \/ ReadIdsFails(w) \/ AppendIdsFails(w) \/ WorkerDies(w)

ReceiverNext ==
  \/ StartReceiver \/ Interrupt \/ Stopped \/ KillReceiver
  \/ \E d \in net : MainLoop(d)
  \/ \E w \in Worker : WorkerStep(w) \/ WorkerMishap(w)

-----------------------------------------------------------------------------
\* Properties.

Body == [text : Text, mac : [salt : Salt, over : Seq(Text)]]

IsPartial(entry) ==
  /\ DOMAIN entry = {"total", "frames"}
  /\ entry.total \in Nat \ {0}
  /\ IsFiniteSet(DOMAIN entry.frames) /\ DOMAIN entry.frames \subseteq Nat \ {0}
  /\ entry.frames \in [DOMAIN entry.frames -> Body]

IsJob(job) ==
  /\ DOMAIN job = {"msg", "src", "total", "frames"}
  /\ job.msg \in MsgId /\ job.src \in Cluster
  /\ IsPartial([total |-> job.total, frames |-> job.frames])

IsWorkerState(s) ==
  \/ s = IdleWorker
  \/ s.step = "check" /\ DOMAIN s = {"step", "job"} /\ IsJob(s.job)
  \/ /\ s.step \in {"read", "append"} /\ DOMAIN s = {"step", "ids", "texts"}
     /\ s.ids \subseteq Cluster /\ s.texts \subseteq Text

Report == [msg : MsgId, src : Cluster, total : Nat \ {0}, texts : Seq(Text),
           status : {"VERIFIED", "FAILED"}, table : Cluster \X Nat]

ReceiverTypeOK ==
  /\ status \in {"up", "stopping", "stopped", "failed"}
  /\ net \subseteq Datagram \cup Noise
  /\ DOMAIN buffer \subseteq MsgId
  /\ \A m \in DOMAIN buffer : IsPartial(buffer[m])
  /\ \A i \in 1 .. Len(jobs) : IsJob(jobs[i])
  /\ DOMAIN worker = Worker /\ \A w \in Worker : IsWorkerState(worker[w])
  /\ broken \in BOOLEAN
  /\ log \in Seq(Report)
  /\ idFile \in Seq(Cluster)
  /\ repeats \in 0 .. MaxRepeats
  /\ lost \subseteq Text
  /\ mishaps \in 0 .. MaxMishaps /\ unread \in 0 .. mishaps

\* While the pool is whole, no complete message stays in assembly_buffer: the
\* pass that completes one also submits and deletes it.
NothingCompleteWaits ==
  ~broken => \A m \in DOMAIN buffer : ~IsComplete(buffer[m])

\* A report logged with [INTEGRITY: OK] is one whole snapshot: a single text
\* that lists every node its H line counts, written by a cluster that holds
\* the receiver's salt, and logged under that cluster's address; whatever was
\* lost, repeated, reordered or mixed in assembly_buffer.  Its roles are resolved
\* by its own R line.
VerifiedIsWholeSnapshot ==
  \A i \in DOMAIN log : log[i].status = "VERIFIED" =>
    LET t == log[i].texts[1] IN
    /\ log[i].total = 1 /\ Len(log[i].texts) = 1
    /\ t.cluster = log[i].src /\ SaltOf[t.cluster] = HmacSalt
    /\ t.lines = 1 .. t.count
    /\ log[i].table = TableOf(t)

TextsLogged(i) == Range(log[i].texts)

\* If the network repeated nothing, no frame is logged twice, neither in two
\* reports nor in one.
FrameLoggedOnce ==
  repeats = 0 =>
    /\ \A i, j \in DOMAIN log : i # j => TextsLogged(i) \cap TextsLogged(j) = {}
    /\ \A i \in DOMAIN log : Cardinality(TextsLogged(i)) = log[i].total

\* A cluster in the daily log is in cluster_ids_<day>.log, or a worker is about to
\* put it there, or a mishap has cut off the very report it was logged in:
\* reading the file and appending to it later loses no id to another worker, nor
\* to a read of the file that failed, nor to the end of the main process.
LoggedIdsListed ==
  \A i \in DOMAIN log : \A t \in TextsLogged(i) \ lost :
    \/ t.cluster \in Range(idFile)
    \/ \E w \in Worker : /\ worker[w].step \in {"read", "append"}
                        /\ t.cluster \in worker[w].ids

\* Only workers that run at the same time can list an id again, and a failed read
\* of the file, which does so once.
IdRepeatsBounded ==
  \A c \in Cluster :
    Cardinality({i \in DOMAIN idFile : idFile[i] = c}) <= Cardinality(Worker) + unread

Logged(t) == \E i \in DOMAIN log : t \in TextsLogged(i)

\* The text is in a message the pool has accepted and can join.
Accepted(t) ==
  \/ \E i \in DOMAIN jobs : CanJoin(jobs[i]) /\ t \in Range(TextsOf(jobs[i]))
  \/ \E w \in Worker : /\ worker[w].step = "check"
                      /\ CanJoin(worker[w].job) /\ t \in Range(TextsOf(worker[w].job))

\* README.md:556: once all expected frames of a payload have arrived, its
\* signature is validated.  A report made of all the frames of one snapshot of
\* a cluster with the right salt passes.
CompleteVerifies ==
  \A i \in DOMAIN log :
    LET t == log[i].texts[1] IN
    (/\ \A u \in TextsLogged(i) : u.cluster = t.cluster /\ u.epoch = t.epoch
     /\ UNION {u.lines : u \in TextsLogged(i)} = 1 .. t.count
     /\ SaltOf[t.cluster] = HmacSalt) => log[i].status = "VERIFIED"

=============================================================================
