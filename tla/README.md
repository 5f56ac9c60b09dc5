# Cluster Size telemetry: TLA+ models, checks and proofs

This directory holds the formal development of the Cluster Size telemetry
pipeline: an operator that deploys a collector pod in every disconnected
OpenShift cluster, a UDP receiver at the centre, and an offline pipeline that
turns the daily logs into a subscription report.

Paths below are relative to the repository (`src/` is its root). "controller"
is `clustersize-operator/internal/controller/clustersizeconfig_controller.go`,
"receiver" is `telemetry_receiver/telemetry_receiver.py`, "dedup" is
`telemetry_receiver/deduplicate_telemetry.py`, "evaluate" is
`telemetry_receiver/evaluate_compliance.py`, "AppScript" is
`telemetry_receiver/AppScript_for_GoogleSheet_porst_import_csv.txt`.

## 1. The system

```
 ClusterSizeConfig                                    one cluster
      |  watch                                    . . . . . . . . . .
      v                 creates                   .
  Reconcile -----> SA, PVC, Secret, ConfigMap, Deployment
  (controller)                       |  mounts       |  starts
                                     v               v
                           payload.txt ------> collector pod (bash loop)
                                               |  .seq_counter, log + archives on the PVC
 . . . . . . . . . . . . . . . . . . . . . . . | . . . . . . . . . . . .
                                               | UDP: "msg,frame,total|" gzip(H, N.., R, T)
                                               v
                          main loop -> assembly_buffer -> process pool (receiver)
                                               |
                       telemetry_<day>.log, cluster_ids_<day>.log
                                               |
                        deduplicate_telemetry.py -> telemetry_deduplicated.csv
                                               |
                        evaluate_compliance.py -> master_compliance.csv -> spreadsheet
```

| Component | State it keeps | Operations | What is hard |
|---|---|---|---|
| Operator reconciler (controller 94-121, 303-551) | API objects; informer caches; work queue | Reconcile, compile payload, create or update five objects, tear down four | caches lag; errors of four writes are dropped; failures between any two calls; owners by UID and the garbage collector; nothing requeues |
| Payload compilation (controller 124-301) | none | determine the platform, number the nodes, group roles, encode versions | map order, namespace-limited cache |
| Collector script (controller 422-488) | counter, snapshot, loop variables; `.seq_counter` | boot, begin a cycle, send a frame, advance and write the counter, sleep | exits under `set -e`; truncate-then-write; two pods on one volume during a rollout; the payload changes under the loop |
| Log rotation (controller 459-471) | log file and numbered archives | size test, rm, a series of mv, touch | exits between two commands; two pods; a changed limit |
| Receiver main loop (receiver 38-67, 206-288) | `assembly_buffer`, socket, pool | start, receive, skip, store, submit, retention, stop on interrupt | message ids of clusters collide; loss, repetition and reordering; a broken pool; a stop while workers run; retention of files other scripts use |
| Receiver workers (receiver 98-204) | two shared files | join, check the HMAC, append report, read ids, append ids | workers run in parallel; check-then-act on the ids file, whose failures are swallowed; an interrupt that reaches them too |
| Deduplication (dedup) | four dictionaries, output, backups | select logs, back up, read H, N, R, T lines, write | attribution of lines without a cluster id; reads a growing file; may be killed while it writes |
| Compliance evaluation (evaluate) | dictionaries, rows, report | read three files, weigh nodes, write rows, totals, stock and gaps | same attribution; rounding per node; boundaries of lifecycle terms; two layouts of H lines; a report cut off by a kill, even inside a row |
| Spreadsheet script (AppScript) | pools, running totals | first-in first-out allocation | exhausted pools; clusters of two architectures; imports a report that is not whole |
| Test tools (`telemetry_receiver/load_integrity_tets/`) | none | write test logs; emulate senders | overwrite or append to live logs |

Components interact through API objects (operator, kubelet, garbage collector),
the volume and the mounted payload (pods), datagrams (pod to receiver) and files
(receiver to the offline scripts). There are no callbacks between them.

What makes each of them correct:

- operator: the cluster comes to be what the resource asks for, whatever calls
  fail on the way; a salt set by an administrator is never replaced; no
  Deployment before there is a salt;
- collector: the frames of a cycle are one snapshot cut into disjoint numbered
  slices; message ids increase over restarts, as long as the counter in the file
  is the next one;
- rotation: archives stay in order of age; with one pod and an unedited limit,
  nothing below the limit is lost but what exits account for;
- receiver: a report marked OK is one whole snapshot of one cluster; nothing is
  logged twice by the receiver's own doing; what is accepted is logged, and what
  is logged is listed, unless a mishap cuts off that very message;
- end to end: the OK reports are snapshots really taken;
- deduplication: what is kept for a cluster is its latest snapshot with all of
  its nodes (which the code does for snapshots of one frame only), and an
  earlier good output survives a failed run, whatever retention removes meanwhile;
- evaluation: every total is the sum of what the nodes of the input need; a
  cluster is weighed with its own version; a term counts exactly if it shares a
  day with the range;
- allocation: oldest first, and the colours say the same as the gaps; a report
  that was cut off makes no cluster look better covered than the whole one
  does, but for the one of its last row.

## 2. Modules

| Module | Models | Role |
|---|---|---|
| `Wire` | controller 439-480, receiver 124-128 | frames, HMACs and datagrams as data, shared by the next three |
| `Collector` | controller 422-488 and the pods' life | state machine |
| `Receiver` | receiver 38-204, 236-288 | state machine, without its environment |
| `ReceiverAlone` | traffic of the collectors and of `telemetry_traffic_emulator.py` | `Receiver` fed with any part of a given traffic |
| `AuditTrail` | - | abstract specification: what the daily log promises |
| `Telemetry` | - | `Collector`, `Receiver` and UDP composed by `INSTANCE`; refines `AuditTrail` |
| `LogRotation` | controller 459-471 | state machine |
| `Deduplicate` | dedup 13-126, receiver 206-219 | state machine |
| `TestLogs` | `generate_test_logs.py`, `generate_historical_test_logs.py` | composed with `Deduplicate` |
| `Collections` | dictionaries, `sorted()` and `sum()` of the offline scripts | operators |
| `Compliance` | evaluate 24-325 | state machine and the operators it computes with |
| `Allocation` | AppScript 48-130 | state machine; abstract specification of the colouring |
| `Reporting` | AppScript 48-107 | `Compliance` and the spreadsheet composed; refines `Allocation` |
| `Operator` | controller 94-121, 188-551; `cmd/main.go` cache | state machine |
| `CollectorProofs`, `LogRotationProofs`, `OperatorProofs`, `ReceiverProofs`, `TelemetryProofs`, `DeduplicateProofs`, `ReportingProofs` | - | TLAPS proofs |
| `CollectionsProofs` | - | lemmas the last two share: prefixes, order, sums |
| `MC...` | - | constants for TLC |

How state and actions correspond to the code:

- **Wire.** The text of a frame is `[cluster, epoch, count, lines]`: who wrote
  it, `LIVE_EPOCH`, the node count of the H line, and which N lines the chunk
  has. `Chunk` is the `sed -n "s,$((s+NODES_PER_FRAME-1))p"`, `TotalFrames` the
  rounded-up division. An HMAC is the pair of key and texts. gzip is left out:
  the receiver inflates what the collector deflated, member by member.
- **Collector.** One `pc` per pod. `Boot` is controller 422-428, `BeginCycle`
  429-447, `SendFrame` one round of 447-482, `EndCycle` 484 and the truncation
  that `>` does before `echo` runs, `WriteSeq` the write, `Wake` the end of
  `sleep`. `ExitScript` (any failing command under `set -e`, or a kill) may come
  between any two. `StartPod`/`StopPod` are the Deployment's; two pods of a
  cluster run at once in a rollout. The history variable `orderly` says that a
  cluster's counter is still in step: `Disorder` ends that when a pod starts
  beside another, a script ends after it used an id and before it stored the
  next one (`Midway`), or the volume is lost. `DeleteVolume` is the teardown's, delayed by
  volume protection. An empty counter file boots as 0, as `printf`, `[ -ge ]`
  and `$(( ))` treat it. Two cycles of one cluster never begin in the same
  second; the epochs are those seconds.
- **Receiver.** An action of the main loop is one pass for one datagram:
  `SkipMalformed`, `StoreFrame`, `SubmitMessage`, and `SubmitRaises` for a pass
  that ends in the loop's catch-all because the pool is broken. `buffer` has
  the code's key, the message id alone, and the job gets source and total of the
  datagram that completed it. A worker step is the code between two accesses to
  shared files: `TakeJob`, `JoinFails` or `WriteReport`, `ReadIds`, `AppendIds`.
  Each has its failure: `WriteFails` ends in the catch-all (203), `ReadIdsFails`
  counts as an empty file (188), `AppendIdsFails` is swallowed (197).
  `WorkerDies` is an executor's reaction to the death of one process. `status`
  is the main process: `Interrupt` is its `KeyboardInterrupt` (282-284), after
  which the executor's exit waits for the pool (`Stopped`). A signal to the main
  process leaves the pool alone. A Ctrl-C goes to the whole process group: the
  catch-all of a worker is `except Exception`, so its task ends where it is, and
  a process that waits for work dies, which breaks the pool. The history variable
  `lost` has the texts whose handling a mishap has cut off, `unread` counts the
  failed reads. `KillReceiver` ends
  the main process at once; `StartReceiver` is the way through 38-67 and 221-239, and what
  arrived while no socket was open is lost. The first R line of a message
  resolves the roles of all its lines (135-139): `table` says whose it was. The
  daily file does not change in the model.
- **ReceiverAlone.** `Collected` is what a cycle of a collector sends,
  `Emulated` what the load emulator sends: its payloads compress to less than
  the 8192 bytes of a frame, so it sends single frames only and never meets the
  first finding below. The emulator's ids have six digits and the collector's
  twelve; the model lets them meet.
- **Telemetry.** `net` is the only shared variable. As it is a set, delivery is in
  any order; `Lose` and the repeat in `Recv` are the rest of what UDP does.
- **LogRotation.** Files are named by generation: the g-th file `LOG_FILE` has
  been. `BeginRotation` is the size test and `rm -f`, `Shift` one `if`/`mv`,
  `MoveLive` and `Touch` the two halves of the `&&` list. The size is not
  modelled: a rotation may begin whenever the log exists.
- **Deduplicate.** Files are sequences of reports, read line by line;
  the four dictionaries are functions, and `order` is the insertion order that
  `list(latest_headers.keys())[-1]` looks at. `ShortRead` is the end of the
  newest file inside a report that the receiver is still writing. Retention
  (receiver 206-219) removes logs, output and backups by `mtime`, one file at a
  time, also between the listing of the directory and `OpenLog`, which then
  ends the run. `written` is the `mtime` of the logs; the test generators write
  old days today.
- **TestLogs.** The three days of `generate_test_logs.py` (mode "w") and the
  half year of `generate_historical_test_logs.py` (mode "a") with their
  clusters, nodes and H lines; they share the file of 14 July.
- **Compliance.** The input is one block of lines per cluster, as stage 1
  leaves it, cut anywhere. `ReadHeader`, `ReadNode`, `ReadVersions`, `SkipLine`
  are the branches of the loop (103-162). `RowOf`, `TotalOf`, `AvailableOf` and
  `GapOf` are the computations of 164-318, with the names of the code's
  variables where it has one. The report goes to disk through a block buffer:
  `WriteRow` and the like are a flush to the end of a row, `FlushInRow` and
  `FlushInStock` one that ends inside a row, of which the cells before and, of
  the last number, the first digits are left (`TornRows`, `FirstDigits`). A kill
  leaves what is on disk. Days, versions and cluster ids are small values; the columns
  the properties do not look at are left out.
- **Allocation, Reporting.** `Allocation` starts from any sheet; its two steps
  are the loop of AppScript 109-130. `Reporting` makes the sheet from the report
  on disk, a torn row included (`RowsIn`, `StocksIn`, `QueueOf`, `StockOf`), and shows that what it then does is
  `Allocation`.
- **Operator.** One action per API call of `deployWorkloads` and
  `teardownWorkloads`, in their order. Reads come from `cached`, which the
  `Sync...` actions let catch up one kind at a time; a write from an old copy
  conflicts. `Lands` is a write whose error is dropped (controller 383, 390,
  520, 527). `Fail` is a failed call. `ownedBy` says whose owner
  references the workloads get (controller 305-326): those of the CSV, if a
  Deployment `controller-manager` with owners exists, or the resource's UID.
  `Collect` is the garbage collector. A payload is a version number.

Comments at each definition say what is abstracted there; `PROJECT.json` lists
the source lines of every definition under `map`.

## 3. Runs

All bounds are CONSTANTS of the configurations: `MaxEpoch` cycles per cluster,
`MaxFaults` exits, stops and volume deletions, `MaxRepeats`, `MaxLosses`,
`MaxMishaps` (worker deaths, kills, interrupts and failing file operations), `MaxGen`, `MaxRuns`,
`MaxEvents` (short reads, kills, days and uses of the generators), `MaxKills`,
`MaxImports`, `MaxEdits`.

| Run | Checks | Shows |
|---|---|---|
| `collector` | CollectorTypeOK, SlicesDisjoint, CycleComplete, MsgIdsIncrease | two pods on one volume, 3 cycles, 2 faults, 2 frames, and a counter that wraps after 2 |
| `receiver` | ReceiverTypeOK, NothingCompleteWaits, VerifiedIsWholeSnapshot, FrameLoggedOnce, LoggedIdsListed, IdRepeatsBounded, AcceptedUntilLogged | four traffics in every order and every subset: messages of two clusters with one id, an id used again for a larger snapshot, single frames of two clusters (one with another salt), an emulated cluster beside a real one; 2 workers, 1 repeat, 1 mishap (a death, a kill, an interrupt or a failing file), restarts |
| `telemetry` | RefinesAudit, SentIsRecorded | two clusters that use one id and everything between, one frame per message, with 1 fault of a script, 1 loss, 1 repeat and 1 mishap of the receiver |
| `telemetry_live` | TakenIsRecorded | two overlapping pods of a cluster, 2 cycles, 1 fault, 1 mishap |
| `dedup` | DedupTypeOK, HeaderOwnsNodes, RolesAndMacTogether, KeepsLatestSnapshot, LastGoodSurvives, TestScenario | all directories of one day with up to two reports of any kind or three OK ones, of two short days, and of test logs; 3 runs, 2 backups, retention of 1 day, 2 short reads, kills, days or generator uses |
| `rotation` | RotationTypeOK, ArchivesOrdered, KeepsUpToLimit | one or two pods, limits 1 to 3, 5 generations, 2 exits, 2 edits |
| `operator` | OperatorTypeOK, DeploymentHasSalt, SaltKept, Converges | both kinds of owner, 3 changes by users, 1 failed call or restart |
| `compliance` | ComplianceTypeOK, TotalsMatchInput, OwnVersion, TermsShareADay, OldestFirst, GreenIffCovered, GapIsColoured, CutMisleadsOnlyLast, ColoursAsAllocated | all pairs of seven kinds of cluster and triples of three, stocks that suffice or fall short, numbers of two digits and a negative stock, inputs cut at every line, missing files, a range inside, across and ending before it starts; 1 run, a flush inside any row, 1 kill, 1 import at any moment |
| `collector_ids` | IdsUnique | violated, see below |
| `receiver_multiframe` | CompleteVerifies | violated |
| `dedup_latest` | LatestStateKept | violated |
| `operator_recreated` | DesiredStateReached | violated |

Why the bounds are enough: two of each actor (pods, workers, clusters) is what
the races of this code need, as each is between two parties over one file, one
id or one object. Two and three frames are the smallest snapshots with a first,
a middle and a last frame. The two clusters of `telemetry` both count
from 0, so their messages always carry the same id. The counter of `collector` wraps inside the run. The
operator's three changes are delete, create and one more; the failed call or
restart may fall on any of its steps. In `dedup` three runs are a good one and
as many unfinished ones as there are backups; two days are the retention period
and the day after. The weights of `compliance` are those on both sides of a
rounding (0, 1, 2, 3, 4, 5, 8 cores), of the limit of three nodes, and of a
pool that is one short; its terms touch the range on one day, overlap it or
miss it.

No run switches deadlock checking off. Where a bound ends all activity, or every
process waits for input, the specification has a stuttering disjunct whose guard
says exactly that (`ClockExhausted`, `Quiet`, `Finished`, `Done`,
`ReportingDone`, `GenExhausted`, `AtRest`).

**Fairness.** `Telemetry`: weak fairness of the main loop
and of each worker, which are ordinary running processes, of the end of a main
process that has nothing left to wait for (`Stopped`), of the started
scripts, and of the Deployment starting its pod. A receiver that failed is
started again (README.md:877, `Restart=on-failure`); one that stopped after an
interrupt need not be, so its start is fair only after a failure. Exits, stops,
losses and the receiver's mishaps have none. `Operator`: weak fairness of the single reconcile worker,
of each informer, of the periodic resync (controller-runtime's default is about
ten hours), of the kubelet and of the garbage collector. Users, failures and
restarts have none. The two liveness properties of `Telemetry` are checked with
one frame per message, because no snapshot of several frames ever passes
(`receiver_multiframe`); `RefinesAudit` is proved for messages of any size.
`SentIsRecorded` and `TakenIsRecorded` name the messages that the network has lost or a mishap has cut off (`lost`), and those
that wait for a receiver that was interrupted; that a mishap has happened is no
excuse for any other.

### What the violated runs show

1. `collector_ids`. A pod reads the counter when it starts, and a rollout
   starts it beside the old one (controller 428): without any fault two cycles
   use one id, against README.md:156 ("uniquely identify").
2. `receiver_multiframe`. The collector signs each frame (controller 452-457);
   the receiver hashes the lines of all frames together and compares with the
   last T line (receiver 108-131). README.md:552-556 promises a validation once
   all frames have arrived. A snapshot of more than 80 nodes is always logged as
   failed.
3. `dedup_latest`, twice against README.md:594 ("the latest valid state for each
   unique Cluster_ID"). Each frame has an H line, and each H line empties the node
   list (dedup 102): of a snapshot of two frames the second one's nodes remain.
   R and T lines go to the cluster inserted last (110): with reports a, b, a the
   versions of a's update are given to b.
4. `operator_recreated`. AlreadyExists counts as success for the PVC (340),
   whose owner stays the deleted resource: it is collected under the new pod and
   stays in deletion, against clustersize-operator/README.md:51.

What the passing properties leave to these is in their own words: the ids
increase while `orderly`, the latest snapshot keeps all its nodes if it came in
one frame, an OK report is never mixed.

Other disagreements with the documents need no run to be seen. A script that ends
between the truncation of `.seq_counter` and the write starts again at 0
(controller 485, README.md:160). Frames of two clusters with equal ids, of which
one has several, become one FAILED report (receiver 257, README.md:156). Nothing
compares ids, so two workers can log two snapshots in the opposite order (176,
README.md:156). Failed reports are logged (164-177), and the next stage skips
only the `#` line that says so (dedup 89, README.md:931).

What `TotalsMatchInput`, `OwnVersion` and `GapIsColoured` exclude by name is
also what the code does: H lines of the superseded layout of nine fields get a
version as support level and are in no total (evaluate 112-129); the R line of
a hosted cluster overwrites the version of the cluster before it (117, 145); a
cluster of two architectures draws everything from the pool of its first row
(AppScript 82). `CutMisleadsOnlyLast` names the one cluster a report that was cut
off can show GREEN though the whole report would not: that of the last row in
the file, if what the cut left of it needs nothing, because the row was cut
before its numbers or its needs are in rows that are missing. Field 5 of the collector's N lines is always "true"
(controller 276), so no node of a current collector is weighed as s390x
(evaluate 184), though README.md:977 names that architecture. The receiver uses
its salt as decrypted while collector and emulator strip white space.

## 4. Proofs

The theorems hold for every value of the constants that satisfies the named
assumptions (`WireAssumption`, `CollectorAssumption` and so on, each in its module): any
clusters, any finite set of pods, any frame size, any set of limits with a
largest member, any number of changes, failed calls and restarts. What the
assumptions ask for beyond types:

- `CollectorAssumption`, `RotationAssumption`, `ReceiverAssumption`: pods and
  pool processes are finite sets, as they are counted.
- `TrafficAssumption`: the datagrams of a traffic are frames of texts as the
  senders make them; different datagrams that carry a text carry different ones,
  since a frame has its own slice of its own snapshot.
- `DeduplicateAssumption`: a daily log is a finite sequence of reports, each with
  the texts of at least one frame (receiver 141-177).
- `TestLogsAssumption`: the clusters and nodes of the test generators are among
  the clusters and nodes.
- `ComplianceAssumption`: clusters stand for numbers; every input is a finite
  sequence of lines of the kinds stage 1 writes (`IsLine`), of which the field
  read as support level is a version if the layout is the superseded one; they
  are arranged as stage 1 writes them (`IsDeduplicated`, dedup 118-125, which
  goes through a dictionary): one header per cluster, its nodes right behind it,
  at most one R line before the next header; stock values are integers; a term
  of the calendar starts no later than it ends, as in `ocp_lifecycle.csv`.
- `ReportingAssumption`: the clusters and groups of a report are among those a
  sheet may name; each group with a total has a pool (AppScript 52-55).
- `IdsIncrease` has the hypothesis `MaxEpoch <= MaxSeq + 1`: no cluster runs more
  cycles than there are ids. After a wrap (10^12 cycles in the code) the property
  is false; the `collector` run has the largest number of cycles allowed.

- **CollectorTypeCorrect**, **SlicesStayDisjoint**, **CyclesAreComplete**. `SlicesDisjoint` alone is not
  inductive: a step of `SendFrame` adds a datagram, and nothing in the property
  says that earlier datagrams of the cycle came from the same pod with the same
  counter. `CollectorIInv` adds: a pod in its loop has an epoch its cluster has
  begun, and no datagram is from a later one (`Fresh`); no two pods of a cluster
  are in the loop of the same epoch (`Alone`); every datagram sent with a pod's
  epoch has its message id and snapshot, a smaller frame number, and N lines
  before the loop variable (`SentBefore`). `SendFrameKeeps` and
  `BeginCycleKeeps` are the interesting steps; every other step falls under
  `OtherStepKeeps`: it sends nothing and takes no pod into its loop.
  For `CycleComplete`, `Covered` says that every number below a pod's frame
  number and every line below its loop variable is in a frame it has sent; the two advance together because the loop variable is always a
  whole number of frames on (`RoundedUp`), and the last frame is cut at the
  count (`WellCut`).
- **IdsIncrease**. `OrderlyInStep`: in a cluster whose counter is in step there is
  at most one pod. Between cycles every id sent is below the number in the file
  (`Above`, `NextId`), which a pod that is there has as its counter
  (`KnowsCounter`); inside a cycle the id in use is the only other one, and while
  the file is empty the pod knows the next. The counter never
  exceeds the number of cycles, so it does not wrap.
  The steps that need thought are `Boot`, which takes the counter from the file,
  and `ExitScript` between two cycles, which leaves the file as the pod knew it.
- **RotationTypeCorrect**, **ArchivesStayOrdered**. The step that needs thought is
  `Shift`: moving archive i to i+1 keeps the order because it takes the place of
  an archive at least as old, whichever pod does it. `RotationIInv` adds that a
  pod's loop variable is below its own limit, so that i+1 is an index, and that
  no file is newer than the number of generations created.
- **LimitIsUsed**. `KeepsUpToLimit` counts files; the proof says where they are.
  While one pod rotates under one limit, `mv` always finds its target free
  (`WayIsFree`), so only `rm` loses files; an archive is above the suffix its age
  gives it by at most the rotations that were cut short (`Drift`); so every
  generation younger than limit and exits account for is there (`Recent`).

- **OperatorTypeCorrect**, **DeploymentsHaveSalt**, **SaltIsKept**. A reconcile
  decides from a cached secret and writes the Deployment several calls later.
  `OperatorIInv` says why that is safe: a salt never goes away, so one the cache
  shows, or the reconcile has ensured before the steps that write ConfigMap and
  Deployment, is still there (`SaltKnown`). That a default never replaces an
  administrator's salt rests on the conflict of an Update from an old copy.

- **ReceiverTypeCorrect**, **CompleteIsSubmitted**, **VerifiedReportsAreWhole**,
  **NoIdIsMissed**, **AcceptedIsKept**, **RepeatsStayBounded** (of `ReceiverAlone`, for any traffic that satisfies
  `TrafficAssumption`, any pool and any number of mishaps). `Typed` adds to the
  types that a worker's set of ids is finite, without which `AppendIds` could
  not list it. For the OK reports, `Sound` says that every body in
  `assembly_buffer`, in a job or with a worker came with a genuine datagram,
  and that a job of total 1 has the body of a genuine datagram that announced
  one frame. An HMAC in a genuine body is over a single text; so an equal HMAC
  over all texts of a message leaves only messages of one text
  (`VerifiedIsSingle`), and that text is a whole snapshot. Here an HMAC is taken
  to be equal only for equal key and text. `LoggedIdsListed` follows from
  `AllSecured`, which says for each text in the log where its cluster is: in the
  file, with the very worker that carries the text's report, or among what was
  cut off. `AcceptedUntilLogged` is an action property, shown step by step
  (`AcceptedStep`): only a mishap takes a job out of the queue or out of a
  worker's hands without its being logged, and then its texts are counted as
  lost (`WaitingIsHeld`). `IdRepeatsBounded` holds because a worker takes an id on only while
  the file has no entry of it, or after a read that failed: the entries and the
  workers about to append it are together at most the pool and the failed reads
  (`RoomFor`), so the pool has to be finite (`ReceiverAssumption`).
- **NoFrameIsLoggedTwice**. While nothing is repeated, a text is in one place:
  a datagram not received yet, `assembly_buffer`, a job, a worker or the log
  (`EachInOnePlace`). A step moves texts; each place a text is in afterwards
  comes from one it was in before, and two places from two.
- **TelemetryPlaced**, **TelemetryRefinesAudit**. Every step of `Telemetry` is,
  under `latest <- clock, recorded <- OkReports(log)`, a step of `AuditTrail` or
  a stutter: `BeginCycle` takes a snapshot, a worker that finds the HMAC equal
  records one, nothing else touches either variable. The step that needs an
  invariant is the recording. Its report is of one text (`Shape`: every HMAC is
  over a single text), of a snapshot already taken; and it may be recorded once
  more because the copies of a snapshot between its pod and the log are at most
  one more than the repetitions (`Placed`), the one in the worker's hands
  included.
- **LastGoodIsKept** (of `TestLogs`). `LastGoodSurvives` does not say where among
  the backups the last good result is. `DedupIInv` does: with `since` runs
  started after it, it has fewer than `since` newer copies behind it, so
  `BackedUp` drops it only when more runs were started than backups are kept;
  retention removes only what is older.
- **ReadInvariant**, **DedupTypeCorrect**, **HeadersOwnNodes**,
  **RolesStayWithMac**, **LatestSnapshotIsKept** (of `TestLogs`). None of these
  properties is inductive: each depends on which line may come next. `Follows`
  says which line may stand below which; `Unread` are the sequences of lines that
  keep to it and end with a T line, `Whole` those that begin with an H line or a
  comment. A text, a report, a log and several logs are `Whole`
  (`TextIsWhole` to `FilesAreWhole`), so the next file fits where the last one
  ended. `ReadIInv` then says: before an N line of a cluster its H line is the
  one kept (`HeadKnown`); between an R and its T line the two tables differ in
  that one entry only (`Paired`); the N lines kept are those of the kept H line
  up to the place reached (`NodesComplete`); and the lines still to read are the
  end of the lines of the selected files, where the headers kept are the last
  ones before that place (`AtPlace`). A removed file ends the run at `OpenLog`
  and a short read sets `wasCut`, so the last three are claimed of an uncut
  reading only. `LastFrameKept` is what the code does at the end of such a reading:
  it keeps the last frame of every cluster, which is the whole snapshot if that
  came in one.
- **AllocationIsFifo**, **ColoursTellTheGap** (of `Allocation`). `Exhausted`: the
  running total of a pool that did not cover some cluster is above its stock.
  `Sufficient`: it is within the stock if all were covered. **TotalsAreDrawn**:
  the running total is the sum of what was drawn.
- **ReportsAreWellFormed**, **TermsAreDays**, **ReportsAreAllocated**,
  **ReportsAreColoured** (of `Reporting`). `ComplianceIInv` types the tables by
  the lines of the input (`HeadersKept`, `NodesKept`, `Versions`) and the report by
  what `RowOf`, `TotalOf`, `AvailableOf` and `GapOf` can return, `terms` included.
  The refinement needs that of each row: the group of a cluster is a key a sheet
  may name, what it needs is a number, and `sort()` gives each place to one
  cluster (`PlaceIs`), so the sheet of any report, whole or not, is one
  `Allocation` may open. The theorems about `Allocation` then hold of it.
- **ColoursTellGap** (of `Reporting`). `ReportIInv`: the totals of a report are
  those of its own rows, its gaps those of its totals and its stock, and while it
  is written its rows are the first of the tables' rows; a total appears only after
  all of them, so no later row can make it wrong. `SheetIInv`: the sheet is the one
  made from the report imported, although the file may since have been replaced.
  The queue has each cluster of the report once (`QueueHolds`), so the sum over
  the queue is, cluster by cluster, the sum over the rows (`QueueNeeds`, from
  `SumOfSums`). `OneArchitecture` is part of the property: a cluster of two
  architectures draws all from the pool of its first row.
- **VersionsAreOwn**, **TotalsAreOfInput** (of `Reporting`). Both relate the report
  to the lines of the input, which no table keeps. `ReadIInv` is a statement for
  each number n of lines read (`TablesHold`): the headers are the H lines of the
  first n that are not skipped (`HeadersHold`), the nodes of a cluster are its N
  lines among them, each once (`NodesHold`, by a numbering: `Numbers`), the keys
  are in the order of the H lines (`OrderHolds`), and a version is that of an R
  line that goes to its cluster (`VersionsHold`). The interesting line is R: it
  goes to the key inserted last, and a hosted cluster inserts none, so `GoesTo`
  lets it come from the hosted blocks that follow. That is the exception
  `OwnVersion` names. For the totals, the rows
  are numbered by the N lines they are of (`RowsAreOf`, cluster by cluster in
  `ClusterRows`, then for the whole report in `AllRows`, where `FlattenPlaces`
  says from which cluster and place each row comes); sums over numbered sets are
  equal, and the exempt nodes, which have no row, weigh nothing (`TotalIsInput`).
  While a report is written, or after it, its totals are still those of the
  tables it was made from (`FileSteps`).
- **GreenMeansCovered** (of `Allocation`), **CutsMisleadOnlyLast** (of `Reporting`).
  `GreenIsCovered` says of every sheet what one colour means: GREEN exactly if
  the stock covers the cluster and those of its pool before it. `FirstRun`: until
  a second start, the report on disk and the one imported are beginnings of the
  report of the tables (`IsCutOf`): the first rows, the next one perhaps torn, no
  stock before the last row, and of a torn stock the first digits. A cluster that
  needs something in the file is GREEN only if there is stock; then all rows are
  there, the queue is that of the whole report and the stock is not larger than
  the whole one (`StockCovers`, `DearCovered`). One that needs nothing in the file
  needs nothing in the whole report either, unless it is the one of the last row:
  the rows of a cluster follow one another (`RowsGrouped`), so no other cluster has
  rows that are missing or torn (`SameNeeds`).

`FlattenSeq` and `OkReports` are recursive functions and `InOrder` chooses by
position. What the proofs need of them (that concatenation distributes, that the
k-th element has k - 1 below it) is shown without an induction rule: a set of
lengths for which the fact fails would have a least element (`SmallestOf`, from
the well-foundedness of < on Nat), and that one leads to a contradiction. The
same argument, on the size of a set, gives what is needed of sums (`SumWithout`,
`SumDisjoint`, `SumOfSums`), of places in an order (`RankExists`) and of the
elements of a concatenation (`FlattenPlaces`).

Attempting `TotalsAreOfInput` corrected two things. The reference weight of an
N line had exempted every line without the role worker; the code exempts only
the roles it names (evaluate 178-182), so a node of a role of its own, such as
ingress, is billed. `Weight` now names the roles and the `compliance` run has
such a node. And nothing had said that a header appears once and that nodes
stand behind their own header; without that a total counts lines that a later
header has dropped. `IsDeduplicated` says it, and TLC evaluates it on every input.

The inductive invariants of `Collector`, `LogRotation`, `Deduplicate`,
`Compliance` and `Reporting` were also checked with TLC before they were proved.

Only model-checked:

- the liveness properties `SentIsRecorded`, `TakenIsRecorded`
  and `Converges`, which need fairness and ENABLED and are beyond the prover;
- `TestScenario`, a statement about particular files.

## 5. Not modelled

- `determinePlatform` and the content of the payload lines; interval parsing
  (controller 60, 124-301): a payload is a version number or a text.
- Backup names of deduplication have the second in them (dedup 23-24): two runs
  in one second would share one. A daily log that is read while it grows ends
  between two lines in the model, never inside one.
- A write of the daily log, of an id or of one row of the report that fails after
  a part of it; a second interrupt while the first one is waited for.
- A row of the report cut inside the cluster's name, which makes a cluster of its
  own that has no pool and is RED, or before the end of its date, which the
  spreadsheet then sorts as Invalid Date.
- The deletion of the secret by an administrator, who only sets its salt here.
- The change of the daily file at midnight; stripping of white space in salts;
  the wording of dates and roles in log lines.
- `telemetry_attack_simulator.py`: what it sends is outside the genuine traffic
  the properties are about.
- The formatting parts of the spreadsheet script; columns of the report that
  carry text only.
- The spec's fields other than `suspend`; two resources in one namespace, whose
  workloads have the same fixed names; leader election.
- Build, packaging and manifests; generated code; superseded copies of scripts
  and controller.

The hazards no property covers are in `PROJECT.json`, each with its reason.

## 6. Plan

Done: every module of section 2. Next, in this order:

1. `Payload`: `determinePlatform` with the namespace-limited cache, and the
   numbering of nodes and roles; `parseIntervalToSeconds` at its boundaries.
2. `Operator`: spec edits that change the pod template, and the rollout.
3. `Receiver`: the change of day.

Every invariant and action property of the passing runs but `TestScenario` has a
theorem; new modules get theirs after their runs.
