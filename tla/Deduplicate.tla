----------------------------- MODULE Deduplicate -----------------------------
(***************************************************************************)
(* Stage 1 of the offline pipeline, deduplicate_telemetry.py: pick the     *)
(* daily logs, back the previous output up, read the logs line by line     *)
(* into four dictionaries and write one record per cluster.                *)
(*                                                                         *)
(* A daily log is the sequence of the reports the receiver appended.  The  *)
(* receiver may still be appending to the newest one, so a run may reach   *)
(* the end of that file inside its last report, and it removes files that  *)
(* are older than its retention period, this script's among them.  The     *)
(* script may be killed at any step and is started again by cron or by     *)
(* hand.                                                                   *)
(***************************************************************************)
EXTENDS Wire, SequencesExt, Collections

CONSTANTS
  Day,              \* dates of the log files, integers
  Logs,             \* the log directories considered: sets of [Day -> Seq(report)]
  BackupRetention,  \* BACKUP_RETENTION, 10 in the code
  Retention,        \* the receiver's --retention, in days
  FirstDay,         \* the day of the first run
  MaxRuns,          \* bound: starts of the script
  MaxEvents         \* bound: short reads, kills and days that go by, together

\* What the receiver may have appended to a daily log: reports, each with the
\* texts of at least one frame.
IsLog(l) ==
  l \in Seq(ToSet(l)) /\ \A i \in DOMAIN l : l[i].texts \in Seq(Text) \ {<<>>}

ASSUME DeduplicateAssumption ==
  /\ Day \subseteq Nat /\ IsFiniteSet(Day)
  /\ BackupRetention \in Nat \ {0}
  /\ Retention \in Nat /\ FirstDay \in Nat
  /\ MaxRuns \in Nat /\ MaxEvents \in Nat
  /\ \A l \in Logs : DOMAIN l = Day /\ \A d \in Day : IsLog(l[d])

VARIABLES
  logs,     \* telemetry_<day>.log files, by day
  written,  \* mtime of those files, as days
  today,
  phase,    \* "idle", "read" or "write"
  queue,    \* days of the selected files not opened yet
  todo,     \* lines of the open file not read yet
  order,    \* keys of latest_headers, in the order they were first inserted
  headers,  \* latest_headers: the text whose H line is kept
  nodes,    \* latest_nodes: the N lines kept, each with the text it is from
  roles,    \* latest_r_records: the text whose R line is kept
  macs,     \* latest_t_records: the text whose T line is kept
  output,   \* [file, day]: telemetry_deduplicated.csv and its mtime
  backups,  \* the .bak copies with their mtimes, oldest first
  lastGood, \* history: the output of the last run that finished
  since,    \* history: runs started since then
  selected, \* history: the files this run selected, as they were then
  wasCut,   \* history: this run stopped inside a report
  runs, events \* bound variables

tables == <<order, headers, nodes, roles, macs>>
directory == <<logs, written>>
result == <<output, backups>>
history == <<lastGood, since, selected, wasCut>>
bounds == <<runs, events>>
dedupVars == <<directory, today, phase, queue, todo, tables, result, history, bounds>>

NoFile == [state |-> "no file"]
Truncated == [state |-> "truncated"]
File(f) == [file |-> f, day |-> today]

-----------------------------------------------------------------------------
\* Lines.  A report of the receiver is a '#' comment and the lines of its texts;
\* the test logs have no comments.

Line(kind, text, k) == [kind |-> kind, text |-> text, k |-> k]

LinesOfText(t) ==
  <<Line("H", t, 0)>>
    \o [i \in 1 .. Cardinality(t.lines) |-> Line("N", t, InOrder(t.lines)[i])]
    \o <<Line("R", t, 0), Line("T", t, 0)>>

LinesOfReport(r) ==
  (IF "ok" \in DOMAIN r THEN <<Line("#", r.texts[1], 0)>> ELSE <<>>)
    \o FlattenSeq([i \in DOMAIN r.texts |-> LinesOfText(r.texts[i])])

LinesOfLog(l) == FlattenSeq([i \in DOMAIN l |-> LinesOfReport(l[i])])

LinesOfFiles(files, days) == FlattenSeq([i \in DOMAIN days |-> LinesOfLog(files[days[i]])])

Empty == <<>>

DedupInit ==
  /\ logs \in Logs
  /\ written = [d \in Day |-> d]
  /\ today = FirstDay
  /\ phase = "idle"
  /\ queue = <<>> /\ todo = <<>>
  /\ order = <<>> /\ headers = Empty /\ nodes = Empty /\ roles = Empty /\ macs = Empty
  /\ output = NoFile /\ backups = <<>>
  /\ lastGood = NoFile /\ since = 0 /\ selected = Empty /\ wasCut = FALSE
  /\ runs = 0 /\ events = 0

-----------------------------------------------------------------------------
\* The files a run reads: the newest with --last-day, else those inside the
\* window, oldest first.
Newest(files) == {d \in files : \A e \in files : e <= d}
Window(files, first, last) == {d \in files : first <= d /\ d <= last}

Exists(d) == logs[d] # <<>>

\* Mutant of BackedUp: one copy fewer is kept.
BackedUpOneFewer ==
  IF output = NoFile THEN backups
  ELSE LET all == Append(backups, output)
       IN  SubSeq(all, Len(all) - Min({Len(all), BackupRetention - 1}) + 1, Len(all))

\* rotate_old_file: copy the output aside, keep the BACKUP_RETENTION newest.
BackedUp ==
  IF output = NoFile THEN backups
  ELSE LET all == Append(backups, output)
       IN  SubSeq(all, Len(all) - Min({Len(all), BackupRetention}) + 1, Len(all))

StartRun(days) ==
  /\ phase = "idle"
  /\ runs < MaxRuns
  /\ days # {}
  /\ runs' = runs + 1
  /\ backups' = BackedUp
  /\ queue' = InOrder(days)
  /\ order' = <<>> /\ headers' = Empty /\ nodes' = Empty /\ roles' = Empty /\ macs' = Empty
  /\ selected' = [d \in days |-> logs[d]]
  /\ since' = since + 1
  /\ wasCut' = FALSE
  /\ phase' = "read"
  /\ UNCHANGED <<directory, today, todo, output, lastGood, events>>

\* "No telemetry log files found", "No logs matched": nothing is touched.
NothingToRead(days) ==
  /\ phase = "idle"
  /\ runs < MaxRuns
  /\ days = {}
  /\ runs' = runs + 1
  /\ UNCHANGED <<directory, today, phase, queue, todo, tables, result, history, events>>

Run(days) == StartRun(days) \/ NothingToRead(days)

Start ==
  LET files == {d \in Day : Exists(d)} IN
  \E days \in {Newest(files)} \cup {Window(files, first, last) : first, last \in Day} :
    Run(days)

\* The loop's open(): the retention clean-up may have removed the file since the
\* directory was listed, and nothing catches FileNotFoundError.
OpenLog ==
  /\ phase = "read" /\ todo = <<>> /\ queue # <<>>
  /\ \/ /\ Exists(Head(queue))
        /\ todo' = LinesOfLog(logs[Head(queue)])
        /\ queue' = Tail(queue)
        /\ UNCHANGED phase
     \/ /\ ~Exists(Head(queue))
        /\ phase' = "idle"
        /\ queue' = <<>>
        /\ UNCHANGED todo
  /\ UNCHANGED <<directory, today, tables, result, history, bounds>>

ReadLine(kind) ==
  /\ phase = "read"
  /\ todo # <<>> /\ Head(todo).kind = kind
  /\ todo' = Tail(todo)
  /\ UNCHANGED <<directory, today, phase, queue, result, history, bounds>>

SkipComment == ReadLine("#") /\ UNCHANGED tables

\* Mutants of ReadHeader: a cluster's key is listed anew with every H line, its
\* earlier N lines stay, or its first H line stays.
ReadHeaderListsAgain ==
  LET t == Head(todo).text IN
  /\ ReadLine("H")
  /\ headers' = Put(headers, t.cluster, t)
  /\ order' = Append(order, t.cluster)
  /\ nodes' = Put(nodes, t.cluster, <<>>)
  /\ UNCHANGED <<roles, macs>>

ReadHeaderKeepsNodes ==
  LET t == Head(todo).text IN
  /\ ReadLine("H")
  /\ headers' = Put(headers, t.cluster, t)
  /\ order' = IF t.cluster \in DOMAIN headers THEN order ELSE Append(order, t.cluster)
  /\ nodes' = IF t.cluster \in DOMAIN nodes THEN nodes ELSE Put(nodes, t.cluster, <<>>)
  /\ UNCHANGED <<roles, macs>>

ReadHeaderKeepsFirst ==
  LET t == Head(todo).text
      new == t.cluster \notin DOMAIN headers
  IN
  /\ ReadLine("H")
  /\ headers' = IF new THEN Put(headers, t.cluster, t) ELSE headers
  /\ order' = IF new THEN Append(order, t.cluster) ELSE order
  /\ nodes' = Put(nodes, t.cluster, <<>>)
  /\ UNCHANGED <<roles, macs>>

\* A dictionary keeps the position of a key that is assigned again.
ReadHeader ==
  LET t == Head(todo).text IN
  /\ ReadLine("H")
  /\ headers' = Put(headers, t.cluster, t)
  /\ order' = IF t.cluster \in DOMAIN headers THEN order ELSE Append(order, t.cluster)
  /\ nodes' = Put(nodes, t.cluster, <<>>)
  /\ UNCHANGED <<roles, macs>>

ReadNode ==
  LET c == Head(todo).text.cluster
      kept == IF c \in DOMAIN nodes THEN nodes[c] ELSE <<>>
  IN
  /\ ReadLine("N")
  /\ nodes' = Put(nodes, c, Append(kept, Head(todo)))
  /\ UNCHANGED <<order, headers, roles, macs>>

\* R and T lines name no cluster: they go to the last key of latest_headers.
ReadRoles ==
  /\ ReadLine("R")
  /\ roles' = IF order = <<>> THEN roles ELSE Put(roles, Last(order), Head(todo).text)
  /\ UNCHANGED <<order, headers, nodes, macs>>

\* Mutant of ReadMac: the first key of latest_headers instead of the last.
ReadMacForFirst ==
  /\ ReadLine("T")
  /\ macs' = IF order = <<>> THEN macs ELSE Put(macs, Head(order), Head(todo).text)
  /\ UNCHANGED <<order, headers, nodes, roles>>

ReadMac ==
  /\ ReadLine("T")
  /\ macs' = IF order = <<>> THEN macs ELSE Put(macs, Last(order), Head(todo).text)
  /\ UNCHANGED <<order, headers, nodes, roles>>

Event == events < MaxEvents /\ events' = events + 1

\* The end of the newest file comes inside its last report, which the receiver
\* is still writing.
InsideLastReport ==
  /\ todo # <<>> /\ queue = <<>>
  /\ LET l == logs[Max({d \in Day : Exists(d)} \cup {Min(Day)})]
     IN  /\ l # <<>> /\ Last(todo).text = Last(Last(l).texts)
         /\ Len(todo) < Len(LinesOfReport(Last(l)))

ShortRead ==
  /\ phase = "read" /\ InsideLastReport
  /\ Event
  /\ wasCut' = TRUE
  /\ todo' = <<>>
  /\ UNCHANGED <<directory, today, phase, queue, tables, result, lastGood, since, selected,
                 runs>>

\* open(output_file, 'w') truncates, the loop writes the records.
OpenOutput ==
  /\ phase = "read" /\ todo = <<>> /\ queue = <<>>
  /\ output' = File(Truncated)
  /\ phase' = "write"
  /\ UNCHANGED <<directory, today, queue, todo, tables, backups, history, bounds>>

Result == [headers |-> headers, nodes |-> nodes, roles |-> roles, macs |-> macs]

WriteOutput ==
  /\ phase = "write"
  /\ output' = File(Result)
  /\ lastGood' = File(Result)
  /\ since' = 0
  /\ phase' = "idle"
  /\ UNCHANGED <<directory, today, queue, todo, tables, backups, selected, wasCut, bounds>>

Kill ==
  /\ phase # "idle"
  /\ Event
  /\ phase' = "idle"
  /\ queue' = <<>> /\ todo' = <<>>
  /\ UNCHANGED <<directory, today, tables, result, history, runs>>

-----------------------------------------------------------------------------
\* The receiver's run_retention_cleanup(), file by file: whatever the directory
\* holds goes by its mtime, which copy2 gives to the backups as well.

NextDay ==
  /\ Event
  /\ today' = today + 1
  /\ UNCHANGED <<directory, phase, queue, todo, tables, result, history, runs>>

Expired(day) == today - day > Retention

RemoveLog ==
  /\ \E d \in Day :
       /\ Exists(d) /\ Expired(written[d])
       /\ logs' = [logs EXCEPT ![d] = <<>>]
  /\ UNCHANGED <<written, today, phase, queue, todo, tables, result, history, bounds>>

RemoveOutput ==
  /\ output # NoFile /\ Expired(output.day)
  /\ output' = NoFile
  /\ UNCHANGED <<directory, today, phase, queue, todo, tables, backups, history, bounds>>

RemoveBackup ==
  /\ \E i \in DOMAIN backups :
       /\ Expired(backups[i].day)
       /\ backups' = RemoveAt(backups, i)
  /\ UNCHANGED <<directory, today, phase, queue, todo, tables, output, history, bounds>>

Cleanup == RemoveLog \/ RemoveOutput \/ RemoveBackup

ReadStep == SkipComment \/ ReadHeader \/ ReadNode \/ ReadRoles \/ ReadMac \/ ShortRead

DedupNext ==
  \/ Start \/ OpenLog \/ ReadStep \/ OpenOutput \/ WriteOutput \/ Kill
  \/ NextDay \/ Cleanup

Done == phase = "idle" /\ runs = MaxRuns

DedupSpec == DedupInit /\ [][DedupNext \/ (Done /\ UNCHANGED dedupVars)]_dedupVars

-----------------------------------------------------------------------------
\* Properties.

DedupTypeOK ==
  /\ \A d \in Day : \A i \in DOMAIN logs[d] : logs[d][i].texts \in Seq(Text)
  /\ phase \in {"idle", "read", "write"}
  /\ queue \in Seq(Day)
  /\ \A i \in DOMAIN todo : todo[i].text \in Text /\ todo[i].kind \in {"#", "H", "N", "R", "T"}
  /\ order \in Seq(Cluster) /\ ToSet(order) = DOMAIN headers /\ IsInjective(order)
  /\ \A f \in {headers, roles, macs} : DOMAIN f \subseteq Cluster
                                       /\ \A c \in DOMAIN f : f[c] \in Text
  /\ DOMAIN nodes = DOMAIN headers

\* The N lines kept for a cluster are from the snapshot of the H line kept for
\* it, at every moment of the reading and wherever the file ends.
HeaderOwnsNodes ==
  \A c \in DOMAIN headers : \A i \in DOMAIN nodes[c] : nodes[c][i].text = headers[c]

\* The R and the T line kept for a cluster are from one and the same frame, so
\* the T line is never paired with the role map of another message.
RolesAndMacTogether ==
  (phase = "write" /\ ~wasCut) =>
    /\ DOMAIN roles = DOMAIN macs
    /\ \A c \in DOMAIN roles : roles[c] = macs[c]

\* Line i is the last H line of its cluster.
IsLastHeader(lines, i) ==
  /\ lines[i].kind = "H"
  /\ \A j \in DOMAIN lines :
       j > i /\ lines[j].kind = "H" => lines[j].text.cluster # lines[i].text.cluster

SelectedLines == LinesOfFiles(selected, InOrder(DOMAIN selected))
KeptNodes(c) == {nodes[c][j].k : j \in DOMAIN nodes[c]}
IsWhole(t) == Cardinality(t.lines) = t.count

\* A run that gets to the end has a record of every cluster in the files it
\* selected, although files may be removed meanwhile; it is of the snapshot
\* logged last there, and where that came in a single frame, all of its nodes are
\* kept and no others.  (For snapshots of several frames see LatestStateKept.)
KeepsLatestSnapshot ==
  (phase = "write" /\ ~wasCut) =>
    LET all == SelectedLines IN
    /\ DOMAIN headers = {all[i].text.cluster : i \in {j \in DOMAIN all : all[j].kind = "H"}}
    /\ \A i \in DOMAIN all : IsLastHeader(all, i) =>
         LET t == all[i].text IN
         /\ headers[t.cluster].epoch = t.epoch
         /\ IsWhole(t) => KeptNodes(t.cluster) = t.lines

\* The result of the last finished run survives later runs that do not finish:
\* it is the output or one of the backups, as long as no more runs are started
\* than backups are kept and the retention period is not over.
LastGoodSurvives ==
  (lastGood # NoFile /\ since <= BackupRetention /\ ~Expired(lastGood.day)) =>
     output = lastGood \/ \E i \in DOMAIN backups : backups[i] = lastGood

\* README.md:594: the latest state of each cluster is retained: the R line kept for
\* it belongs to the snapshot kept, and of that snapshot the record has every N
\* line that the selected files have.
LatestStateKept ==
  (phase = "write" /\ ~wasCut) => \A c \in DOMAIN headers :
    LET all == SelectedLines
        sent == {all[i].k : i \in {j \in DOMAIN all :
                   /\ all[j].kind = "N"
                   /\ all[j].text.cluster = c /\ all[j].text.epoch = headers[c].epoch}}
    IN  /\ c \in DOMAIN roles /\ roles[c].epoch = headers[c].epoch
                              /\ roles[c].cluster = c
        /\ KeptNodes(c) = sent
=============================================================================
