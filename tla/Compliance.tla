----------------------------- MODULE Compliance -----------------------------
(***************************************************************************)
(* Stage 2 of the offline pipeline, evaluate_compliance.py: read the       *)
(* deduplicated file into three dictionaries, weigh every node that needs  *)
(* a subscription, and write the node rows, the totals per architecture    *)
(* and support level, the subscriptions available and the gaps.            *)
(*                                                                         *)
(* The input is what deduplicate_telemetry.py leaves: one block of lines   *)
(* (H, N ..., R, T) per cluster, sorted by id, possibly cut off where that *)
(* script was killed while it wrote.  This script may be killed as well.   *)
(***************************************************************************)
EXTENDS Integers, Sequences, FiniteSets, SequencesExt, Collections

CONSTANTS
  Cluster,         \* cluster ids, numbers in the order sorted() gives them
  Cases,           \* the files and the range a run is started with
  MaxRuns, MaxKills \* bounds: starts and kills of the script

File == {"input", "subscriptions", "lifecycle"}
Term == {"t1", "t2", "t3"}

\* The lines stage 1 writes: what the properties look at of each.
IsLine(l) ==
  /\ l.kind \in {"H", "N", "R", "T"}
  /\ l.kind = "H" => /\ l.cluster \in Cluster
                     /\ l.layout \in {"current", "superseded"}
                     /\ l.layout = "current" => l.installed \in Int
                     /\ l.layout = "superseded" => l.version \notin {"STANDARD", "PREMIUM"}
  /\ l.kind = "N" => l.cpu \in Nat

\* And how it arranges them: one header per cluster, its nodes right behind it,
\* and at most one R line before the next header.
IsDeduplicated(lines) ==
  /\ \A i, j \in DOMAIN lines :
       (lines[i].kind = "H" /\ lines[j].kind = "H" /\ lines[i].cluster = lines[j].cluster) => i = j
  /\ \A i \in DOMAIN lines : lines[i].kind = "N" =>
       \E h \in 1 .. i - 1 : /\ lines[h].kind = "H" /\ lines[h].cluster = lines[i].cluster
                            /\ \A k \in h + 1 .. i : lines[k].kind = "N"
  /\ \A i, j \in DOMAIN lines : (i < j /\ lines[i].kind = "R" /\ lines[j].kind = "R") =>
       \E h \in i .. j : lines[h].kind = "H"

\* A term lasts for a day at least: that is so in ocp_lifecycle.csv.
IsCalendar(f) ==
  \A v \in DOMAIN f : \A t \in Term :
    f[v][t] = <<>> \/ (f[v][t] \in Int \X Int /\ f[v][t][1] <= f[v][t][2])

IsCase(c) ==
  /\ c.files \subseteq File
  /\ c.input \in Seq(ToSet(c.input)) /\ \A l \in ToSet(c.input) : IsLine(l)
  /\ IsDeduplicated(c.input)
  /\ c.cut \in 0 .. Len(c.input)
  /\ c.stock \in Seq(ToSet(c.stock)) /\ \A l \in ToSet(c.stock) : l.value \in Seq(Int)
  /\ IsCalendar(c.calendar)
  /\ c.range \in Int \X Int

ASSUME ComplianceAssumption ==
  /\ Cluster \subseteq Nat /\ MaxRuns \in Nat /\ MaxKills \in Nat
  /\ \A c \in Cases : IsCase(c)

VARIABLES
  case,      \* [files, input, cut, stock, calendar, range]: what it is started with
  phase,     \* "idle", "read" or "write"
  todo,      \* lines of the input not read yet
  order,     \* keys of latest_headers, in the order they were first inserted
  headers,   \* latest_headers
  nodes,     \* latest_nodes
  versions,  \* cluster_versions: the current version
  output,    \* master_compliance.csv
  runs, kills \* bound variables

tables == <<order, headers, nodes, versions>>
complianceVars == <<case, phase, todo, tables, output, runs, kills>>

NoFile == [state |-> "no file"]

\* aggr_groups, in the order the report lists them.
Group(arch, support) == [arch |-> arch, support |-> support]
AggrGroups == <<Group("AMD64", "STANDARD"), Group("AMD64", "PREMIUM"),
                Group("s390x", "STANDARD"), Group("s390x", "PREMIUM")>>

-----------------------------------------------------------------------------
\* The other two input files.

\* A key of subscriptions.txt: standard_ocp_subscriptions is <<STANDARD, AMD64>>,
\* premium_ocp_term_2 is <<PREMIUM, t2>>.  There is no premium_ocp_term_1.
SubscriptionKey ==
  ({"STANDARD", "PREMIUM"} \X ({"AMD64", "s390x"} \cup Term)) \ {<<"PREMIUM", "t1">>}

\* Lines of other keys and values int() rejects (<<>>) change nothing; a later
\* line of a key replaces an earlier one.
LoadSubscriptions ==
  [k \in SubscriptionKey |->
     LET given == {i \in DOMAIN case.stock :
                     case.stock[i].key = k /\ case.stock[i].value # <<>>}
     IN  IF "subscriptions" \notin case.files \/ given = {} THEN 0
         ELSE case.stock[Max(given)].value[1]]

\* ocp_lifecycle.csv: version -> term -> <<first day, last day>>, or <<>> where
\* the file has no date or none that parses.
LoadLifecycle == IF "lifecycle" \in case.files THEN case.calendar ELSE <<>>

\* Mutant of EvaluateTerm: the term must cover the whole range.
EvaluateTermCovers(lifecycle, version, t, range) ==
  /\ version \in DOMAIN lifecycle
  /\ lifecycle[version][t] # <<>>
  /\ lifecycle[version][t][1] <= range[1] /\ lifecycle[version][t][2] >= range[2]

\* The term has a day in common with the range.
EvaluateTerm(lifecycle, version, t, range) ==
  /\ version \in DOMAIN lifecycle
  /\ lifecycle[version][t] # <<>>
  /\ lifecycle[version][t][1] <= range[2] /\ lifecycle[version][t][2] >= range[1]

\* "", "none": the platform an operator reports that found none.
CleanVal(s) == IF s \in {"", "none"} THEN "NotAvailable" ELSE s

-----------------------------------------------------------------------------
\* Reading the deduplicated file.

Hosted == {"aws", "aro", "azure"}

\* Fields 3 to 6 of an H line are support, installed at, platform and last
\* update.  In the superseded layout of nine fields, which passes the length
\* test, the same places hold the two versions, a date and the platform.
HeaderOf(l) ==
  IF l.layout = "superseded"
  THEN [count |-> l.count, support |-> l.version, platform |-> "a date", installed |-> 0]
  ELSE [count |-> l.count, support |-> l.support, platform |-> CleanVal(l.platform),
        installed |-> l.installed]

ComplianceInit ==
  /\ case \in Cases
  /\ phase = "idle"
  /\ todo = <<>>
  /\ order = <<>> /\ headers = <<>> /\ nodes = <<>> /\ versions = <<>>
  /\ output = NoFile
  /\ runs = 0 /\ kills = 0

\* A run without its input file ends at once.
StartEvaluation ==
  /\ phase = "idle"
  /\ runs < MaxRuns
  /\ runs' = runs + 1
  /\ \/ /\ "input" \notin case.files
        /\ UNCHANGED <<phase, todo, tables>>
     \/ /\ "input" \in case.files
        /\ phase' = "read"
        /\ todo' = SubSeq(case.input, 1, case.cut)
        /\ order' = <<>> /\ headers' = <<>> /\ nodes' = <<>> /\ versions' = <<>>
  /\ UNCHANGED <<case, output, kills>>

ReadLine(kind) ==
  /\ phase = "read"
  /\ todo # <<>> /\ Head(todo).kind = kind
  /\ todo' = Tail(todo)
  /\ UNCHANGED <<case, phase, output, runs, kills>>

\* The H line of a hosted cluster is passed over: its other lines follow.
ReadHeader ==
  LET l == Head(todo) IN
  /\ ReadLine("H")
  /\ \/ /\ HeaderOf(l).platform \in Hosted
        /\ UNCHANGED tables
     \/ /\ HeaderOf(l).platform \notin Hosted
        /\ order' = IF l.cluster \in DOMAIN headers THEN order ELSE Append(order, l.cluster)
        /\ headers' = Put(headers, l.cluster, HeaderOf(l))
        /\ nodes' = Put(nodes, l.cluster, <<>>)
        /\ UNCHANGED versions

\* Mutant of ReadNode: the lines of a skipped cluster are kept.
ReadNodeOfAny ==
  LET c == Head(todo).cluster
      kept == IF c \in DOMAIN nodes THEN nodes[c] ELSE <<>>
  IN
  /\ ReadLine("N")
  /\ nodes' = Put(nodes, c, Append(kept, Head(todo)))
  /\ UNCHANGED <<order, headers, versions>>

\* An N line whose cluster has no header is dropped.
ReadNode ==
  LET l == Head(todo) IN
  /\ ReadLine("N")
  /\ nodes' = IF l.cluster \in DOMAIN headers
              THEN Put(nodes, l.cluster, Append(nodes[l.cluster], l)) ELSE nodes
  /\ UNCHANGED <<order, headers, versions>>

\* Mutant of ReadVersions: the first key of latest_headers instead of the last.
ReadVersionsForFirst ==
  /\ ReadLine("R")
  /\ versions' = IF order = <<>> \/ Head(todo).version = "garbled" THEN versions
                 ELSE Put(versions, Head(order), Head(todo).version)
  /\ UNCHANGED <<order, headers, nodes>>

\* An R line names no cluster: it goes to the last key of latest_headers.  One
\* that does not decode is passed over.
ReadVersions ==
  /\ ReadLine("R")
  /\ versions' = IF order = <<>> \/ Head(todo).version = "garbled" THEN versions
                 ELSE Put(versions, Last(order), Head(todo).version)
  /\ UNCHANGED <<order, headers, nodes>>

SkipLine == ReadLine("T") /\ UNCHANGED tables

-----------------------------------------------------------------------------
\* Weighing.

\* Of a cluster of more than three nodes, the nodes of the platform itself need
\* no subscription.
Exempt(count, n) == count > 3 /\ n.roles \cap {"master", "control-plane", "infra"} # {}

ArchGroup(n) == IF n.arch = "S390X" THEN "s390x" ELSE "AMD64"

CeilDiv(x, y) == (x + y - 1) \div y

\* Mutant of SubVirtual: the division is not rounded up.
SubVirtualRoundedDown(physical, cpu) == IF physical THEN 0 ELSE cpu \div 4

SubPhysical(arch, physical, cpu) ==
  IF arch = "s390x" THEN cpu ELSE IF physical THEN CeilDiv(cpu, 2) ELSE 0
SubVirtual(physical, cpu) == IF physical THEN 0 ELSE CeilDiv(cpu, 4)

\* major_minor of a cluster's version, "4.20" if it has none with a dot.
VersionOf(c) == IF c \in DOMAIN versions THEN versions[c] ELSE "4.20"
MajorMinor(v) == IF v = "unknown" THEN "4.20" ELSE v

RowOf(c, n) ==
  LET h == headers[c]
      arch == ArchGroup(n)
      physical == h.platform = "baremetal" \/ arch = "s390x"
  IN  [cluster |-> c, support |-> h.support, installed |-> h.installed, arch |-> arch,
       version |-> VersionOf(c),
       cores |-> IF physical THEN n.cpu ELSE 0,
       vcpus |-> IF physical THEN 0 ELSE n.cpu,
       phys |-> SubPhysical(arch, physical, n.cpu),
       virt |-> SubVirtual(physical, n.cpu),
       terms |-> {t \in Term :
                    EvaluateTerm(LoadLifecycle, MajorMinor(VersionOf(c)), t, case.range)}]

RowsOf(c) ==
  LET billed == {i \in DOMAIN nodes[c] : ~Exempt(headers[c].count, nodes[c][i])}
  IN  [k \in 1 .. Cardinality(billed) |-> RowOf(c, nodes[c][InOrder(billed)[k]])]

Rows ==
  LET ids == InOrder(DOMAIN headers)
  IN  FlattenSeq([i \in DOMAIN ids |-> RowsOf(ids[i])])

SumOf(rows, field, S) == SumOver([i \in S |-> rows[i][field]], S)

\* Physical and virtual subscriptions of some of the rows, which the script adds
\* up in the gap only.
Needed(rows, S) == SumOf(rows, "phys", S) + SumOf(rows, "virt", S)

\* Mutant of TotalOf: the filter looks at the architecture alone.
TotalOfArch(rows, g) ==
  LET mine == {i \in DOMAIN rows : rows[i].arch = g.arch}
  IN  [cores |-> SumOf(rows, "cores", mine), vcpus |-> SumOf(rows, "vcpus", mine),
       base |-> Needed(rows, mine),
       term |-> [t \in Term |-> Needed(rows, {i \in mine : t \in rows[i].terms})]]

\* A GRAND TOTAL row.
TotalOf(rows, g) ==
  LET mine == {i \in DOMAIN rows : rows[i].arch = g.arch /\ rows[i].support = g.support}
  IN  [cores |-> SumOf(rows, "cores", mine), vcpus |-> SumOf(rows, "vcpus", mine),
       base |-> Needed(rows, mine),
       term |-> [t \in Term |-> Needed(rows, {i \in mine : t \in rows[i].terms})]]

\* A SUBSCRIPTION AVAILABLE row.
AvailableOf(subs, g) ==
  [base |-> subs[<<g.support, g.arch>>],
   term |-> [t \in Term |-> IF g.arch = "s390x" \/ <<g.support, t>> = <<"PREMIUM", "t1">>
                            THEN 0 ELSE subs[<<g.support, t>>]]]

\* A GAP row.
GapOf(total, available) ==
  [base |-> total.base - available.base,
   term |-> [t \in Term |-> total.term[t] - available.term[t]]]

-----------------------------------------------------------------------------
\* Writing: open(output_file, 'w') truncates, then row follows row through a block
\* buffer.  What is in the file, while it is written and after a kill, is a
\* beginning of it that may end inside a row.

EmptyReport == [rows |-> <<>>, tornRow |-> <<>>, totals |-> <<>>,
                available |-> <<>>, tornStock |-> <<>>, gaps |-> <<>>]

\* What is left of a number: its first digits, or none, which Number() makes 0.
\* (Numbers of up to seven digits.)
FirstDigits(n) ==
  {0} \cup {IF n < 0 THEN -((-n) \div u) ELSE n \div u : u \in {1, 10, 100, 1000, 10000, 100000, 1000000}}

\* What is left of a node row, of the cells the spreadsheet reads: cut off before
\* the end of its architecture, so that no pool is its; in its physical
\* subscriptions, or before; in its virtual ones, or behind them.  (Two cuts are
\* left out: inside the id, which makes a cluster of its own without a pool, and
\* before the end of the date, which sort() then compares as Invalid Date.)
TornRows(row) ==
  {[row EXCEPT !.arch = "", !.phys = 0, !.virt = 0]}
    \cup {[row EXCEPT !.phys = p, !.virt = 0] : p \in FirstDigits(row.phys)}
    \cup {[row EXCEPT !.virt = v] : v \in FirstDigits(row.virt)}

OpenReport ==
  /\ phase = "read" /\ todo = <<>>
  /\ phase' = "write"
  /\ output' = EmptyReport
  /\ UNCHANGED <<case, todo, tables, runs, kills>>

Missing(section, n) == Len(output[section]) < n
NextGroup(section) == AggrGroups[Len(output[section]) + 1]

\* A row is flushed, to its end.
WriteTo(section, row) ==
  /\ phase = "write"
  /\ output' = [output EXCEPT ![section] = Append(@, row), !.tornRow = <<>>, !.tornStock = <<>>]
  /\ UNCHANGED <<case, phase, todo, tables, runs, kills>>

WriteRow ==
  /\ phase = "write" /\ Missing("rows", Len(Rows))
  /\ WriteTo("rows", Rows[Len(output.rows) + 1])

\* A block ends in the next row: a node row, or one of the subscriptions
\* available.  (A block is longer than a row.)
FlushInRow ==
  /\ phase = "write" /\ Missing("rows", Len(Rows)) /\ output.tornRow = <<>>
  /\ \E part \in TornRows(Rows[Len(output.rows) + 1]) :
       output' = [output EXCEPT !.tornRow = <<part>>]
  /\ UNCHANGED <<case, phase, todo, tables, runs, kills>>

FlushInStock ==
  /\ phase = "write" /\ ~Missing("totals", 4) /\ Missing("available", 4) /\ output.tornStock = <<>>
  /\ LET row == AvailableOf(LoadSubscriptions, NextGroup("available"))
     IN  \E part \in FirstDigits(row.base) :
           output' = [output EXCEPT !.tornStock = <<[row EXCEPT !.base = part]>>]
  /\ UNCHANGED <<case, phase, todo, tables, runs, kills>>

WriteTotal ==
  /\ phase = "write" /\ ~Missing("rows", Len(Rows)) /\ Missing("totals", 4)
  /\ WriteTo("totals", TotalOf(Rows, NextGroup("totals")))

\* Mutant of WriteAvailable: the file begins with what is available.
WriteAvailableFirst ==
  /\ phase = "write" /\ Missing("available", 4)
  /\ WriteTo("available", AvailableOf(LoadSubscriptions, NextGroup("available")))

WriteAvailable ==
  /\ phase = "write" /\ ~Missing("totals", 4) /\ Missing("available", 4)
  /\ WriteTo("available", AvailableOf(LoadSubscriptions, NextGroup("available")))

WriteGap ==
  LET i == Len(output.gaps) + 1 IN
  /\ phase = "write" /\ Missing("gaps", 4)
  /\ ~Missing("totals", 4) /\ ~Missing("available", 4)
  /\ WriteTo("gaps", GapOf(output.totals[i], output.available[i]))

Complete(report) == report # NoFile /\ Len(report.gaps) = 4

CloseReport ==
  /\ phase = "write" /\ Complete(output)
  /\ phase' = "idle"
  /\ UNCHANGED <<case, todo, tables, output, runs, kills>>

KillEvaluation ==
  /\ phase # "idle"
  /\ kills < MaxKills
  /\ kills' = kills + 1
  /\ phase' = "idle"
  /\ todo' = <<>>
  /\ UNCHANGED <<case, tables, output, runs>>

ComplianceNext ==
  \/ StartEvaluation
  \/ ReadHeader \/ ReadNode \/ ReadVersions \/ SkipLine
  \/ OpenReport \/ WriteRow \/ FlushInRow \/ FlushInStock \/ WriteTotal \/ WriteAvailable \/ WriteGap \/ CloseReport
  \/ KillEvaluation

-----------------------------------------------------------------------------
\* Properties.

ComplianceTypeOK ==
  /\ case \in Cases
  /\ phase \in {"idle", "read", "write"}
  /\ ToSet(order) = DOMAIN headers /\ IsInjective(order)
  /\ DOMAIN nodes = DOMAIN headers /\ DOMAIN versions \subseteq DOMAIN headers
  /\ DOMAIN headers \subseteq Cluster
  /\ output = NoFile \/ DOMAIN output = DOMAIN EmptyReport
  /\ runs \in 0 .. MaxRuns /\ kills \in 0 .. MaxKills

\* Reference definitions on the lines of the input, which has one block of
\* lines per cluster.
Lines == SubSeq(case.input, 1, case.cut)
Of(kind) == {i \in DOMAIN Lines : Lines[i].kind = kind}
HeaderLine(i) == Lines[CHOOSE j \in Of("H") : Lines[j].cluster = Lines[i].cluster]
IsHosted(h) == h.layout = "current" /\ h.platform \in Hosted
Sockets(cpu, per) == CHOOSE k \in 0 .. cpu : (k - 1) * per < cpu /\ cpu <= k * per
Weight(i) ==
  LET n == Lines[i] h == HeaderLine(i) IN
  IF h.count > 3 /\ \E r \in n.roles : r \in {"master", "control-plane", "infra"} THEN 0
  ELSE IF n.arch = "S390X" THEN n.cpu
  ELSE IF h.platform = "baremetal" THEN Sockets(n.cpu, 2) ELSE Sockets(n.cpu, 4)

\* README.md:645-651: every total of the report, whole or cut off, is the sum
\* over the N lines of the input of what each of them needs, none of them
\* counted twice or left out.  Superseded headers name no support level.
TotalsMatchInput ==
  output # NoFile => \A k \in DOMAIN output.totals :
    LET g == AggrGroups[k]
        counted == {i \in Of("N") :
                      LET h == HeaderLine(i) IN
                      h.layout = "current" /\ ~IsHosted(h) /\ h.support = g.support
                        /\ ArchGroup(Lines[i]) = g.arch}
    IN  output.totals[k].base = SumOver([i \in counted |-> Weight(i)], counted)

\* README.md:1002: a row has the version of its own cluster's R line, unless
\* the block of a hosted cluster follows: its R line goes to the same key.
OwnVersion ==
  output # NoFile => \A k \in DOMAIN output.rows :
    LET mine == {i \in Of("H") : Lines[i].cluster = output.rows[k].cluster}
        next == {j \in Of("H") : \E i \in mine : i < j}
        end == IF next = {} THEN Len(Lines) + 1 ELSE Min(next)
        own == {j \in Of("R") : j < end /\ \E i \in mine : i < j}
    IN  (own # {} /\ (next = {} \/ ~IsHosted(Lines[Min(next)])))
          => output.rows[k].version
               = LET v == Lines[CHOOSE j \in own : TRUE].version
                 IN  IF v = "garbled" THEN "4.20" ELSE v

\* README.md:1002-1004: a cluster needs the subscriptions of a term exactly if
\* some day of the range is a day of that term for its version.  (Of a range
\* that ends before it starts nothing is said.)
TermsShareADay ==
  (output # NoFile /\ case.range[1] <= case.range[2]) => \A k \in DOMAIN output.rows : \A t \in Term :
    t \in output.rows[k].terms <=>
      LET v == MajorMinor(output.rows[k].version) IN
      /\ "lifecycle" \in case.files /\ v \in DOMAIN case.calendar /\ case.calendar[v][t] # <<>>
      /\ \E day \in case.range[1] .. case.range[2] :
            day \in case.calendar[v][t][1] .. case.calendar[v][t][2]
=============================================================================
