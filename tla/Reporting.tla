------------------------------ MODULE Reporting ------------------------------
(***************************************************************************)
(* Compliance and Allocation composed: master_compliance.csv, whole or cut *)
(* off, is imported into a spreadsheet and its clusters are coloured.      *)
(***************************************************************************)
EXTENDS Compliance, Allocation

CONSTANT MaxImports \* bound: uses of the spreadsheet

\* The clusters and groups of a report are among those a sheet may name, and
\* each group with a total has a pool.
ASSUME ReportingAssumption ==
  /\ Cluster \subseteq Id /\ MaxImports \in Nat
  /\ \A k \in 1 .. 4 : AggrGroups[k] \in Pool
  /\ \A c \in Cases : \A l \in ToSet(c.input) :
       l.kind = "H" => \A arch \in {"AMD64", "s390x", ""} :
                         Group(arch, IF l.layout = "current" THEN l.support ELSE l.version) \in Key

VARIABLES
  imported, \* history: the report the sheet was made from
  imports   \* bound variable

reportingVars == <<complianceVars, allocationVars, imported, imports>>

-----------------------------------------------------------------------------
\* clustersMap: support, architecture and date are those of a cluster's first
\* row, its requirement is the sum over its rows.
ClusterOf(rows, c) ==
  LET mine == {i \in DOMAIN rows : rows[i].cluster = c}
      first == rows[Min(mine)]
  IN  [pool |-> Group(first.arch, first.support),
       cost |-> Needed(rows, mine),
       installed |-> first.installed]

IsOlder(cs, x, y) ==
  cs[x].installed < cs[y].installed \/ (cs[x].installed = cs[y].installed /\ x < y)

\* orderedClusters: in order of first appearance, then by date; sort() is stable.
QueueOf(rows) ==
  LET ids == InOrder({rows[i].cluster : i \in DOMAIN rows})
      cs == [k \in DOMAIN ids |-> ClusterOf(rows, ids[k])]
      place(k) == Cardinality({x \in DOMAIN cs : IsOlder(cs, x, k)}) + 1
      at(n) == CHOOSE k \in DOMAIN cs : place(k) = n
  IN  [n \in DOMAIN cs |->
         [id |-> ids[at(n)], pool |-> cs[at(n)].pool, cost |-> cs[at(n)].cost]]

\* The node rows and the stocks in the file, the last one perhaps torn.
RowsIn(report) == report.rows \o report.tornRow
StocksIn(report) == report.available \o report.tornStock

\* Mutant of StockOf: a pool whose row the file does not have is left out.
StockOfListed(report) ==
  LET stocks == StocksIn(report) IN
  [p \in {AggrGroups[k] : k \in DOMAIN stocks} |->
     stocks[CHOOSE k \in DOMAIN stocks : AggrGroups[k] = p].base]

\* A pool whose row the file does not have is empty.
StockOf(report) ==
  LET stocks == StocksIn(report) IN
  [p \in Pool |->
     LET k == SelectInSeq(AggrGroups, LAMBDA g : g = p)
     IN  IF k \in DOMAIN stocks THEN stocks[k].base ELSE 0]

SheetOf(report) == [queue |-> QueueOf(RowsIn(report)), stock |-> StockOf(report)]

ReportingInit ==
  /\ ComplianceInit /\ AllocationInit
  /\ imported = NoFile
  /\ imports = 0

\* The file may still be being written.
Import ==
  /\ output # NoFile
  /\ imports < MaxImports
  /\ imports' = imports + 1
  /\ imported' = output
  /\ sheet' = SheetOf(output)
  /\ running' = [p \in Pool |-> 0]
  /\ colours' = <<>>
  /\ UNCHANGED complianceVars

ReportingDone ==
  /\ phase = "idle" /\ runs = MaxRuns /\ Len(colours) = Len(sheet.queue)
  /\ UNCHANGED reportingVars

ReportingNext ==
  \/ ComplianceNext /\ UNCHANGED <<allocationVars, imported, imports>>
  \/ (Draw \/ DrawFromNowhere) /\ UNCHANGED <<complianceVars, imported, imports>>
  \/ Import
  \/ ReportingDone

ReportingSpec == ReportingInit /\ [][ReportingNext]_reportingVars

-----------------------------------------------------------------------------
\* Properties.

\* The sheets and colours of the composition are those Allocation, and so what
\* is proved of it, is about.
ColoursAsAllocated == AllocationSpec

Coloured == imported # NoFile /\ Len(colours) = Len(sheet.queue)
Members(g) == {i \in DOMAIN colours : PoolOf(i) = g}
OneArchitecture ==
  \A i, j \in DOMAIN imported.rows :
    imported.rows[i].cluster = imported.rows[j].cluster
      => imported.rows[i].arch = imported.rows[j].arch

\* README.md:1017: the colours of a whole report and its GAP rows agree: all
\* clusters of a group are GREEN exactly if its gap is not positive.  (A
\* cluster of two architectures draws all from the pool of its first row.)
GapIsColoured ==
  (Coloured /\ Complete(imported) /\ OneArchitecture) =>
    \A k \in 1 .. 4 :
      Members(AggrGroups[k]) # {} =>
        ((\A i \in Members(AggrGroups[k]) : colours[i] = "GREEN")
           <=> imported.gaps[k].base <= 0)

\* README.md:1017: what a sheet made from a report that was cut off, between two
\* rows or inside one, makes GREEN is covered in the whole report as well, or
\* needs nothing there, but for one cluster: that of the last row in the file,
\* of whose needs the cut left nothing.
CutMisleadsOnlyLast ==
  (imported # NoFile /\ todo = <<>> /\ runs = 1) =>
    LET whole == QueueOf(Rows)
        upTo(k) == {j \in 1 .. k : whole[j].pool = whole[k].pool}
        needed(k) == SumOver([j \in DOMAIN whole |-> whole[j].cost], upTo(k))
        seen == RowsIn(imported)
    IN  \A i \in DOMAIN colours :
          LET c == sheet.queue[i] IN
          colours[i] = "GREEN" =>
            \/ \E k \in DOMAIN whole :
                 /\ whole[k].id = c.id
                 /\ needed(k) <= LoadSubscriptions[<<c.pool.support, c.pool.arch>>]
            \/ Needed(Rows, {j \in DOMAIN Rows : Rows[j].cluster = c.id}) = 0
            \/ /\ Len(imported.rows) < Len(Rows)
               /\ c.id = seen[Len(seen)].cluster /\ c.cost = 0
=============================================================================
