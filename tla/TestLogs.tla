------------------------------ MODULE TestLogs ------------------------------
(***************************************************************************)
(* The two scripts that make test data for the offline pipeline, composed  *)
(* with Deduplicate: generate_test_logs.py writes three days of three      *)
(* clusters, generate_historical_test_logs.py half a year of a fourth.     *)
(* Both write into the directory the receiver logs to.  They are run by    *)
(* hand, never while the deduplication runs; each use counts as one of     *)
(* MaxRuns and of MaxEvents.                                               *)
(***************************************************************************)
EXTENDS Deduplicate

\* Days are month * 100 + day.  The nodes of prod are three masters and
\* worker-01 to worker-04.
TestText(c, day, nodesOfC) ==
  [cluster |-> c, epoch |-> day, count |-> Cardinality(nodesOfC), lines |-> nodesOfC]
TestReport(c, day, nodesOfC) == [texts |-> <<TestText(c, day, nodesOfC)>>]

TestFiles ==
  [d \in {712, 713, 714} |->
     CASE d = 712 -> <<TestReport("prod", 712, 1 .. 6), TestReport("stage", 712, 1 .. 4)>>
       [] d = 713 -> <<TestReport("prod", 713, 1 .. 5), TestReport("stage", 713, 1 .. 4)>>
       [] d = 714 ->
            <<TestReport("prod", 714, (1 .. 5) \cup {7}), TestReport("edge", 714, 1 .. 3)>>]

\* From May on hist has a fourth node.
LogsByDate ==
  [d \in {115, 310, 520, 714} |->
     <<TestReport("hist", d, IF d < 520 THEN 1 .. 3 ELSE 1 .. 4)>>]

ASSUME TestLogsAssumption ==
  {"prod", "stage", "edge", "hist"} \subseteq Cluster /\ 7 \in NodeLine

\* The files are written today, whatever their names say.  (Bound: not beside
\* the logs of other days.)
WriteLogs(new) ==
  /\ phase = "idle"
  /\ \A d \in Day : Exists(d) => d \in DOMAIN TestFiles \cup DOMAIN LogsByDate
  /\ runs < MaxRuns
  /\ runs' = runs + 1
  /\ Event
  /\ logs' = [d \in Day |-> IF d \in DOMAIN new THEN new[d] ELSE logs[d]]
  /\ written' = [d \in Day |-> IF d \in DOMAIN new THEN today ELSE written[d]]
  /\ UNCHANGED <<today, phase, queue, todo, tables, result, history>>

\* Mode "w": what a file held is lost, the old cluster's report of 14 July too.
GenerateTestLogs == WriteLogs(TestFiles)

\* Mutant of GenerateHistorical: mode "w".
GenerateHistoricalAnew == WriteLogs(LogsByDate)

\* Mode "a" where the file exists.
GenerateHistorical == WriteLogs([d \in DOMAIN LogsByDate |-> logs[d] \o LogsByDate[d]])

TestedNext ==
  \/ DedupNext
  \/ GenerateTestLogs \/ GenerateHistorical
  \/ Done /\ UNCHANGED dedupVars

TestedSpec == DedupInit /\ [][TestedNext]_dedupVars

-----------------------------------------------------------------------------
\* Properties.

\* The scenario the comments of generate_test_logs.py describe (lines 35-58) comes
\* out of the deduplication, also when the historical logs share the file of 14
\* July: prod ends with worker-04 instead of worker-03, edge is new, and stage,
\* which sends nothing on the third day, is still there as of the second.  (Read
\* on the day they are made, before any of the files is old enough to go.)
TestScenario ==
  (phase = "write" /\ ~wasCut /\ today = FirstDay /\ {712, 714} \subseteq DOMAIN selected) =>
    /\ {"prod", "edge"} \subseteq DOMAIN headers
    /\ headers["prod"].epoch = 714
    /\ {nodes["prod"][i].k : i \in DOMAIN nodes["prod"]} = (1 .. 5) \cup {7}
    /\ 713 \in DOMAIN selected => "stage" \in DOMAIN headers /\ headers["stage"].epoch = 713
=============================================================================
