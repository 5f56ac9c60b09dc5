-------------------------- MODULE DeduplicateProofs --------------------------
(***************************************************************************)
(* Proofs about Deduplicate and TestLogs, for any logs, number of backups  *)
(* and length of the retention period.                                     *)
(*                                                                         *)
(* First, the result of the last run that finished is not lost by runs     *)
(* that do not finish.  DedupIInv counts: after k starts since then, the   *)
(* copy of that result is among the k newest backups, and from the moment  *)
(* a run opens the output for writing there is such a copy.                *)
(*                                                                         *)
(* Then, what the dictionaries hold.  ReadIInv says that the lines still   *)
(* to read are the end of the lines of all selected files, that the        *)
(* tables are what the lines before them make, and which line may follow   *)
(* which.                                                                  *)
(***************************************************************************)
EXTENDS TestLogs, CollectionsProofs

Wanted == lastGood # NoFile /\ since <= BackupRetention /\ ~Expired(lastGood.day)

Copied ==
  \E i \in DOMAIN backups : backups[i] = lastGood /\ Len(backups) - i < since

DedupIInv ==
  /\ today \in Nat /\ since \in Nat
  /\ \E S : backups \in Seq(S)
  /\ lastGood # NoFile => lastGood.day \in Nat
  /\ Wanted => Copied \/ (phase = "idle" /\ output = lastGood)

-----------------------------------------------------------------------------
\* The n newest of a sequence contain what is less than n places from its end.
LEMMA NewestKept ==
  ASSUME NEW S, NEW s \in Seq(S), NEW n \in Nat \ {0}, NEW i \in DOMAIN s,
         Len(s) - i < n
  PROVE  LET r == SubSeq(s, Len(s) - Min({Len(s), n}) + 1, Len(s)) IN
         r \in Seq(S) /\ \E j \in DOMAIN r : r[j] = s[i] /\ Len(r) - j = Len(s) - i
<1> DEFINE m == Min({Len(s), n})
           first == Len(s) - m + 1
           r == SubSeq(s, first, Len(s))
<1>1. Len(s) \in Nat /\ i \in 1 .. Len(s)
  OBVIOUS
<1>2. m = IF Len(s) <= n THEN Len(s) ELSE n
  BY <1>1 DEF Min
<1>3. first \in 1 .. Len(s) /\ first <= i
  BY <1>1, <1>2
<1> HIDE DEF m, first
<1>4. r \in Seq(S) /\ Len(r) = Len(s) - first + 1
      /\ \A j \in 1 .. Len(r) : r[j] = s[first + j - 1]
  BY <1>1, <1>3
<1>5. i - first + 1 \in 1 .. Len(r) /\ r[i - first + 1] = s[i]
      /\ Len(r) - (i - first + 1) = Len(s) - i
  BY <1>1, <1>3, <1>4
<1>6. r \in Seq(S) /\ \E j \in DOMAIN r : r[j] = s[i] /\ Len(r) - j = Len(s) - i
  BY <1>4, <1>5
<1> QED BY <1>6 DEF m, first

\* Where the second part of a concatenation is.
LEMMA SecondPart ==
  ASSUME NEW S, NEW f \in Seq(S), NEW b \in Seq(S), NEW j \in 1 .. Len(b)
  PROVE  (f \o b)[Len(f) + j] = b[j]
OBVIOUS

\* Taking one element out brings none further from the end.
LEMMA OthersKept ==
  ASSUME NEW S, NEW s \in Seq(S), NEW k \in DOMAIN s, NEW i \in DOMAIN s, i # k
  PROVE  /\ RemoveAt(s, k) \in Seq(S)
         /\ \E j \in DOMAIN RemoveAt(s, k) :
              RemoveAt(s, k)[j] = s[i] /\ Len(RemoveAt(s, k)) - j <= Len(s) - i
<1> DEFINE front == SubSeq(s, 1, k - 1)
           back == SubSeq(s, k + 1, Len(s))
<1>1. Len(s) \in Nat /\ i \in 1 .. Len(s) /\ k \in 1 .. Len(s)
  OBVIOUS
<1>2. front \in Seq(S) /\ Len(front) = k - 1 /\ \A j \in 1 .. k - 1 : front[j] = s[j]
  BY <1>1
<1>3. back \in Seq(S) /\ Len(back) = Len(s) - k
      /\ \A j \in 1 .. Len(s) - k : back[j] = s[k + j]
  BY <1>1
<1>4. RemoveAt(s, k) = front \o back
  BY DEF RemoveAt
<1> HIDE DEF front, back
<1>a. DOMAIN front = 1 .. k - 1 /\ DOMAIN back = 1 .. Len(s) - k
  BY <1>2, <1>3
<1>b. front \o back \in Seq(S) /\ Len(front \o back) = Len(s) - 1
  BY <1>1, <1>2, <1>3
<1>c. \A j \in 1 .. k - 1 : (front \o back)[j] = s[j]
  BY <1>1, <1>2, <1>3
<1>d. ASSUME NEW j \in 1 .. Len(s) - k PROVE (front \o back)[k - 1 + j] = s[k + j]
  <2>1. front \in Seq(S) /\ back \in Seq(S) /\ j \in 1 .. Len(back)
    BY <1>2, <1>3
  <2>2. (front \o back)[Len(front) + j] = back[j]
    BY ONLY <2>1, SecondPart
  <2> QED BY <1>2, <1>3, <2>2
<1>5. /\ RemoveAt(s, k) \in Seq(S) /\ Len(RemoveAt(s, k)) = Len(s) - 1
      /\ \A j \in 1 .. k - 1 : RemoveAt(s, k)[j] = s[j]
      /\ \A j \in 1 .. Len(s) - k : RemoveAt(s, k)[k - 1 + j] = s[k + j]
  BY <1>4, <1>b, <1>c, <1>d
<1>6. CASE i < k
  BY <1>1, <1>5, <1>6
<1>7. CASE i > k
  <2>1. i - k \in 1 .. Len(s) - k /\ k - 1 + (i - k) = i - 1 /\ k + (i - k) = i
    BY <1>1, <1>7
  <2>2. RemoveAt(s, k)[i - 1] = s[i] /\ i - 1 \in 1 .. Len(s) - 1
    BY <1>1, <1>5, <1>7, <2>1
  <2> QED BY <1>1, <1>5, <2>2
<1> QED BY <1>1, <1>5, <1>6, <1>7

\* Nothing is lost before the first run.
LEMMA DedupInitEstablishes == DedupInit => DedupIInv
<1> SUFFICES ASSUME DedupInit PROVE DedupIInv
  OBVIOUS
<1>1. today \in Nat /\ since \in Nat /\ lastGood = NoFile /\ backups \in Seq({})
  BY DeduplicateAssumption DEF DedupInit
<1> QED BY <1>1 DEF DedupIInv, Wanted

\* A start copies the output aside and drops only older copies.
LEMMA StartKeeps ==
  ASSUME DedupIInv, NEW days, StartRun(days)
  PROVE  DedupIInv'
<1> USE DeduplicateAssumption
<1>1. /\ since' = since + 1 /\ backups' = BackedUp /\ phase = "idle"
      /\ UNCHANGED <<today, output, lastGood>>
  BY DEF StartRun
<1>2. PICK S : backups \in Seq(S)
  BY DEF DedupIInv
<1>3. CASE output = NoFile
  BY <1>1, <1>2, <1>3 DEF BackedUp, DedupIInv, Wanted, Copied, Expired
<1>4. CASE output # NoFile
  <2> DEFINE all == Append(backups, output)
             T == S \cup {output}
  <2>1. /\ all \in Seq(T) /\ Len(all) = Len(backups) + 1 /\ all[Len(all)] = output
        /\ \A i \in DOMAIN backups : i \in DOMAIN all /\ all[i] = backups[i]
    BY <1>2
  <2>2. backups' = SubSeq(all, Len(all) - Min({Len(all), BackupRetention}) + 1, Len(all))
    BY <1>1, <1>4 DEF BackedUp
  <2> HIDE DEF all, T
  <2>3. \A i \in DOMAIN all : Len(all) - i < BackupRetention =>
          backups' \in Seq(T)
          /\ \E j \in DOMAIN backups' : backups'[j] = all[i] /\ Len(backups') - j = Len(all) - i
    <3> SUFFICES ASSUME NEW i \in DOMAIN all, Len(all) - i < BackupRetention
                 PROVE  backups' \in Seq(T)
                        /\ \E j \in DOMAIN backups' :
                              backups'[j] = all[i] /\ Len(backups') - j = Len(all) - i
      OBVIOUS
    <3>1. BackupRetention \in Nat \ {0}
      BY DeduplicateAssumption
    <3> QED BY <2>1, <2>2, <3>1, NewestKept, ZenonT(60)
  <2>4. Len(all) \in DOMAIN all /\ Len(all) - Len(all) < BackupRetention
    BY <1>2, <2>1
  <2>5. backups' \in Seq(T)
    BY <2>3, <2>4
  <2>6. ASSUME Wanted' PROVE Copied'
    <3>1. Wanted /\ since + 1 <= BackupRetention /\ since \in Nat
      BY <1>1, <2>6 DEF Wanted, DedupIInv, Expired
    <3>2. CASE output = lastGood
      <4> PICK j \in DOMAIN backups' :
                 backups'[j] = all[Len(all)] /\ Len(backups') - j = Len(all) - Len(all)
        BY <2>3, <2>4
      <4>1. backups'[j] = lastGood' /\ Len(backups') - j < since'
        BY <1>1, <1>2, <2>1, <3>1, <3>2
      <4> QED BY <4>1 DEF Copied
    <3>3. CASE Copied
      <4> PICK i \in DOMAIN backups : backups[i] = lastGood /\ Len(backups) - i < since
        BY <3>3 DEF Copied
      <4>1. i \in DOMAIN all /\ all[i] = lastGood /\ Len(all) - i < since + 1
        BY <1>2, <2>1, <3>1
      <4>2. Len(all) - i < BackupRetention
        BY <1>2, <2>1, <3>1, <4>1
      <4> QED BY <1>1, <2>3, <4>1, <4>2 DEF Copied
    <3> QED BY <3>1, <3>2, <3>3 DEF DedupIInv
  <2> QED BY <1>1, <2>5, <2>6 DEF DedupIInv
<1> QED BY <1>3, <1>4

\* Every step keeps the invariant.
LEMMA DedupStep == DedupIInv /\ [TestedNext]_dedupVars => DedupIInv'
<1> SUFFICES ASSUME DedupIInv, [TestedNext]_dedupVars PROVE DedupIInv'
  OBVIOUS
<1> USE DeduplicateAssumption
<1> USE DEF result, history
<1>1. ASSUME UNCHANGED <<phase, today, since, lastGood, output, backups>> PROVE DedupIInv'
  BY <1>1 DEF DedupIInv, Wanted, Copied, Expired
<1>2. CASE Start
  <2> PICK days : Run(days)
    BY <1>2 DEF Start
  <2> QED BY <1>1, StartKeeps DEF Run, NothingToRead
<1>3. CASE ReadStep
  BY <1>1, <1>3 DEF ReadStep, SkipComment, ReadHeader, ReadNode, ReadRoles, ReadMac, ReadLine,
     ShortRead, tables
<1>4. CASE OpenLog \/ Kill
  BY <1>4 DEF OpenLog, Kill, DedupIInv, Wanted, Copied, Expired
<1>5. CASE OpenOutput
  BY <1>5 DEF OpenOutput, DedupIInv, Wanted, Copied, Expired
<1>6. CASE WriteOutput
  <2>1. lastGood'.day = today /\ output' = lastGood' /\ phase' = "idle" /\ since' = 0
    BY <1>6 DEF WriteOutput, File
  <2> QED BY <1>6, <2>1 DEF WriteOutput, DedupIInv
<1>7. CASE NextDay
  BY <1>7 DEF NextDay, DedupIInv, Wanted, Copied, Expired
<1>8. CASE Cleanup
  <2>1. CASE RemoveLog
    BY <1>1, <2>1 DEF RemoveLog
  <2>2. CASE RemoveOutput
    BY <2>2 DEF RemoveOutput, DedupIInv, Wanted, Copied, Expired
  <2>3. CASE RemoveBackup
    <3> PICK k \in DOMAIN backups : Expired(backups[k].day) /\ backups' = RemoveAt(backups, k)
      BY <2>3 DEF RemoveBackup
    <3> PICK S : backups \in Seq(S)
      BY DEF DedupIInv
    <3>1. UNCHANGED <<phase, today, since, lastGood, output>>
      BY <2>3 DEF RemoveBackup
    <3>2. \A i \in DOMAIN backups : i # k =>
            /\ backups' \in Seq(S)
            /\ \E j \in DOMAIN backups' :
                 backups'[j] = backups[i] /\ Len(backups') - j <= Len(backups) - i
      BY OthersKept
    <3>3. \E T : backups' \in Seq(T)
      <4>1. SubSeq(backups, 1, k - 1) \in Seq(S) /\ SubSeq(backups, k + 1, Len(backups)) \in Seq(S)
        OBVIOUS
      <4>2. backups' \in Seq(S)
        BY <4>1 DEF RemoveAt
      <4> QED BY <4>2
    <3>4. ASSUME Wanted, Copied PROVE Copied'
      <4> PICK i \in DOMAIN backups : backups[i] = lastGood /\ Len(backups) - i < since
        BY <3>4 DEF Copied
      <4>1. i # k
        BY <3>4 DEF Wanted
      <4> PICK j \in DOMAIN backups' :
                 backups'[j] = backups[i] /\ Len(backups') - j <= Len(backups) - i
        BY <3>2, <4>1
      <4>2. backups' \in Seq(S)
        BY <3>2, <4>1
      <4>3. Len(backups') - j < since
        BY <4>2 DEF DedupIInv
      <4> QED BY <3>1, <4>3 DEF Copied
    <3> QED BY <3>1, <3>3, <3>4 DEF DedupIInv, Wanted, Expired
  <2> QED BY <1>8, <2>1, <2>2, <2>3 DEF Cleanup
<1>9. CASE GenerateTestLogs \/ GenerateHistorical
  BY <1>1, <1>9 DEF GenerateTestLogs, GenerateHistorical, WriteLogs
<1>10. CASE UNCHANGED dedupVars
  BY <1>1, <1>10 DEF dedupVars
<1> QED BY <1>2, <1>3, <1>4, <1>5, <1>6, <1>7, <1>8, <1>9, <1>10 DEF TestedNext, DedupNext

\* However often the script is killed, and whatever the retention clean-up of the
\* receiver removes, the last complete result is the output or among the backups
\* for as many further starts as backups are kept, until it is too old
\* (deduplicate_telemetry.py 20-38, 76-126; telemetry_receiver.py 206-219).
THEOREM LastGoodIsKept == TestedSpec => []LastGoodSurvives
<1>1. DedupIInv => LastGoodSurvives
  BY DEF DedupIInv, Wanted, Copied, LastGoodSurvives
<1> QED BY <1>1, DedupInitEstablishes, DedupStep, PTL DEF TestedSpec

-----------------------------------------------------------------------------
\* The lines of a file.  Got(x) are the N lines of its text that stand before x,
\* for an N line, or before whatever follows the N lines.
LineT == [kind : {"#", "H", "N", "R", "T"}, text : Text, k : Nat]

Got(x) == IF x.kind = "N" THEN {l \in x.text.lines : l < x.k} ELSE x.text.lines

\* y may stand directly below x.
Follows(x, y) ==
  CASE x.kind = "H" -> y.kind \in {"N", "R"} /\ y.text = x.text /\ Got(y) = {}
    [] x.kind = "N" -> y.kind \in {"N", "R"} /\ y.text = x.text /\ Got(y) = Got(x) \cup {x.k}
    [] x.kind = "R" -> y.kind = "T" /\ y.text = x.text
    [] OTHER -> y.kind \in {"#", "H"}

InSequence(s) == \A i \in 1 .. Len(s) - 1 : Follows(s[i], s[i + 1])

\* What a run may still have before it of a file, and what it has at the start.
Unread == {s \in Seq(LineT) : InSequence(s) /\ (s # <<>> => s[Len(s)].kind = "T")}
Whole == {s \in Unread : s # <<>> => s[1].kind \in {"#", "H"}}

-----------------------------------------------------------------------------
\* The invariant of the reading.

IsTable(f) == DOMAIN f \subseteq Cluster /\ \A c \in DOMAIN f : f[c] \in Text

FilesOK ==
  /\ DOMAIN logs = Day /\ \A d \in Day : IsLog(logs[d])
  /\ DOMAIN selected \subseteq Day /\ \A d \in DOMAIN selected : IsLog(selected[d])

ReadingOK ==
  /\ phase \in {"idle", "read", "write"}
  /\ todo \in Unread
  /\ phase # "read" => todo = <<>> /\ queue = <<>>

TablesOK ==
  /\ order \in Seq(Cluster) /\ ToSet(order) = DOMAIN headers /\ IsInjective(order)
  /\ IsTable(headers) /\ IsTable(roles) /\ IsTable(macs)
  /\ DOMAIN nodes = DOMAIN headers /\ \A c \in DOMAIN nodes : nodes[c] \in Seq(LineT)

\* The next line is an N line of cluster c.
NodeNext(c) == todo # <<>> /\ Head(todo).kind = "N" /\ Head(todo).text.cluster = c

HeadKnown ==
  \A c \in Cluster : NodeNext(c) => c \in DOMAIN headers /\ headers[c] = Head(todo).text

\* Between an R and its T line the R line is the only difference.
Paired ==
  IF todo # <<>> /\ Head(todo).kind = "T" /\ order # <<>>
  THEN roles = Put(macs, Last(order), Head(todo).text)
  ELSE roles = macs

NodesComplete ==
  \A c \in DOMAIN headers :
    {nodes[c][i].k : i \in DOMAIN nodes[c]} =
       IF NodeNext(c) THEN Got(Head(todo)) ELSE headers[c].lines

\* The files not opened yet are those selected, or are removed.
QueueOK ==
  /\ queue \in Seq(DOMAIN selected)
  /\ \A i \in DOMAIN queue : logs[queue[i]] \in {<<>>, selected[queue[i]]}

Everything == LinesOfFiles(selected, InOrder(DOMAIN selected))
Rest == todo \o LinesOfFiles(selected, queue)

\* s is what remains of all after its first n lines.
IsRest(s, all, n) ==
  n + Len(s) = Len(all) /\ \A i \in 1 .. Len(s) : s[i] = all[n + i]

\* The last H line of its cluster among the first n.
LastUpTo(all, n, i) ==
  /\ all[i].kind = "H"
  /\ \A j \in i + 1 .. n : all[j].kind = "H" => all[j].text.cluster # all[i].text.cluster

\* h holds the last H lines among the first n of all lines.
HeadersOf(h, all, n) ==
  /\ DOMAIN h = {all[i].text.cluster : i \in {j \in 1 .. n : all[j].kind = "H"}}
  /\ \A i \in 1 .. n : LastUpTo(all, n, i) => h[all[i].text.cluster] = all[i].text

AtPlace == \E n \in Nat : IsRest(Rest, Everything, n) /\ HeadersOf(headers, Everything, n)

ReadIInv ==
  /\ FilesOK /\ ReadingOK /\ QueueOK /\ TablesOK /\ HeadKnown /\ HeaderOwnsNodes
  /\ (phase # "idle" /\ ~wasCut) => Paired /\ NodesComplete /\ AtPlace

-----------------------------------------------------------------------------
\* The lines of texts, reports and logs.

LEMMA TextFacts ==
  ASSUME NEW t \in Text
  PROVE  t.cluster \in Cluster /\ t.lines \subseteq Nat /\ IsFiniteSet(t.lines)
<1>1. t.lines \in SUBSET (1 .. MaxNodes) /\ t.cluster \in Cluster
  BY DEF Text, NodeLine
<1>2. IsFiniteSet(1 .. MaxNodes)
  BY WireAssumption, FS_Interval
<1>3. IsFiniteSet(t.lines)
  BY <1>1, <1>2, FS_Subset
<1>4. 1 .. MaxNodes \subseteq Nat
  BY WireAssumption
<1> QED BY <1>1, <1>3, <1>4

LEMMA LinesOfTextAre ==
  ASSUME NEW t \in Text
  PROVE  LET L == LinesOfText(t)
             n == Cardinality(t.lines) IN
         /\ n \in Nat /\ L \in Seq(LineT) /\ Len(L) = n + 3
         /\ L[1] = Line("H", t, 0)
         /\ \A i \in 1 .. n : L[i + 1] = Line("N", t, InOrder(t.lines)[i])
         /\ L[n + 2] = Line("R", t, 0) /\ L[n + 3] = Line("T", t, 0)
<1> DEFINE n == Cardinality(t.lines)
           N == [i \in 1 .. n |-> Line("N", t, InOrder(t.lines)[i])]
           h == Line("H", t, 0)
           r == Line("R", t, 0)
           m == Line("T", t, 0)
<1>1. n \in Nat /\ \A i \in 1 .. n : InOrder(t.lines)[i] \in Nat
  BY TextFacts, InOrderIs
<1>2. h \in LineT /\ r \in LineT /\ m \in LineT
  BY DEF Line, LineT
<1>3. \A i \in 1 .. n : Line("N", t, InOrder(t.lines)[i]) \in LineT
  BY <1>1 DEF Line, LineT
<1>4. N \in Seq(LineT) /\ Len(N) = n /\ \A i \in 1 .. n : N[i] = Line("N", t, InOrder(t.lines)[i])
  <2>1. N \in [1 .. n -> LineT]
    BY <1>3
  <2> QED BY <1>1, <2>1
<1>5. LinesOfText(t) = <<h>> \o N \o <<r, m>>
  BY DEF LinesOfText
<1> HIDE DEF n, N, h, r, m
<1>6. <<h>> \o N \in Seq(LineT) /\ Len(<<h>> \o N) = n + 1 /\ (<<h>> \o N)[1] = h
      /\ \A i \in 1 .. n : (<<h>> \o N)[i + 1] = N[i]
  BY <1>1, <1>2, <1>4
<1> DEFINE K == <<h>> \o N
<1> HIDE DEF K
<1>7. K \in Seq(LineT) /\ Len(K) = n + 1 /\ K[1] = h /\ \A i \in 1 .. n : K[i + 1] = N[i]
  BY <1>6 DEF K
<1>8. /\ K \o <<r, m>> \in Seq(LineT) /\ Len(K \o <<r, m>>) = n + 3
      /\ \A i \in 1 .. n + 1 : (K \o <<r, m>>)[i] = K[i]
      /\ (K \o <<r, m>>)[n + 2] = r /\ (K \o <<r, m>>)[n + 3] = m
  BY <1>1, <1>2, <1>7
<1>9. 1 \in 1 .. n + 1 /\ \A i \in 1 .. n : i + 1 \in 1 .. n + 1
  BY <1>1
<1> DEFINE L == LinesOfText(t)
<1>10. L = K \o <<r, m>>
  BY <1>5 DEF K
<1> HIDE DEF L
<1>11. L[1] = h /\ L \in Seq(LineT) /\ Len(L) = n + 3 /\ L[n + 2] = r /\ L[n + 3] = m
  BY <1>7, <1>8, <1>9, <1>10
<1>12. \A i \in 1 .. n : L[i + 1] = N[i]
  BY <1>7, <1>8, <1>9, <1>10
<1> QED BY <1>1, <1>4, <1>11, <1>12 DEF L, n, h, r, m

LEMMA TextIsWhole ==
  ASSUME NEW t \in Text
  PROVE  LinesOfText(t) \in Whole /\ LinesOfText(t) # <<>>
<1> DEFINE L == LinesOfText(t)
           n == Cardinality(t.lines)
           N(i) == Line("N", t, InOrder(t.lines)[i])
           h == Line("H", t, 0)
           r == Line("R", t, 0)
           m == Line("T", t, 0)
<1>1. /\ n \in Nat /\ L \in Seq(LineT) /\ Len(L) = n + 3
      /\ L[1] = h /\ L[n + 2] = r /\ L[n + 3] = m
      /\ \A i \in 1 .. n : L[i + 1] = N(i)
  BY LinesOfTextAre
<1>2. t.lines \subseteq Nat /\ IsFiniteSet(t.lines)
  BY TextFacts
<1>3. /\ Got(r) = t.lines
      /\ \A i \in 1 .. n : Got(N(i)) = Lower(t.lines, InOrder(t.lines)[i])
  BY DEF Got, Line, Lower
<1>4. n = 0 => Follows(h, r)
  <2>1. n = 0 => t.lines = {}
    BY <1>2, FS_EmptySet
  <2> QED BY <1>3, <2>1 DEF Follows, Line
<1>5. n # 0 => Follows(h, N(1))
  <2> SUFFICES ASSUME n # 0 PROVE Follows(h, N(1))
    OBVIOUS
  <2>1. 1 \in 1 .. n
    BY <1>1
  <2>2. Lower(t.lines, InOrder(t.lines)[1]) = {}
    BY <1>2, <2>1, Neighbours
  <2>3. Got(N(1)) = {}
    BY <1>3, <2>1, <2>2
  <2> QED BY <2>3 DEF Follows, Line
<1>6. ASSUME NEW i \in 1 .. n, i + 1 \in 1 .. n PROVE Follows(N(i), N(i + 1))
  <2>1. Lower(t.lines, InOrder(t.lines)[i + 1])
           = Lower(t.lines, InOrder(t.lines)[i]) \cup {InOrder(t.lines)[i]}
    BY <1>2, <1>6, Neighbours
  <2>2. Got(N(i + 1)) = Got(N(i)) \cup {InOrder(t.lines)[i]}
    BY <1>3, <1>6, <2>1
  <2>3. /\ N(i).kind = "N" /\ N(i + 1).kind = "N" /\ N(i).text = t /\ N(i + 1).text = t
        /\ N(i).k = InOrder(t.lines)[i]
    BY DEF Line
  <2> HIDE DEF N
  <2> QED BY <2>2, <2>3 DEF Follows
<1>7. n # 0 => Follows(N(n), r)
  <2> SUFFICES ASSUME n # 0 PROVE Follows(N(n), r)
    OBVIOUS
  <2>1. n \in 1 .. n
    BY <1>1
  <2>2. Lower(t.lines, InOrder(t.lines)[n]) \cup {InOrder(t.lines)[n]} = t.lines
    BY <1>2, <2>1, Neighbours
  <2>3. Got(r) = Got(N(n)) \cup {InOrder(t.lines)[n]}
    BY <1>3, <2>1, <2>2
  <2>4. N(n).kind = "N" /\ N(n).text = t /\ N(n).k = InOrder(t.lines)[n]
        /\ r.kind = "R" /\ r.text = t
    BY DEF Line
  <2> HIDE DEF N, r
  <2> QED BY <2>3, <2>4 DEF Follows
<1>8. Follows(r, m)
  BY DEF Follows, Line
<1>9. h.kind = "H" /\ m.kind = "T"
  BY DEF Line
<1> HIDE DEF L, n, N, h, r, m
<1>10. ASSUME NEW i \in 1 .. Len(L) - 1 PROVE Follows(L[i], L[i + 1])
  <2>1. i \in 1 .. n + 2
    BY <1>1
  <2>2. CASE i = 1 /\ n = 0
    BY <1>1, <1>4, <2>2
  <2>3. CASE i = 1 /\ n # 0
    <3>1. 1 \in 1 .. n
      BY <1>1, <2>3
    <3> QED BY <1>1, <1>5, <2>3, <3>1
  <2>4. CASE i # 1 /\ i <= n
    <3>1. i - 1 \in 1 .. n /\ (i - 1) + 1 = i /\ i \in 1 .. n
      BY <1>1, <2>1, <2>4
    <3>2. L[i] = N(i - 1) /\ L[i + 1] = N(i)
      BY <1>1, <3>1
    <3>3. Follows(N(i - 1), N((i - 1) + 1))
      BY <1>6, <3>1
    <3> QED BY <3>1, <3>2, <3>3
  <2>5. CASE i = n + 1 /\ n # 0
    <3>1. n \in 1 .. n /\ i + 1 = n + 2
      BY <1>1, <2>5
    <3> QED BY <1>1, <1>7, <2>5, <3>1
  <2>6. CASE i = n + 2
    <3>1. i + 1 = n + 3
      BY <1>1, <2>6
    <3> QED BY <1>1, <1>8, <2>6, <3>1
  <2> QED BY <1>1, <2>1, <2>2, <2>3, <2>4, <2>5, <2>6
<1>11. L # <<>>
  BY <1>1
<1> QED BY <1>1, <1>9, <1>10, <1>11 DEF Whole, Unread, InSequence, L

\* What may stand before whole texts.
LEMMA Joined ==
  ASSUME NEW x \in Seq(LineT), InSequence(x), x # <<>> => x[Len(x)].kind \in {"#", "T"},
         NEW y \in Seq(LineT), InSequence(y), y # <<>> => y[1].kind \in {"#", "H"}
  PROVE  /\ x \o y \in Seq(LineT) /\ Len(x \o y) = Len(x) + Len(y) /\ InSequence(x \o y)
         /\ \A i \in 1 .. Len(x) : (x \o y)[i] = x[i]
         /\ \A i \in 1 .. Len(y) : (x \o y)[Len(x) + i] = y[i]
<1> DEFINE z == x \o y
           n == Len(x)
           m == Len(y)
<1>1. /\ n \in Nat /\ m \in Nat /\ z \in Seq(LineT) /\ Len(z) = n + m
      /\ (n # 0 <=> x # <<>>) /\ (m # 0 <=> y # <<>>)
  OBVIOUS
<1>2. \A i \in 1 .. n : z[i] = x[i]
  OBVIOUS
<1>3. ASSUME NEW i \in 1 .. m PROVE z[n + i] = y[i]
  BY <1>1, SecondPart
<1>4. \A i \in 1 .. n - 1 : Follows(x[i], x[i + 1])
  BY DEF InSequence
<1>5. \A i \in 1 .. m - 1 : Follows(y[i], y[i + 1])
  BY DEF InSequence
<1>6. n # 0 /\ m # 0 => Follows(x[n], y[1])
  BY <1>1 DEF Follows
<1> HIDE DEF z, n, m
<1>7. ASSUME NEW i \in 1 .. (n + m) - 1 PROVE Follows(z[i], z[i + 1])
  <2>1. CASE i <= n - 1
    <3>1. i \in 1 .. n - 1 /\ i \in 1 .. n /\ i + 1 \in 1 .. n
      BY <1>1, <2>1
    <3> QED BY <1>2, <1>4, <3>1
  <2>2. CASE i = n
    <3>1. n \in 1 .. n /\ 1 \in 1 .. m /\ n # 0 /\ m # 0
      BY <1>1, <2>2
    <3>2. z[n] = x[n] /\ z[n + 1] = y[1]
      BY <1>2, <1>3, <3>1
    <3> QED BY <1>6, <2>2, <3>1, <3>2
  <2>3. CASE i > n
    <3>1. i - n \in 1 .. m - 1 /\ i - n \in 1 .. m /\ (i - n) + 1 \in 1 .. m
          /\ n + (i - n) = i /\ n + ((i - n) + 1) = i + 1
      BY <1>1, <2>3
    <3>2. z[i] = y[i - n] /\ z[i + 1] = y[(i - n) + 1]
      BY <1>3, <3>1
    <3> QED BY <1>5, <3>1, <3>2
  <2> QED BY <1>1, <2>1, <2>2, <2>3
<1>8. InSequence(z)
  BY <1>1, <1>7 DEF InSequence
<1> QED BY <1>1, <1>2, <1>3, <1>8 DEF z, n, m

LEMMA WholeJoined == ASSUME NEW x \in Whole, NEW y \in Whole PROVE x \o y \in Whole
<1> DEFINE z == x \o y
<1>1. /\ x \in Seq(LineT) /\ InSequence(x) /\ (x # <<>> => x[Len(x)].kind = "T")
      /\ y \in Seq(LineT) /\ InSequence(y) /\ (y # <<>> => y[Len(y)].kind = "T")
      /\ (x # <<>> => x[1].kind \in {"#", "H"}) /\ (y # <<>> => y[1].kind \in {"#", "H"})
  BY DEF Whole, Unread
<1>2. /\ z \in Seq(LineT) /\ Len(z) = Len(x) + Len(y) /\ InSequence(z)
      /\ \A i \in 1 .. Len(x) : z[i] = x[i]
      /\ \A i \in 1 .. Len(y) : z[Len(x) + i] = y[i]
  BY <1>1, Joined
<1>3. Len(x) \in Nat /\ Len(y) \in Nat /\ (Len(x) # 0 <=> x # <<>>) /\ (Len(y) # 0 <=> y # <<>>)
      /\ (Len(z) # 0 <=> z # <<>>)
  BY <1>1, <1>2
<1> HIDE DEF z
<1>4. z # <<>> => z[Len(z)].kind = "T" /\ z[1].kind \in {"#", "H"}
  <2>1. CASE Len(x) = 0
    <3>1. Len(y) # 0 => Len(y) \in 1 .. Len(y) /\ 1 \in 1 .. Len(y)
                        /\ Len(x) + 1 = 1 /\ Len(x) + Len(y) = Len(y)
      BY <1>3, <2>1
    <3> QED BY <1>1, <1>2, <1>3, <2>1, <3>1
  <2>2. CASE Len(x) # 0 /\ Len(y) = 0
    <3>1. Len(x) \in 1 .. Len(x) /\ 1 \in 1 .. Len(x) /\ Len(x) + Len(y) = Len(x)
      BY <1>3, <2>2
    <3> QED BY <1>1, <1>2, <1>3, <2>2, <3>1
  <2>3. CASE Len(x) # 0 /\ Len(y) # 0
    <3>1. 1 \in 1 .. Len(x) /\ Len(y) \in 1 .. Len(y)
      BY <1>3, <2>3
    <3> QED BY <1>1, <1>2, <1>3, <2>3, <3>1
  <2> QED BY <2>1, <2>2, <2>3
<1> QED BY <1>2, <1>4 DEF Whole, Unread, z

LEMMA WholeFlattened == ASSUME NEW ss \in Seq(Whole) PROVE FlattenSeq(ss) \in Whole
<1>1. Whole \subseteq Seq(LineT)
  BY DEF Whole, Unread
<1>2. <<>> \in Whole
  BY DEF Whole, Unread, InSequence
<1>3. \A x, y \in Whole : x \o y \in Whole
  BY WholeJoined
<1> QED BY <1>1, <1>2, <1>3, FlattenIn

LEMMA ReportIsWhole ==
  ASSUME NEW r, r.texts \in Seq(Text) \ {<<>>}
  PROVE  LinesOfReport(r) \in Whole
<1> DEFINE parts == [i \in DOMAIN r.texts |-> LinesOfText(r.texts[i])]
           body == FlattenSeq(parts)
           comment == Line("#", r.texts[1], 0)
<1>1. Len(r.texts) \in Nat /\ DOMAIN r.texts = 1 .. Len(r.texts) /\ Len(r.texts) # 0
      /\ \A i \in 1 .. Len(r.texts) : r.texts[i] \in Text
  OBVIOUS
<1>2. \A i \in 1 .. Len(r.texts) : parts[i] \in Whole /\ parts[i] # <<>>
  BY <1>1, TextIsWhole
<1>3. parts \in [1 .. Len(r.texts) -> Whole]
  BY <1>1, <1>2
<1>4. parts \in Seq(Whole) /\ Len(parts) = Len(r.texts) /\ parts # <<>>
  BY <1>1, <1>3
<1> HIDE DEF parts
<1>5. body \in Whole
  BY <1>4, WholeFlattened
<1>6. body # <<>>
  <2>1. Whole \subseteq Seq(LineT)
    BY DEF Whole, Unread
  <2>2. parts \in Seq(Seq(LineT))
    BY <1>4, <2>1, SeqMonotonic
  <2>3. body = Head(parts) \o FlattenSeq(Tail(parts))
    BY <1>4, <2>2, FlattenTail
  <2>4. Tail(parts) \in Seq(Whole) /\ Head(parts) = parts[1] /\ 1 \in 1 .. Len(r.texts)
    BY <1>1, <1>4
  <2>5. Head(parts) \in Seq(LineT) /\ Head(parts) # <<>> /\ FlattenSeq(Tail(parts)) \in Seq(LineT)
    BY <1>2, <2>1, <2>4, WholeFlattened
  <2> HIDE DEF body
  <2> QED BY <2>3, <2>5, ConcatEqualIffEmpty
<1> HIDE DEF body
<1>7. CASE "ok" \notin DOMAIN r
  <2>1. LinesOfReport(r) = <<>> \o body
    BY <1>7 DEF LinesOfReport, body, parts
  <2>2. <<>> \o body = body
    BY <1>5, ConcatEmptySeq DEF Whole, Unread
  <2> QED BY <1>5, <2>1, <2>2
<1>8. CASE "ok" \in DOMAIN r
  <2> DEFINE x == <<comment>>
             z == x \o body
  <2>1. comment \in LineT /\ comment.kind = "#"
    BY <1>1 DEF Line, LineT
  <2> HIDE DEF comment
  <2>2. x \in Seq(LineT) /\ Len(x) = 1 /\ x[1] = comment /\ InSequence(x)
    BY <2>1 DEF InSequence
  <2>3. /\ body \in Seq(LineT) /\ InSequence(body) /\ body[Len(body)].kind = "T"
        /\ body[1].kind \in {"#", "H"} /\ Len(body) \in Nat \ {0}
    BY <1>5, <1>6 DEF Whole, Unread
  <2> HIDE DEF x
  <2>4. /\ z \in Seq(LineT) /\ Len(z) = 1 + Len(body) /\ InSequence(z)
        /\ z[1] = comment /\ z[1 + Len(body)] = body[Len(body)]
    <3>1. /\ x \o body \in Seq(LineT) /\ Len(x \o body) = Len(x) + Len(body)
          /\ InSequence(x \o body)
          /\ \A i \in 1 .. Len(x) : (x \o body)[i] = x[i]
          /\ \A i \in 1 .. Len(body) : (x \o body)[Len(x) + i] = body[i]
      BY <2>1, <2>2, <2>3, Joined
    <3>2. 1 \in 1 .. Len(x) /\ Len(body) \in 1 .. Len(body)
      BY <2>2, <2>3
    <3> QED BY <2>2, <3>1, <3>2
  <2>5. LinesOfReport(r) = z
    BY <1>8 DEF LinesOfReport, body, parts, comment, x
  <2> HIDE DEF z
  <2> QED BY <2>1, <2>3, <2>4, <2>5 DEF Whole, Unread
<1> QED BY <1>7, <1>8

LEMMA LogIsWhole == ASSUME NEW l, IsLog(l) PROVE LinesOfLog(l) \in Whole
<1> DEFINE parts == [i \in DOMAIN l |-> LinesOfReport(l[i])]
<1>1. l \in Seq(ToSet(l)) /\ \A i \in DOMAIN l : l[i].texts \in Seq(Text) \ {<<>>}
  BY DEF IsLog
<1>2. Len(l) \in Nat /\ DOMAIN l = 1 .. Len(l)
  BY <1>1
<1>3. \A i \in 1 .. Len(l) : parts[i] \in Whole
  BY <1>1, <1>2, ReportIsWhole
<1>4. parts \in [1 .. Len(l) -> Whole]
  BY <1>2, <1>3
<1>5. parts \in Seq(Whole)
  BY <1>2, <1>4
<1>6. LinesOfLog(l) = FlattenSeq(parts)
  BY DEF LinesOfLog
<1> HIDE DEF parts
<1> QED BY <1>5, <1>6, WholeFlattened

\* The lines of several files, and what is left when the first of them is opened.
LEMMA FilesAreWhole ==
  ASSUME NEW files, NEW D, NEW days \in Seq(D), \A d \in D : IsLog(files[d])
  PROVE  /\ LinesOfFiles(files, days) \in Whole
         /\ days # <<>> =>
              LinesOfFiles(files, days)
                 = LinesOfLog(files[Head(days)]) \o LinesOfFiles(files, Tail(days))
<1> DEFINE Parts(q) == [i \in DOMAIN q |-> LinesOfLog(files[q[i]])]
<1>1. ASSUME NEW q \in Seq(D)
      PROVE  /\ Parts(q) \in Seq(Whole) /\ Len(Parts(q)) = Len(q)
             /\ \A i \in 1 .. Len(q) : Parts(q)[i] = LinesOfLog(files[q[i]])
  <2>1. Len(q) \in Nat /\ DOMAIN q = 1 .. Len(q) /\ \A i \in 1 .. Len(q) : q[i] \in D
    OBVIOUS
  <2>2. \A i \in 1 .. Len(q) : Parts(q)[i] = LinesOfLog(files[q[i]]) /\ Parts(q)[i] \in Whole
    BY <2>1, LogIsWhole
  <2>3. Parts(q) \in [1 .. Len(q) -> Whole]
    BY <2>1, <2>2
  <2> QED BY <2>1, <2>2, <2>3
<1>2. \A q : LinesOfFiles(files, q) = FlattenSeq(Parts(q))
  BY DEF LinesOfFiles
<1> HIDE DEF Parts
<1>3. LinesOfFiles(files, days) \in Whole
  BY <1>1, <1>2, WholeFlattened
<1>4. ASSUME days # <<>>
      PROVE  LinesOfFiles(files, days)
                = LinesOfLog(files[Head(days)]) \o LinesOfFiles(files, Tail(days))
  <2>1. Tail(days) \in Seq(D) /\ Len(Tail(days)) = Len(days) - 1 /\ Len(days) \in Nat \ {0}
        /\ Head(days) = days[1] /\ \A i \in 1 .. Len(days) - 1 : Tail(days)[i] = days[i + 1]
    BY <1>4
  <2>2. /\ Parts(days) \in Seq(Whole) /\ Len(Parts(days)) = Len(days)
        /\ \A i \in 1 .. Len(days) : Parts(days)[i] = LinesOfLog(files[days[i]])
    BY <1>1
  <2>3. /\ Parts(Tail(days)) \in Seq(Whole) /\ Len(Parts(Tail(days))) = Len(days) - 1
        /\ \A i \in 1 .. Len(days) - 1 :
             Parts(Tail(days))[i] = LinesOfLog(files[days[i + 1]])
    <3>1. /\ Parts(Tail(days)) \in Seq(Whole) /\ Len(Parts(Tail(days))) = Len(Tail(days))
          /\ \A i \in 1 .. Len(Tail(days)) :
               Parts(Tail(days))[i] = LinesOfLog(files[Tail(days)[i]])
      BY <1>1, <2>1, ZenonT(60)
    <3>2. ASSUME NEW i \in 1 .. Len(days) - 1
          PROVE  Parts(Tail(days))[i] = LinesOfLog(files[days[i + 1]])
      <4>1. i \in 1 .. Len(Tail(days)) /\ Tail(days)[i] = days[i + 1]
        BY <2>1
      <4> QED BY <3>1, <4>1, Zenon
    <3> QED BY <2>1, <3>1, <3>2, Zenon
  <2>4. Parts(days) # <<>> /\ Head(Parts(days)) = LinesOfLog(files[Head(days)])
    <3>1. 1 \in 1 .. Len(days)
      BY <2>1
    <3>2. Parts(days) # <<>> /\ Head(Parts(days)) = Parts(days)[1]
      BY <2>1, <2>2
    <3> QED BY <2>1, <2>2, <3>1, <3>2
  <2>5. /\ Tail(Parts(days)) \in Seq(Whole) /\ Len(Tail(Parts(days))) = Len(days) - 1
        /\ \A i \in 1 .. Len(days) - 1 : Tail(Parts(days))[i] = Parts(days)[i + 1]
    BY <2>1, <2>2, <2>4
  <2>6. \A i \in 1 .. Len(days) - 1 : Tail(Parts(days))[i] = Parts(Tail(days))[i]
    <3>1. \A i \in 1 .. Len(days) - 1 : i + 1 \in 1 .. Len(days)
      BY <2>1
    <3> QED BY <2>2, <2>3, <2>5, <3>1
  <2>7. Tail(Parts(days)) = Parts(Tail(days))
    BY <2>3, <2>5, <2>6, SeqEqual
  <2>8. Parts(days) \in Seq(Seq(LineT))
    <3>1. Whole \subseteq Seq(LineT)
      BY DEF Whole, Unread
    <3> QED BY <2>2, <3>1, SeqMonotonic
  <2>9. FlattenSeq(Parts(days)) = Head(Parts(days)) \o FlattenSeq(Tail(Parts(days)))
    BY <2>4, <2>8, FlattenTail
  <2> QED BY <1>2, <2>4, <2>7, <2>9
<1> QED BY <1>3, <1>4

-----------------------------------------------------------------------------
\* One line is read.

LEMMA NextLine ==
  ASSUME NEW s \in Unread, s # <<>>
  PROVE  /\ Head(s) \in LineT /\ Tail(s) \in Unread
         /\ Tail(s) = <<>> => Head(s).kind = "T"
         /\ Tail(s) # <<>> => Follows(Head(s), Head(Tail(s))) /\ Head(Tail(s)) \in LineT
<1>1. s \in Seq(LineT) /\ InSequence(s) /\ s[Len(s)].kind = "T" /\ Len(s) \in Nat \ {0}
  BY DEF Unread
<1>2. /\ Head(s) = s[1] /\ Head(s) \in LineT /\ Tail(s) \in Seq(LineT)
      /\ Len(Tail(s)) = Len(s) - 1
      /\ \A i \in 1 .. Len(s) - 1 : Tail(s)[i] = s[i + 1]
  BY <1>1
<1>3. Tail(s) = <<>> <=> Len(s) = 1
  BY <1>1, <1>2, SMTT(30)
<1>4. \A i \in 1 .. Len(s) - 1 : Follows(s[i], s[i + 1])
  BY <1>1 DEF InSequence
<1>5. InSequence(Tail(s))
  <2> SUFFICES ASSUME NEW i \in 1 .. Len(Tail(s)) - 1
               PROVE  Follows(Tail(s)[i], Tail(s)[i + 1])
    BY DEF InSequence
  <2>1. i \in 1 .. Len(s) - 1 /\ i + 1 \in 1 .. Len(s) - 1
    BY <1>1, <1>2
  <2> QED BY <1>2, <1>4, <2>1
<1>6. ASSUME Tail(s) # <<>>
      PROVE  /\ Tail(s)[Len(Tail(s))].kind = "T" /\ Follows(Head(s), Head(Tail(s)))
             /\ Head(Tail(s)) \in LineT
  <2>1. 1 \in 1 .. Len(s) - 1 /\ Len(s) - 1 \in 1 .. Len(s) - 1 /\ (Len(s) - 1) + 1 = Len(s)
    BY <1>1, <1>3, <1>6
  <2>2. Tail(s)[Len(s) - 1] = s[Len(s)] /\ Head(Tail(s)) = s[1 + 1] /\ Head(Tail(s)) \in LineT
    BY <1>2, <1>6, <2>1
  <2> QED BY <1>1, <1>2, <1>4, <2>1, <2>2
<1> QED BY <1>1, <1>2, <1>3, <1>5, <1>6 DEF Unread

LEMMA PutInTable ==
  ASSUME NEW f, IsTable(f), NEW c \in Cluster, NEW t \in Text
  PROVE  IsTable(Put(f, c, t))
BY DEF IsTable, Put

\* The first of what is left is the next of all.
LEMMA PlaceMoves ==
  ASSUME NEW x \in Seq(LineT), x # <<>>, NEW y \in Seq(LineT), NEW all \in Seq(LineT),
         NEW n \in Nat, IsRest(x \o y, all, n)
  PROVE  n + 1 \in 1 .. Len(all) /\ all[n + 1] = Head(x) /\ IsRest(Tail(x) \o y, all, n + 1)
<1> DEFINE z == x \o y
           w == Tail(x) \o y
           m == Len(x)
           k == Len(y)
<1>1. m \in Nat \ {0} /\ k \in Nat /\ Len(z) = m + k
      /\ \A i \in 1 .. m : z[i] = x[i]
  OBVIOUS
<1>2. \A i \in 1 .. k : z[m + i] = y[i]
  <2> SUFFICES ASSUME NEW i \in 1 .. k PROVE z[m + i] = y[i]
    OBVIOUS
  <2> QED BY SecondPart
<1>3. Tail(x) \in Seq(LineT) /\ Len(Tail(x)) = m - 1 /\ Head(x) = x[1]
      /\ \A i \in 1 .. m - 1 : Tail(x)[i] = x[i + 1]
  OBVIOUS
<1>4. Len(w) = (m - 1) + k /\ \A i \in 1 .. m - 1 : w[i] = Tail(x)[i]
  BY <1>1, <1>3
<1>5. \A i \in 1 .. k : w[(m - 1) + i] = y[i]
  <2> SUFFICES ASSUME NEW i \in 1 .. k PROVE w[(m - 1) + i] = y[i]
    OBVIOUS
  <2> QED BY <1>3, SecondPart
<1>6. n + Len(z) = Len(all) /\ \A i \in 1 .. Len(z) : z[i] = all[n + i]
  BY DEF IsRest
<1> HIDE DEF z, w, m, k
<1>7. n + 1 \in 1 .. Len(all) /\ all[n + 1] = Head(x)
  <2>1. 1 \in 1 .. m /\ 1 \in 1 .. Len(z)
    BY <1>1
  <2> QED BY <1>1, <1>3, <1>6, <2>1
<1>8. \A i \in 1 .. Len(w) : w[i] = all[(n + 1) + i]
  <2> SUFFICES ASSUME NEW i \in 1 .. Len(w) PROVE w[i] = all[(n + 1) + i]
    OBVIOUS
  <2>1. i \in 1 .. (m - 1) + k /\ i + 1 \in 1 .. Len(z) /\ n + (i + 1) = (n + 1) + i
    BY <1>1, <1>4
  <2>2. w[i] = z[i + 1]
    <3>1. CASE i <= m - 1
      <4>1. i \in 1 .. m - 1 /\ i + 1 \in 1 .. m
        BY <1>1, <2>1, <3>1
      <4> QED BY <1>1, <1>3, <1>4, <4>1
    <3>2. CASE i > m - 1
      <4>1. i - (m - 1) \in 1 .. k /\ (m - 1) + (i - (m - 1)) = i
            /\ m + (i - (m - 1)) = i + 1
        BY <1>1, <2>1, <3>2
      <4> QED BY <1>2, <1>5, <4>1
    <3> QED BY <1>1, <2>1, <3>1, <3>2
  <2> QED BY <1>6, <2>1, <2>2
<1>9. (n + 1) + Len(w) = Len(all)
  <2>1. Len(z) = m + k /\ Len(w) = (m - 1) + k /\ n + Len(z) = Len(all)
    BY <1>1, <1>4, <1>6
  <2>2. m \in Nat /\ k \in Nat
    BY <1>1
  <2>3. (n + 1) + ((m - 1) + k) = n + (m + k)
    BY <2>2
  <2> QED BY <2>1, <2>3
<1> QED BY <1>7, <1>8, <1>9 DEF IsRest, w

\* An H line is the last of its cluster as long as none of it follows.
LEMMA HeadersMove ==
  ASSUME NEW all, NEW n \in Nat, NEW h, NEW g, HeadersOf(h, all, n),
         IF all[n + 1].kind = "H"
         THEN g = Put(h, all[n + 1].text.cluster, all[n + 1].text) ELSE g = h
  PROVE  HeadersOf(g, all, n + 1)
<1> DEFINE Hs(m) == {j \in 1 .. m : all[j].kind = "H"}
           cl(i) == all[i].text.cluster
           x == all[n + 1]
<1>1. \A i \in 1 .. n + 1 : i \in 1 .. n \/ i = n + 1
  OBVIOUS
<1>2. n + 1 \in 1 .. n + 1 /\ \A i \in 1 .. n : i \in 1 .. n + 1
  OBVIOUS
<1>3. DOMAIN h = {cl(i) : i \in Hs(n)}
  BY DEF HeadersOf
<1>4. \A i \in 1 .. n : LastUpTo(all, n + 1, i) =>
        LastUpTo(all, n, i) /\ (x.kind = "H" => x.text.cluster # cl(i))
  <2> SUFFICES ASSUME NEW i \in 1 .. n, LastUpTo(all, n + 1, i)
               PROVE  LastUpTo(all, n, i) /\ (x.kind = "H" => x.text.cluster # cl(i))
    OBVIOUS
  <2>1. n + 1 \in i + 1 .. n + 1 /\ \A j \in i + 1 .. n : j \in i + 1 .. n + 1
    OBVIOUS
  <2> QED BY <2>1 DEF LastUpTo
<1>5. \A i \in 1 .. n : LastUpTo(all, n, i) => h[cl(i)] = all[i].text /\ i \in Hs(n)
  BY DEF HeadersOf, LastUpTo
<1>6. CASE x.kind = "H"
  <2>1. Hs(n + 1) = Hs(n) \cup {n + 1}
    BY <1>1, <1>2, <1>6
  <2>2. /\ DOMAIN g = DOMAIN h \cup {cl(n + 1)} /\ g[cl(n + 1)] = x.text
        /\ \A c \in DOMAIN h : c # cl(n + 1) => g[c] = h[c]
    <3>1. g = Put(h, cl(n + 1), x.text)
      BY <1>6
    <3> DEFINE c1 == cl(n + 1)
               v == x.text
    <3> HIDE DEF cl, x, c1, v
    <3>2. g = Put(h, c1, v)
      BY <3>1 DEF c1, v
    <3>3. DOMAIN g = DOMAIN h \cup {c1} /\ g[c1] = v
          /\ \A c \in DOMAIN h : c # c1 => g[c] = h[c]
      <4>1. /\ DOMAIN Put(h, c1, v) = DOMAIN h \cup {c1} /\ Put(h, c1, v)[c1] = v
            /\ \A c \in DOMAIN h : c # c1 => Put(h, c1, v)[c] = h[c]
        BY DEF Put
      <4> QED BY <3>2, <4>1
    <3> QED BY <3>3 DEF c1, v
  <2>3. DOMAIN g = {cl(i) : i \in Hs(n + 1)}
    <3> HIDE DEF Hs, cl, x
    <3> QED BY <1>3, <2>1, <2>2
  <2>4. \A i \in 1 .. n + 1 : LastUpTo(all, n + 1, i) => g[cl(i)] = all[i].text
    <3> SUFFICES ASSUME NEW i \in 1 .. n + 1, LastUpTo(all, n + 1, i)
                 PROVE  g[cl(i)] = all[i].text
      OBVIOUS
    <3>1. CASE i = n + 1
      BY <2>2, <3>1
    <3>2. CASE i \in 1 .. n
      <4>1. h[cl(i)] = all[i].text /\ i \in Hs(n) /\ cl(n + 1) # cl(i)
        BY <1>4, <1>5, <1>6, <3>2
      <4>2. cl(i) \in DOMAIN h
        BY <1>3, <4>1
      <4> QED BY <2>2, <4>1, <4>2
    <3> QED BY <1>1, <3>1, <3>2
  <2> QED BY <2>3, <2>4 DEF HeadersOf
<1>7. CASE x.kind # "H"
  <2>1. Hs(n + 1) = Hs(n)
    BY <1>1, <1>2, <1>7
  <2>2. g = h
    BY <1>7
  <2>3. \A i \in 1 .. n + 1 : LastUpTo(all, n + 1, i) => h[cl(i)] = all[i].text
    <3> SUFFICES ASSUME NEW i \in 1 .. n + 1, LastUpTo(all, n + 1, i)
                 PROVE  h[cl(i)] = all[i].text
      OBVIOUS
    <3>1. i # n + 1
      BY <1>7 DEF LastUpTo
    <3> QED BY <1>1, <1>4, <1>5, <3>1
  <2> QED BY <1>3, <2>1, <2>2, <2>3 DEF HeadersOf
<1> QED BY <1>6, <1>7

-----------------------------------------------------------------------------
\* The steps of the reading.

\* What every line that is read leaves behind.
LEMMA LineRead ==
  ASSUME ReadIInv, NEW kind, ReadLine(kind)
  PROVE  /\ phase = "read" /\ todo # <<>> /\ Head(todo) \in LineT /\ Head(todo).kind = kind
         /\ todo' = Tail(todo) /\ UNCHANGED <<phase, queue, selected, wasCut>>
         /\ FilesOK' /\ ReadingOK' /\ QueueOK'
         /\ todo' = <<>> => kind = "T"
         /\ todo' # <<>> => Follows(Head(todo), Head(todo')) /\ Head(todo') \in LineT
<1>1. /\ phase = "read" /\ todo # <<>> /\ Head(todo).kind = kind /\ todo' = Tail(todo)
      /\ UNCHANGED <<logs, phase, queue, selected, wasCut>>
  BY DEF ReadLine, directory, history
<1>2. todo \in Unread
  BY DEF ReadIInv, ReadingOK
<1>3. /\ Head(todo) \in LineT /\ Tail(todo) \in Unread
      /\ Tail(todo) = <<>> => Head(todo).kind = "T"
      /\ Tail(todo) # <<>> => Follows(Head(todo), Head(Tail(todo))) /\ Head(Tail(todo)) \in LineT
  BY <1>1, <1>2, NextLine
<1>4. FilesOK' /\ QueueOK'
  BY <1>1 DEF ReadIInv, FilesOK, QueueOK
<1>5. ReadingOK'
  BY <1>1, <1>3 DEF ReadIInv, ReadingOK
<1> QED BY <1>1, <1>3, <1>4, <1>5

\* Which line comes next.
LEMMA LineAfter ==
  ASSUME NEW x, NEW s, s = <<>> => x.kind = "T", s # <<>> => Follows(x, Head(s))
  PROVE  /\ x.kind \in {"H", "N"} =>
              /\ s # <<>> /\ Head(s).kind \in {"N", "R"} /\ Head(s).text = x.text
              /\ Got(Head(s)) = IF x.kind = "H" THEN {} ELSE Got(x) \cup {x.k}
         /\ x.kind = "R" => s # <<>> /\ Head(s).kind = "T" /\ Head(s).text = x.text
         /\ x.kind # "R" => s = <<>> \/ Head(s).kind # "T"
         /\ x.kind \notin {"H", "N"} => s = <<>> \/ Head(s).kind # "N"
<1> DEFINE y == Head(s)
<1>1. s # <<>> => Follows(x, y)
  OBVIOUS
<1> HIDE DEF y
<1>2. CASE x.kind = "H"
  BY <1>1, <1>2 DEF Follows, y
<1>3. CASE x.kind = "N"
  BY <1>1, <1>3 DEF Follows, y
<1>4. CASE x.kind = "R"
  BY <1>1, <1>4 DEF Follows, y
<1>5. CASE x.kind \notin {"H", "N", "R"}
  BY <1>1, <1>5 DEF Follows, y
<1> QED BY <1>2, <1>3, <1>4, <1>5

\* The place in the lines of all files moves on by one.
LEMMA PlaceKept ==
  ASSUME ReadIInv, NEW kind, ReadLine(kind), AtPlace,
         headers' = IF kind = "H" THEN Put(headers, Head(todo).text.cluster, Head(todo).text)
                    ELSE headers
  PROVE  AtPlace'
<1>1. /\ todo # <<>> /\ Head(todo).kind = kind /\ todo' = Tail(todo)
      /\ queue' = queue /\ selected' = selected
  BY LineRead
<1>2. \A d \in DOMAIN selected : IsLog(selected[d])
  BY DEF ReadIInv, FilesOK
<1>3. LinesOfFiles(selected, queue) \in Seq(LineT)
  <2>1. queue \in Seq(DOMAIN selected)
    BY DEF ReadIInv, QueueOK
  <2> QED BY <1>2, <2>1, FilesAreWhole DEF Whole, Unread
<1>4. Everything \in Seq(LineT)
  <2>1. DOMAIN selected \subseteq Nat /\ IsFiniteSet(DOMAIN selected)
    <3>1. DOMAIN selected \in SUBSET Day
      BY DEF ReadIInv, FilesOK
    <3> QED BY <3>1, DeduplicateAssumption, FS_Subset
  <2>2. InOrder(DOMAIN selected) \in Seq(DOMAIN selected)
    BY <2>1, InOrderIs
  <2> QED BY <1>2, <2>2, FilesAreWhole DEF Whole, Unread, Everything
<1>5. PICK n \in Nat : IsRest(Rest, Everything, n) /\ HeadersOf(headers, Everything, n)
  BY DEF AtPlace
<1>6. todo \in Seq(LineT)
  BY DEF ReadIInv, ReadingOK, Unread
<1>7. /\ n + 1 \in 1 .. Len(Everything) /\ Everything[n + 1] = Head(todo)
      /\ IsRest(Tail(todo) \o LinesOfFiles(selected, queue), Everything, n + 1)
  BY <1>1, <1>3, <1>4, <1>5, <1>6, PlaceMoves DEF Rest
<1>8. Everything' = Everything /\ Rest' = Tail(todo) \o LinesOfFiles(selected, queue)
  BY <1>1 DEF Everything, Rest
<1>9. HeadersOf(headers', Everything, n + 1)
  <2> DEFINE all == Everything
             h == headers
             g == headers'
  <2>1. HeadersOf(h, all, n)
    BY <1>5
  <2>2. IF all[n + 1].kind = "H"
        THEN g = Put(h, all[n + 1].text.cluster, all[n + 1].text) ELSE g = h
    BY <1>1, <1>7
  <2> HIDE DEF all, h, g
  <2>3. HeadersOf(g, all, n + 1)
    BY <2>1, <2>2, HeadersMove
  <2> QED BY <2>3 DEF all, g
<1>10. n + 1 \in Nat
  OBVIOUS
<1> QED BY <1>7, <1>8, <1>9, <1>10 DEF AtPlace

\* A line of another kind: the tables of headers and nodes stay.
LEMMA NoNodeNext ==
  ASSUME ReadIInv, NEW kind, ReadLine(kind), kind \notin {"H", "N"},
         UNCHANGED <<order, headers, nodes>>
  PROVE  /\ HeadKnown' /\ HeaderOwnsNodes'
         /\ NodesComplete => NodesComplete'
         /\ AtPlace => AtPlace'
<1>1. /\ todo # <<>> /\ Head(todo).kind = kind
      /\ todo' = <<>> => kind = "T"
      /\ todo' # <<>> => Follows(Head(todo), Head(todo'))
  BY LineRead
<1>2. todo' = <<>> \/ Head(todo').kind # "N"
  BY <1>1, LineAfter
<1>3. \A c : ~NodeNext(c) /\ ~NodeNext(c)'
  BY <1>1, <1>2 DEF NodeNext
<1>4. HeadKnown' /\ HeaderOwnsNodes'
  BY <1>3 DEF HeadKnown, ReadIInv, HeaderOwnsNodes
<1>5. NodesComplete => NodesComplete'
  BY <1>3 DEF NodesComplete
<1>6. AtPlace => AtPlace'
  BY PlaceKept
<1> QED BY <1>4, <1>5, <1>6

LEMMA CommentKeeps == ASSUME ReadIInv, SkipComment PROVE ReadIInv'
<1>1. ReadLine("#") /\ UNCHANGED tables
  BY DEF SkipComment
<1>2. /\ todo # <<>> /\ Head(todo).kind = "#" /\ UNCHANGED <<phase, wasCut>>
      /\ FilesOK' /\ ReadingOK' /\ QueueOK'
      /\ todo' = <<>> => Head(todo).kind = "T"
      /\ todo' # <<>> => Follows(Head(todo), Head(todo'))
  BY <1>1, LineRead
<1>3. todo' = <<>> \/ Head(todo').kind # "T"
  BY <1>2, LineAfter
<1>4. HeadKnown' /\ HeaderOwnsNodes' /\ (NodesComplete => NodesComplete') /\ (AtPlace => AtPlace')
  BY <1>1, NoNodeNext DEF tables
<1>5. TablesOK'
  BY <1>1 DEF tables, ReadIInv, TablesOK
<1>6. Paired => Paired'
  BY <1>1, <1>2, <1>3 DEF tables, Paired
<1> QED BY <1>2, <1>4, <1>5, <1>6 DEF ReadIInv

\* An R line differs from the T lines kept until its T line is read.
LEMMA LastOfOrder == ASSUME TablesOK, order # <<>> PROVE Last(order) \in Cluster
<1>1. order \in Seq(Cluster)
  BY DEF TablesOK
<1> QED BY <1>1 DEF Last

LEMMA RolesKeeps == ASSUME ReadIInv, ReadRoles PROVE ReadIInv'
<1> DEFINE t == Head(todo).text
<1>1. /\ ReadLine("R") /\ UNCHANGED <<order, headers, nodes, macs>>
      /\ roles' = IF order = <<>> THEN roles ELSE Put(roles, Last(order), t)
  BY DEF ReadRoles
<1>2. /\ todo # <<>> /\ Head(todo).kind = "R" /\ Head(todo) \in LineT
      /\ UNCHANGED <<phase, wasCut>>
      /\ FilesOK' /\ ReadingOK' /\ QueueOK'
      /\ todo' = <<>> => Head(todo).kind = "T"
      /\ todo' # <<>> => Follows(Head(todo), Head(todo'))
  BY <1>1, LineRead
<1>3. todo' # <<>> /\ Head(todo').kind = "T" /\ Head(todo').text = t
  BY <1>2, LineAfter
<1>4. HeadKnown' /\ HeaderOwnsNodes' /\ (NodesComplete => NodesComplete') /\ (AtPlace => AtPlace')
  BY <1>1, NoNodeNext
<1>5. TablesOK'
  <2>1. TablesOK /\ t \in Text
    BY <1>2 DEF ReadIInv, LineT
  <2>2. IsTable(roles')
    <3>1. CASE order = <<>>
      BY <1>1, <2>1, <3>1 DEF TablesOK
    <3>2. CASE order # <<>>
      BY <1>1, <2>1, <3>2, LastOfOrder, PutInTable DEF TablesOK
    <3> QED BY <3>1, <3>2
  <2> QED BY <1>1, <2>1, <2>2 DEF TablesOK
<1>6. Paired => Paired'
  BY <1>1, <1>2, <1>3 DEF Paired
<1> QED BY <1>2, <1>4, <1>5, <1>6 DEF ReadIInv

LEMMA MacKeeps == ASSUME ReadIInv, ReadMac PROVE ReadIInv'
<1> DEFINE t == Head(todo).text
<1>1. /\ ReadLine("T") /\ UNCHANGED <<order, headers, nodes, roles>>
      /\ macs' = IF order = <<>> THEN macs ELSE Put(macs, Last(order), t)
  BY DEF ReadMac
<1>2. /\ todo # <<>> /\ Head(todo).kind = "T" /\ Head(todo) \in LineT
      /\ UNCHANGED <<phase, wasCut>>
      /\ FilesOK' /\ ReadingOK' /\ QueueOK'
      /\ todo' = <<>> => Head(todo).kind = "T"
      /\ todo' # <<>> => Follows(Head(todo), Head(todo'))
  BY <1>1, LineRead
<1>3. todo' = <<>> \/ Head(todo').kind # "T"
  BY <1>2, LineAfter
<1>4. HeadKnown' /\ HeaderOwnsNodes' /\ (NodesComplete => NodesComplete') /\ (AtPlace => AtPlace')
  BY <1>1, NoNodeNext
<1>5. TablesOK'
  <2>1. TablesOK /\ t \in Text
    BY <1>2 DEF ReadIInv, LineT
  <2>2. IsTable(macs')
    <3>1. CASE order = <<>>
      BY <1>1, <2>1, <3>1 DEF TablesOK
    <3>2. CASE order # <<>>
      BY <1>1, <2>1, <3>2, LastOfOrder, PutInTable DEF TablesOK
    <3> QED BY <3>1, <3>2
  <2> QED BY <1>1, <2>1, <2>2 DEF TablesOK
<1>6. Paired => Paired'
  BY <1>1, <1>2, <1>3 DEF Paired
<1> QED BY <1>2, <1>4, <1>5, <1>6 DEF ReadIInv

\* An H line starts its cluster anew.
LEMMA HeaderKeeps == ASSUME ReadIInv, ReadHeader PROVE ReadIInv'
<1> DEFINE t == Head(todo).text
           d == t.cluster
<1>1. /\ ReadLine("H") /\ UNCHANGED <<roles, macs>>
      /\ headers' = Put(headers, d, t) /\ nodes' = Put(nodes, d, <<>>)
      /\ order' = IF d \in DOMAIN headers THEN order ELSE Append(order, d)
  BY DEF ReadHeader
<1>2. /\ todo # <<>> /\ Head(todo).kind = "H" /\ Head(todo) \in LineT
      /\ UNCHANGED <<phase, wasCut>>
      /\ FilesOK' /\ ReadingOK' /\ QueueOK'
      /\ todo' = <<>> => Head(todo).kind = "T"
      /\ todo' # <<>> => Follows(Head(todo), Head(todo'))
  BY <1>1, LineRead
<1>3. /\ todo' # <<>> /\ Head(todo').kind \in {"N", "R"} /\ Head(todo').text = t
      /\ Got(Head(todo')) = {}
  BY <1>2, LineAfter
<1>4. t \in Text /\ d \in Cluster /\ TablesOK
  BY <1>2 DEF LineT, Text, ReadIInv
<1> HIDE DEF t, d
<1>5. /\ DOMAIN headers' = DOMAIN headers \cup {d} /\ headers'[d] = t
      /\ \A c \in DOMAIN headers : c # d => headers'[c] = headers[c]
  BY <1>1 DEF Put
<1>6. /\ DOMAIN nodes' = DOMAIN nodes \cup {d} /\ nodes'[d] = <<>>
      /\ \A c \in DOMAIN nodes : c # d => nodes'[c] = nodes[c]
  BY <1>1 DEF Put
<1>7. TablesOK'
  <2>1. order' \in Seq(Cluster) /\ ToSet(order') = DOMAIN headers' /\ IsInjective(order')
    <3>1. CASE d \in DOMAIN headers
      BY <1>1, <1>4, <1>5, <3>1 DEF TablesOK
    <3>2. CASE d \notin DOMAIN headers
      BY <1>1, <1>4, <1>5, <3>2, AppendNew DEF TablesOK
    <3> QED BY <3>1, <3>2
  <2>2. IsTable(headers')
    BY <1>1, <1>4, PutInTable DEF TablesOK
  <2>3. DOMAIN nodes' = DOMAIN headers' /\ \A c \in DOMAIN nodes' : nodes'[c] \in Seq(LineT)
    <3>1. <<>> \in Seq(LineT)
      OBVIOUS
    <3>2. \A c \in DOMAIN nodes : nodes[c] \in Seq(LineT)
      BY <1>4 DEF TablesOK
    <3>3. DOMAIN nodes' = DOMAIN headers'
      BY <1>4, <1>5, <1>6 DEF TablesOK
    <3>4. \A c \in DOMAIN nodes' : nodes'[c] \in Seq(LineT)
      BY <1>6, <3>1, <3>2, Zenon
    <3> QED BY <3>3, <3>4
  <2> QED BY <1>1, <1>4, <2>1, <2>2, <2>3 DEF TablesOK
<1>8. (\A c : ~NodeNext(c)) /\ \A c : NodeNext(c)' <=> Head(todo').kind = "N" /\ c = d
  BY <1>2, <1>3 DEF NodeNext, d
<1>9. HeadKnown'
  BY <1>3, <1>5, <1>8 DEF HeadKnown
<1>10. HeaderOwnsNodes'
  BY <1>4, <1>5, <1>6 DEF HeaderOwnsNodes, ReadIInv, TablesOK
<1>11. Paired => Paired'
  BY <1>1, <1>2, <1>3 DEF Paired
<1>12. ASSUME NodesComplete PROVE NodesComplete'
  <2> SUFFICES ASSUME NEW c \in DOMAIN headers'
               PROVE  {nodes'[c][i].k : i \in DOMAIN nodes'[c]} =
                         IF NodeNext(c)' THEN Got(Head(todo')) ELSE headers'[c].lines
    BY DEF NodesComplete
  <2>1. CASE c = d
    <3>1. {nodes'[c][i].k : i \in DOMAIN nodes'[c]} = {}
      BY <1>6, <2>1
    <3>2. Head(todo').kind # "N" => Got(Head(todo')) = t.lines
      BY <1>3 DEF Got
    <3> QED BY <1>3, <1>5, <1>8, <2>1, <3>1, <3>2
  <2>2. CASE c # d
    <3>1. c \in DOMAIN headers /\ c \in DOMAIN nodes
      BY <1>4, <1>5, <2>2 DEF TablesOK
    <3>2. {nodes[c][i].k : i \in DOMAIN nodes[c]} = headers[c].lines
      BY <1>8, <1>12, <3>1 DEF NodesComplete
    <3> QED BY <1>5, <1>6, <1>8, <2>2, <3>1, <3>2
  <2> QED BY <2>1, <2>2
<1>13. AtPlace => AtPlace'
  BY <1>1, PlaceKept DEF t, d
<1> QED BY <1>2, <1>7, <1>9, <1>10, <1>11, <1>12, <1>13 DEF ReadIInv

\* An N line belongs to the header kept for its cluster.
LEMMA NodeKeeps == ASSUME ReadIInv, ReadNode PROVE ReadIInv'
<1> DEFINE x == Head(todo)
           d == x.text.cluster
           kept == nodes[d]
<1>1. ReadLine("N")
  BY DEF ReadNode
<1>2. /\ todo # <<>> /\ x.kind = "N" /\ x \in LineT
      /\ UNCHANGED <<phase, wasCut>>
      /\ FilesOK' /\ ReadingOK' /\ QueueOK'
      /\ todo' = <<>> => x.kind = "T"
      /\ todo' # <<>> => Follows(x, Head(todo'))
  BY <1>1, LineRead
<1>3. /\ todo' # <<>> /\ Head(todo').kind \in {"N", "R"} /\ Head(todo').text = x.text
      /\ Got(Head(todo')) = Got(x) \cup {x.k}
  BY <1>2, LineAfter
<1>4. /\ d \in Cluster /\ TablesOK /\ NodeNext(d)
      /\ \A c : NodeNext(c) => c = d
      /\ \A c : NodeNext(c)' <=> Head(todo').kind = "N" /\ c = d
  BY <1>2, <1>3 DEF LineT, Text, ReadIInv, NodeNext
<1>5. d \in DOMAIN headers /\ headers[d] = x.text /\ d \in DOMAIN nodes /\ kept \in Seq(LineT)
  BY <1>4 DEF ReadIInv, HeadKnown, TablesOK
<1>6. UNCHANGED <<order, headers, roles, macs>> /\ nodes' = Put(nodes, d, Append(kept, x))
  BY <1>5 DEF ReadNode
<1> HIDE DEF x, d, kept
<1>7. /\ DOMAIN nodes' = DOMAIN nodes /\ nodes'[d] = Append(kept, x)
      /\ \A c \in DOMAIN nodes : c # d => nodes'[c] = nodes[c]
  BY <1>5, <1>6 DEF Put
<1> DEFINE new == Append(kept, x)
           n == Len(kept)
<1>8. /\ n \in Nat /\ DOMAIN kept = 1 .. n /\ new \in Seq(LineT) /\ DOMAIN new = 1 .. n + 1
      /\ new[n + 1] = x /\ \A i \in 1 .. n : new[i] = kept[i]
  BY <1>2, <1>5
<1>9. \A i \in 1 .. n + 1 : i \in 1 .. n \/ i = n + 1
  BY <1>8
<1>10. n + 1 \in 1 .. n + 1 /\ \A i \in 1 .. n : i \in 1 .. n + 1
  BY <1>8
<1>a. nodes'[d] = new /\ kept = nodes[d]
  BY <1>7 DEF kept
<1> HIDE DEF new, n
<1>11. TablesOK'
  BY <1>4, <1>5, <1>6, <1>7, <1>8, <1>a DEF TablesOK
<1>12. HeadKnown'
  BY <1>3, <1>4, <1>5, <1>6 DEF HeadKnown
<1>13. HeaderOwnsNodes'
  <2> SUFFICES ASSUME NEW c \in DOMAIN headers, NEW i \in DOMAIN nodes'[c]
               PROVE  nodes'[c][i].text = headers[c]
    BY <1>6 DEF HeaderOwnsNodes
  <2>1. HeaderOwnsNodes /\ c \in DOMAIN nodes
    BY <1>4 DEF ReadIInv, TablesOK
  <2>2. CASE c # d
    BY <1>7, <2>1, <2>2 DEF HeaderOwnsNodes
  <2>3. CASE c = d
    <3>1. i \in 1 .. n => new[i].text = headers[d]
      BY <1>5, <1>8, <1>a, <2>1 DEF HeaderOwnsNodes
    <3>2. new[n + 1].text = headers[d]
      BY <1>5, <1>8
    <3> QED BY <1>8, <1>9, <1>a, <2>3, <3>1, <3>2
  <2> QED BY <2>2, <2>3
<1>14. Paired => Paired'
  BY <1>2, <1>3, <1>6 DEF Paired, x
<1>15. ASSUME NodesComplete PROVE NodesComplete'
  <2> SUFFICES ASSUME NEW c \in DOMAIN headers
               PROVE  {nodes'[c][i].k : i \in DOMAIN nodes'[c]} =
                         IF NodeNext(c)' THEN Got(Head(todo')) ELSE headers[c].lines
    BY <1>6 DEF NodesComplete
  <2>1. CASE c = d
    <3>1. {kept[i].k : i \in 1 .. n} = Got(x)
      BY <1>4, <1>5, <1>8, <1>15, <1>a DEF NodesComplete, x
    <3>2. {new[i].k : i \in 1 .. n + 1} = {kept[i].k : i \in 1 .. n} \cup {x.k}
      BY <1>8, <1>9, <1>10
    <3>3. {nodes'[c][i].k : i \in DOMAIN nodes'[c]} = Got(Head(todo'))
      BY <1>3, <1>8, <1>a, <2>1, <3>1, <3>2
    <3>4. Head(todo').kind # "N" => Got(Head(todo')) = headers[d].lines
      BY <1>3, <1>5 DEF Got
    <3> QED BY <1>4, <2>1, <3>3, <3>4
  <2>2. CASE c # d
    <3>1. {nodes[c][i].k : i \in DOMAIN nodes[c]} = headers[c].lines
      BY <1>4, <1>15, <2>2 DEF NodesComplete
    <3>2. c \in DOMAIN nodes
      BY <1>4 DEF TablesOK
    <3> QED BY <1>4, <1>7, <2>2, <3>1, <3>2
  <2> QED BY <2>1, <2>2
<1>16. AtPlace => AtPlace'
  BY <1>1, <1>6, PlaceKept
<1> QED BY <1>2, <1>11, <1>12, <1>13, <1>14, <1>15, <1>16 DEF ReadIInv

-----------------------------------------------------------------------------
\* The other steps.

LEMMA NoLines == LinesOfFiles(selected, <<>>) = <<>>
<1>1. [i \in DOMAIN <<>> |-> LinesOfLog(selected[<<>>[i]])] = <<>>
  OBVIOUS
<1> QED BY <1>1, FlattenEmpty DEF LinesOfFiles

LEMMA EmptyUnread == <<>> \in Unread
BY DEF Unread, InSequence

\* The days a run selects are days that have a log.
LEMMA StartReads == ASSUME ReadIInv, NEW days \in SUBSET Day, StartRun(days) PROVE ReadIInv'
<1>1. /\ phase = "idle" /\ phase' = "read" /\ todo' = todo /\ logs' = logs /\ wasCut' = FALSE
      /\ order' = <<>> /\ headers' = Empty /\ nodes' = Empty /\ roles' = Empty /\ macs' = Empty
      /\ queue' = InOrder(days) /\ selected' = [d \in days |-> logs[d]]
  BY DEF StartRun, directory
<1>2. todo' = <<>>
  BY <1>1 DEF ReadIInv, ReadingOK
<1>3. days \subseteq Nat /\ IsFiniteSet(days)
  BY DeduplicateAssumption, FS_Subset
<1>4. InOrder(days) \in Seq(days)
  BY <1>3, InOrderIs
<1>5. DOMAIN selected' = days /\ \A d \in days : selected'[d] = logs[d] /\ IsLog(logs[d])
  BY <1>1 DEF ReadIInv, FilesOK
<1>6. FilesOK'
  BY <1>1, <1>5 DEF ReadIInv, FilesOK
<1>7. ReadingOK'
  BY <1>1, <1>2, EmptyUnread DEF ReadingOK
<1>8. QueueOK'
  <2>1. queue' \in Seq(days) /\ \A i \in DOMAIN queue' : queue'[i] \in days
    BY <1>1, <1>4
  <2> QED BY <1>1, <1>5, <2>1 DEF QueueOK
<1>9. TablesOK'
  BY <1>1 DEF TablesOK, IsTable, Empty, IsInjective, ToSet
<1>10. \A c : ~NodeNext(c)'
  BY <1>2 DEF NodeNext
<1>11. HeadKnown' /\ HeaderOwnsNodes' /\ Paired' /\ NodesComplete'
  BY <1>1, <1>2, <1>10 DEF HeadKnown, HeaderOwnsNodes, Paired, NodesComplete, Empty
<1>12. AtPlace'
  <2> DEFINE all == LinesOfFiles(selected', InOrder(days))
  <2>1. all \in Seq(LineT)
    <3>1. \A d \in days : IsLog(selected'[d])
      BY <1>5
    <3> QED BY <1>4, <3>1, FilesAreWhole DEF Whole, Unread
  <2>2. Everything' = all
    BY <1>5 DEF Everything
  <2>3. Rest' = <<>> \o all
    BY <1>1, <1>2 DEF Rest
  <2> HIDE DEF all
  <2>4. Rest' = all
    BY <2>1, <2>3
  <2>5. Len(all) \in Nat
    BY <2>1
  <2>6. IsRest(all, all, 0)
    BY <2>5 DEF IsRest
  <2>7. HeadersOf(headers', all, 0)
    BY <1>1 DEF HeadersOf, Empty
  <2> QED BY <2>2, <2>4, <2>6, <2>7 DEF AtPlace
<1> QED BY <1>6, <1>7, <1>8, <1>9, <1>11, <1>12 DEF ReadIInv

\* A file that is still there is opened; what is left to read is the same.
LEMMA OpenReads == ASSUME ReadIInv, OpenLog PROVE ReadIInv'
<1>1. /\ phase = "read" /\ todo = <<>> /\ queue # <<>>
      /\ UNCHANGED <<logs, selected, wasCut, order, headers, nodes, roles, macs>>
  BY DEF OpenLog, directory, tables, history
<1>2. FilesOK' /\ TablesOK' /\ HeaderOwnsNodes'
  BY <1>1 DEF ReadIInv, FilesOK, TablesOK, HeaderOwnsNodes
<1>3. \A c : ~NodeNext(c)
  BY <1>1 DEF NodeNext
<1>4. CASE Exists(Head(queue))
  <2> DEFINE lines == LinesOfLog(logs[Head(queue)])
  <2>1. todo' = lines /\ queue' = Tail(queue) /\ phase' = phase
    BY <1>4 DEF OpenLog
  <2>2. queue \in Seq(DOMAIN selected) /\ Head(queue) \in DOMAIN selected
        /\ Tail(queue) \in Seq(DOMAIN selected)
        /\ \A i \in DOMAIN Tail(queue) : i + 1 \in DOMAIN queue /\ Tail(queue)[i] = queue[i + 1]
    BY <1>1 DEF ReadIInv, QueueOK
  <2>3. logs[Head(queue)] = selected[Head(queue)]
    <3>1. Head(queue) = queue[1] /\ 1 \in DOMAIN queue
      BY <1>1, <2>2
    <3> QED BY <1>4, <3>1 DEF ReadIInv, QueueOK, Exists
  <2>4. IsLog(logs[Head(queue)])
    BY <2>2, <2>3 DEF ReadIInv, FilesOK
  <2>5. lines \in Whole
    BY <2>4, LogIsWhole
  <2>6. lines = LinesOfLog(selected[Head(queue)])
    BY <2>3
  <2> HIDE DEF lines
  <2>7. todo' \in Unread /\ (todo' # <<>> => Head(todo').kind \in {"#", "H"})
    BY <2>1, <2>5 DEF Whole, Unread
  <2>8. ReadingOK'
    BY <1>1, <2>1, <2>7 DEF ReadIInv, ReadingOK
  <2>9. QueueOK'
    BY <1>1, <2>1, <2>2 DEF ReadIInv, QueueOK
  <2>10. \A c : ~NodeNext(c)'
    BY <2>7 DEF NodeNext
  <2>11. HeadKnown' /\ (Paired => Paired') /\ (NodesComplete => NodesComplete')
    BY <1>1, <1>3, <2>7, <2>10 DEF HeadKnown, Paired, NodesComplete
  <2>12. Rest' = Rest
    <3> DEFINE later == LinesOfFiles(selected, Tail(queue))
               now == LinesOfFiles(selected, queue)
    <3>1. \A d \in DOMAIN selected : IsLog(selected[d])
      BY DEF ReadIInv, FilesOK
    <3>2. now \in Seq(LineT) /\ now = lines \o later
      BY <1>1, <2>2, <2>6, <3>1, FilesAreWhole DEF Whole, Unread
    <3>3. Rest' = lines \o later /\ Rest = <<>> \o now
      BY <1>1, <2>1 DEF Rest
    <3> HIDE DEF now, later
    <3>4. <<>> \o now = now
      BY <3>2
    <3> QED BY <3>2, <3>3, <3>4
  <2>13. AtPlace => AtPlace'
    BY <1>1, <2>12 DEF AtPlace, Everything
  <2> QED BY <1>1, <1>2, <2>1, <2>8, <2>9, <2>11, <2>13 DEF ReadIInv
<1>5. CASE ~Exists(Head(queue))
  <2>1. todo' = <<>> /\ queue' = <<>> /\ phase' = "idle"
    BY <1>1, <1>5 DEF OpenLog
  <2>2. ReadingOK' /\ QueueOK' /\ HeadKnown'
    BY <2>1, EmptyUnread DEF ReadingOK, QueueOK, HeadKnown, NodeNext
  <2> QED BY <1>2, <2>1, <2>2 DEF ReadIInv
<1> QED BY <1>4, <1>5

\* What ends the reading leaves the tables.
LEMMA EndsReading ==
  ASSUME ReadIInv, todo' = <<>>, UNCHANGED <<logs, selected, order, headers, nodes, roles, macs>>,
         phase' \in {"idle", "read", "write"},
         queue' = <<>> \/ (queue' = queue /\ phase' = phase)
  PROVE  /\ FilesOK' /\ TablesOK' /\ HeaderOwnsNodes' /\ HeadKnown' /\ ReadingOK' /\ QueueOK'
<1>1. FilesOK' /\ TablesOK' /\ HeaderOwnsNodes'
  BY DEF ReadIInv, FilesOK, TablesOK, HeaderOwnsNodes
<1>2. HeadKnown'
  BY DEF HeadKnown, NodeNext
<1>3. ReadingOK'
  BY EmptyUnread DEF ReadIInv, ReadingOK
<1>4. QueueOK'
  <2>1. CASE queue' = <<>>
    <3>1. <<>> \in Seq(DOMAIN selected) /\ DOMAIN <<>> = {}
      OBVIOUS
    <3> QED BY <2>1, <3>1 DEF QueueOK
  <2>2. CASE queue' = queue
    BY <2>2 DEF ReadIInv, QueueOK
  <2> QED BY <2>1, <2>2
<1> QED BY <1>1, <1>2, <1>3, <1>4

LEMMA OutputOpened == ASSUME ReadIInv, OpenOutput PROVE ReadIInv'
<1>1. /\ phase = "read" /\ todo = <<>> /\ queue = <<>> /\ phase' = "write"
      /\ UNCHANGED <<logs, queue, todo, selected, wasCut, order, headers, nodes, roles, macs>>
  BY DEF OpenOutput, directory, tables, history
<1>2. /\ FilesOK' /\ TablesOK' /\ HeaderOwnsNodes' /\ HeadKnown' /\ ReadingOK' /\ QueueOK'
  BY <1>1, EndsReading
<1>3. (Paired => Paired') /\ (NodesComplete => NodesComplete') /\ (AtPlace => AtPlace')
  BY <1>1 DEF Paired, NodesComplete, NodeNext, AtPlace, Everything, Rest
<1> QED BY <1>1, <1>2, <1>3 DEF ReadIInv

LEMMA ReadingStops == ASSUME ReadIInv, ShortRead \/ WriteOutput \/ Kill PROVE ReadIInv'
<1>1. CASE ShortRead
  <2>1. /\ todo' = <<>> /\ wasCut' = TRUE /\ phase = "read"
        /\ UNCHANGED <<logs, phase, queue, selected, order, headers, nodes, roles, macs>>
    BY <1>1 DEF ShortRead, directory, tables
  <2>2. /\ FilesOK' /\ TablesOK' /\ HeaderOwnsNodes' /\ HeadKnown' /\ ReadingOK' /\ QueueOK'
    BY <2>1, EndsReading
  <2> QED BY <2>1, <2>2 DEF ReadIInv
<1>2. CASE WriteOutput \/ Kill
  <2>1. /\ phase' = "idle" /\ todo' = <<>> /\ queue' = <<>>
        /\ UNCHANGED <<logs, selected, order, headers, nodes, roles, macs>>
    BY <1>2 DEF WriteOutput, Kill, directory, tables, history, ReadIInv, ReadingOK
  <2>2. /\ FilesOK' /\ TablesOK' /\ HeaderOwnsNodes' /\ HeadKnown' /\ ReadingOK' /\ QueueOK'
    BY <2>1, EndsReading
  <2> QED BY <2>1, <2>2 DEF ReadIInv
<1> QED BY <1>1, <1>2

\* Whatever else happens to the files, those not opened yet stay or go.
LEMMA FilesChange ==
  ASSUME ReadIInv, UNCHANGED <<phase, queue, todo, tables, selected, wasCut>>, FilesOK',
         \A i \in DOMAIN queue : logs'[queue[i]] \in {<<>>, logs[queue[i]]}
  PROVE  ReadIInv'
<1>1. UNCHANGED <<order, headers, nodes, roles, macs>>
  BY DEF tables
<1>2. ReadingOK' /\ TablesOK' /\ HeadKnown' /\ HeaderOwnsNodes'
  BY <1>1 DEF ReadIInv, ReadingOK, TablesOK, HeadKnown, HeaderOwnsNodes, NodeNext
<1>3. QueueOK'
  BY DEF ReadIInv, QueueOK
<1>4. (Paired => Paired') /\ (NodesComplete => NodesComplete') /\ (AtPlace => AtPlace')
  BY <1>1 DEF Paired, NodesComplete, NodeNext, AtPlace, Everything, Rest
<1> QED BY <1>2, <1>3, <1>4 DEF ReadIInv

LEMMA LogRemoved == ASSUME ReadIInv, RemoveLog PROVE ReadIInv'
<1>1. PICK d \in Day : logs' = [logs EXCEPT ![d] = <<>>]
  BY DEF RemoveLog
<1>2. UNCHANGED <<phase, queue, todo, tables, selected, wasCut>>
  BY DEF RemoveLog, history
<1>3. IsLog(<<>>)
  BY DEF IsLog, ToSet
<1>4. DOMAIN logs = Day
  BY DEF ReadIInv, FilesOK
<1>5. DOMAIN logs' = Day /\ \A e \in Day : logs'[e] = IF e = d THEN <<>> ELSE logs[e]
  BY <1>1, <1>4
<1>6. FilesOK'
  BY <1>2, <1>3, <1>5 DEF ReadIInv, FilesOK
<1>7. \A i \in DOMAIN queue : logs'[queue[i]] \in {<<>>, logs[queue[i]]}
  <2> SUFFICES ASSUME NEW i \in DOMAIN queue PROVE logs'[queue[i]] \in {<<>>, logs[queue[i]]}
    OBVIOUS
  <2>1. queue[i] \in Day
    BY DEF ReadIInv, QueueOK, FilesOK
  <2> QED BY <1>5, <2>1
<1> QED BY <1>2, <1>6, <1>7, FilesChange

-----------------------------------------------------------------------------
\* The test logs are logs.

LEMMA LogsJoined == ASSUME NEW a, IsLog(a), NEW b, IsLog(b) PROVE IsLog(a \o b)
<1> DEFINE S == ToSet(a) \cup ToSet(b)
           c == a \o b
<1>1. /\ a \in Seq(ToSet(a)) /\ b \in Seq(ToSet(b))
      /\ \A i \in DOMAIN a : a[i].texts \in Seq(Text) \ {<<>>}
      /\ \A i \in DOMAIN b : b[i].texts \in Seq(Text) \ {<<>>}
  BY DEF IsLog
<1>2. a \in Seq(S) /\ b \in Seq(S)
  BY <1>1, SeqMonotonic
<1> HIDE DEF S
<1>3. /\ c \in Seq(S) /\ Len(a) \in Nat /\ Len(b) \in Nat /\ DOMAIN c = 1 .. Len(a) + Len(b)
      /\ DOMAIN a = 1 .. Len(a) /\ DOMAIN b = 1 .. Len(b)
      /\ \A i \in 1 .. Len(a) : c[i] = a[i]
  BY <1>2
<1>4. \A i \in 1 .. Len(b) : c[Len(a) + i] = b[i]
  <2> SUFFICES ASSUME NEW i \in 1 .. Len(b) PROVE c[Len(a) + i] = b[i]
    OBVIOUS
  <2> QED BY <1>2, SecondPart
<1> HIDE DEF c
<1>5. \A i \in DOMAIN c : c[i].texts \in Seq(Text) \ {<<>>}
  <2> SUFFICES ASSUME NEW i \in DOMAIN c PROVE c[i].texts \in Seq(Text) \ {<<>>}
    OBVIOUS
  <2>1. CASE i <= Len(a)
    <3>1. i \in 1 .. Len(a)
      BY <1>3, <2>1
    <3> QED BY <1>1, <1>3, <3>1
  <2>2. CASE i > Len(a)
    <3>1. i - Len(a) \in 1 .. Len(b) /\ Len(a) + (i - Len(a)) = i
      BY <1>3, <2>2
    <3> QED BY <1>1, <1>3, <1>4, <3>1
  <2> QED BY <1>3, <2>1, <2>2
<1>6. c \in Seq(ToSet(c))
  BY <1>3, OwnElements
<1> QED BY <1>5, <1>6 DEF IsLog, c

LEMMA TestTextIs ==
  ASSUME NEW c \in Cluster, NEW day \in Nat, NEW S \in SUBSET NodeLine, S # {}
  PROVE  TestText(c, day, S) \in Text
<1>1. NodeLine = 1 .. MaxNodes /\ MaxNodes \in Nat /\ IsFiniteSet(NodeLine)
      /\ Cardinality(NodeLine) = MaxNodes
  BY WireAssumption, FS_Interval DEF NodeLine
<1>2. IsFiniteSet(S) /\ Cardinality(S) <= MaxNodes /\ Cardinality(S) \in Nat
  BY <1>1, FS_Subset, FS_CardinalityType
<1>3. Cardinality(S) # 0
  BY <1>2, FS_EmptySet
<1>4. Cardinality(S) \in NodeLine
  BY <1>1, <1>2, <1>3
<1> QED BY <1>4 DEF TestText, Text

IsReport(r) == r.texts \in Seq(Text) \ {<<>>}

LEMMA TestReportIs ==
  ASSUME NEW c \in Cluster, NEW day \in Nat, NEW S \in SUBSET NodeLine, S # {}
  PROVE  IsReport(TestReport(c, day, S))
<1>1. TestText(c, day, S) \in Text
  BY TestTextIs
<1> QED BY <1>1 DEF TestReport, IsReport

LEMMA FirstNodes ==
  ASSUME NEW c \in Cluster, NEW day \in Nat, NEW n \in 1 .. 7
  PROVE  IsReport(TestReport(c, day, 1 .. n))
<1>1. 1 .. n \in SUBSET NodeLine /\ 1 .. n # {}
  BY TestLogsAssumption, WireAssumption DEF NodeLine
<1> QED BY <1>1, TestReportIs

LEMMA OneReport == ASSUME NEW r, IsReport(r) PROVE IsLog(<<r>>)
<1>1. <<r>> \in Seq({r}) /\ DOMAIN <<r>> = {1} /\ <<r>>[1] = r
  OBVIOUS
<1>2. <<r>> \in Seq(ToSet(<<r>>))
  BY <1>1, OwnElements
<1> QED BY <1>1, <1>2 DEF IsLog, IsReport

LEMMA TwoReports == ASSUME NEW r, NEW q, IsReport(r), IsReport(q) PROVE IsLog(<<r, q>>)
<1>1. <<r, q>> \in Seq({r, q}) /\ <<r, q>>[1] = r /\ <<r, q>>[2] = q
  OBVIOUS
<1>2. DOMAIN <<r, q>> = {1, 2}
  OBVIOUS
<1>3. <<r, q>> \in Seq(ToSet(<<r, q>>))
  BY <1>1, OwnElements
<1> QED BY <1>1, <1>2, <1>3 DEF IsLog, IsReport

LEMMA TestFilesAreLogs == \A d \in DOMAIN TestFiles : IsLog(TestFiles[d])
<1>1. "prod" \in Cluster /\ "stage" \in Cluster /\ "edge" \in Cluster
  BY TestLogsAssumption
<1>2. IsReport(TestReport("prod", 712, 1 .. 6)) /\ IsReport(TestReport("stage", 712, 1 .. 4))
  BY <1>1, FirstNodes
<1>3. IsReport(TestReport("prod", 713, 1 .. 5)) /\ IsReport(TestReport("stage", 713, 1 .. 4))
  BY <1>1, FirstNodes
<1>4. IsReport(TestReport("prod", 714, (1 .. 5) \cup {7}))
  <2>1. (1 .. 5) \cup {7} \in SUBSET NodeLine /\ (1 .. 5) \cup {7} # {}
    BY TestLogsAssumption, WireAssumption DEF NodeLine
  <2> QED BY <1>1, <2>1, TestReportIs
<1>5. IsReport(TestReport("edge", 714, 1 .. 3))
  BY <1>1, FirstNodes
<1>6. IsLog(TestFiles[712])
  BY <1>2, TwoReports DEF TestFiles
<1>7. IsLog(TestFiles[713])
  BY <1>3, TwoReports DEF TestFiles
<1>8. IsLog(TestFiles[714])
  BY <1>4, <1>5, TwoReports DEF TestFiles
<1>9. DOMAIN TestFiles = {712, 713, 714}
  BY DEF TestFiles
<1> QED BY <1>6, <1>7, <1>8, <1>9

LEMMA LogsByDateAreLogs == \A d \in DOMAIN LogsByDate : IsLog(LogsByDate[d])
<1> SUFFICES ASSUME NEW d \in {115, 310, 520, 714} PROVE IsLog(LogsByDate[d])
  BY DEF LogsByDate
<1> DEFINE n == IF d < 520 THEN 3 ELSE 4
<1>1. d \in Nat /\ n \in 1 .. 7 /\ "hist" \in Cluster
  BY TestLogsAssumption
<1>2. LogsByDate[d] = <<TestReport("hist", d, 1 .. n)>>
  BY ZenonT(60) DEF LogsByDate
<1> HIDE DEF n
<1>3. IsReport(TestReport("hist", d, 1 .. n))
  BY <1>1, FirstNodes, ZenonT(60)
<1> QED BY <1>2, <1>3, OneReport

LEMMA LogsWritten ==
  ASSUME ReadIInv, NEW new, WriteLogs(new), \A d \in DOMAIN new \cap Day : IsLog(new[d])
  PROVE  ReadIInv'
<1>1. /\ phase = "idle" /\ UNCHANGED <<phase, queue, todo, tables, selected, wasCut>>
      /\ logs' = [d \in Day |-> IF d \in DOMAIN new THEN new[d] ELSE logs[d]]
  BY DEF WriteLogs, history
<1>2. FilesOK'
  BY <1>1 DEF ReadIInv, FilesOK
<1>3. DOMAIN queue = {}
  <2>1. queue = <<>>
    BY <1>1 DEF ReadIInv, ReadingOK
  <2> QED BY <2>1
<1> QED BY <1>1, <1>2, <1>3, FilesChange

LEMMA TestLogsWritten ==
  ASSUME ReadIInv, GenerateTestLogs \/ GenerateHistorical PROVE ReadIInv'
<1>1. CASE GenerateTestLogs
  BY <1>1, TestFilesAreLogs, LogsWritten DEF GenerateTestLogs
<1>2. CASE GenerateHistorical
  <2> DEFINE new == [d \in DOMAIN LogsByDate |-> logs[d] \o LogsByDate[d]]
  <2>1. \A d \in DOMAIN new \cap Day : IsLog(new[d])
    <3> SUFFICES ASSUME NEW d \in DOMAIN new \cap Day PROVE IsLog(new[d])
      OBVIOUS
    <3>1. IsLog(logs[d]) /\ IsLog(LogsByDate[d])
      BY LogsByDateAreLogs DEF ReadIInv, FilesOK
    <3> QED BY <3>1, LogsJoined
  <2>2. WriteLogs(new)
    BY <1>2 DEF GenerateHistorical
  <2> HIDE DEF new
  <2> QED BY <2>1, <2>2, LogsWritten
<1> QED BY <1>1, <1>2

LEMMA OutsideReading ==
  ASSUME ReadIInv, UNCHANGED <<logs, phase, queue, todo, tables, selected, wasCut>>
  PROVE  ReadIInv'
<1>1. FilesOK'
  BY DEF ReadIInv, FilesOK
<1>2. \A i \in DOMAIN queue : logs'[queue[i]] \in {<<>>, logs[queue[i]]}
  OBVIOUS
<1> QED BY <1>1, <1>2, FilesChange

LEMMA StartKeepsReading == ASSUME ReadIInv, Start PROVE ReadIInv'
<1>1. PICK days \in SUBSET Day : Run(days)
  BY DEF Start, Newest, Window
<1>2. CASE StartRun(days)
  BY <1>2, StartReads
<1>3. CASE NothingToRead(days)
  BY <1>3, OutsideReading DEF NothingToRead, directory, history
<1> QED BY <1>1, <1>2, <1>3 DEF Run

LEMMA ReadInit == DedupInit => ReadIInv
<1> SUFFICES ASSUME DedupInit PROVE ReadIInv
  OBVIOUS
<1>1. FilesOK
  <2>1. DOMAIN selected = {}
    BY DEF DedupInit, Empty
  <2> QED BY <2>1, DeduplicateAssumption DEF DedupInit, FilesOK
<1>2. ReadingOK /\ phase = "idle"
  BY EmptyUnread DEF DedupInit, ReadingOK
<1>3. QueueOK
  <2>1. queue = <<>> /\ <<>> \in Seq(DOMAIN selected) /\ DOMAIN <<>> = {}
    BY DEF DedupInit
  <2> QED BY <2>1 DEF QueueOK
<1>4. order = <<>> /\ headers = <<>> /\ nodes = <<>> /\ roles = <<>> /\ macs = <<>>
  BY DEF DedupInit, Empty
<1>5. DOMAIN <<>> = {} /\ <<>> \in Seq(Cluster) /\ ToSet(<<>>) = {} /\ IsInjective(<<>>)
  BY DEF ToSet, IsInjective
<1>6. TablesOK /\ HeaderOwnsNodes
  BY <1>4, <1>5 DEF TablesOK, IsTable, HeaderOwnsNodes
<1>7. HeadKnown
  BY DEF DedupInit, HeadKnown, NodeNext
<1> QED BY <1>1, <1>2, <1>3, <1>6, <1>7 DEF ReadIInv

LEMMA ReadStepKeeps == ReadIInv /\ [TestedNext]_dedupVars => ReadIInv'
<1> SUFFICES ASSUME ReadIInv, [TestedNext]_dedupVars PROVE ReadIInv'
  OBVIOUS
<1>1. CASE Start
  BY <1>1, StartKeepsReading
<1>2. CASE OpenLog
  BY <1>2, OpenReads
<1>3. CASE ReadStep
  BY <1>3, CommentKeeps, HeaderKeeps, NodeKeeps, RolesKeeps, MacKeeps, ReadingStops DEF ReadStep
<1>4. CASE OpenOutput
  BY <1>4, OutputOpened
<1>5. CASE WriteOutput \/ Kill
  BY <1>5, ReadingStops
<1>6. CASE NextDay
  BY <1>6, OutsideReading DEF NextDay, directory, history
<1>7. CASE Cleanup
  <2>1. CASE RemoveLog
    BY <2>1, LogRemoved
  <2>2. CASE RemoveOutput \/ RemoveBackup
    BY <2>2, OutsideReading DEF RemoveOutput, RemoveBackup, directory, history
  <2> QED BY <1>7, <2>1, <2>2 DEF Cleanup
<1>8. CASE GenerateTestLogs \/ GenerateHistorical
  BY <1>8, TestLogsWritten
<1>9. CASE UNCHANGED dedupVars
  BY <1>9, OutsideReading DEF dedupVars, directory, history
<1> QED BY <1>1, <1>2, <1>3, <1>4, <1>5, <1>6, <1>7, <1>8, <1>9 DEF TestedNext, DedupNext

-----------------------------------------------------------------------------
\* At every step of a run of the deduplication the four dictionaries are what
\* the lines read so far make of them, and the lines still to read are the rest
\* of the files the run selected (deduplicate_telemetry.py lines 84-114).
THEOREM ReadInvariant == TestedSpec => []ReadIInv
BY ReadInit, ReadStepKeeps, PTL DEF TestedSpec

\* The deduplication's variables have their types; the keys of latest_headers
\* and of latest_nodes are the same, each listed once (deduplicate_telemetry.py
\* lines 79-107).
THEOREM DedupTypeCorrect == TestedSpec => []DedupTypeOK
<1>1. ReadIInv => DedupTypeOK
  <2> SUFFICES ASSUME ReadIInv PROVE DedupTypeOK
    OBVIOUS
  <2>1. \A d \in Day : \A i \in DOMAIN logs[d] : logs[d][i].texts \in Seq(Text)
    BY DEF ReadIInv, FilesOK, IsLog
  <2>2. queue \in Seq(Day)
    <3>1. queue \in Seq(DOMAIN selected) /\ DOMAIN selected \subseteq Day
      BY DEF ReadIInv, QueueOK, FilesOK
    <3> QED BY <3>1, SeqMonotonic
  <2>3. \A i \in DOMAIN todo : todo[i].text \in Text /\ todo[i].kind \in {"#", "H", "N", "R", "T"}
    <3>1. todo \in Seq(LineT)
      BY DEF ReadIInv, ReadingOK, Unread
    <3>2. \A i \in DOMAIN todo : todo[i] \in LineT
      BY <3>1
    <3> QED BY <3>2 DEF LineT
  <2> QED BY <2>1, <2>2, <2>3 DEF ReadIInv, ReadingOK, TablesOK, IsTable, DedupTypeOK
<1> QED BY <1>1, ReadInvariant, PTL

\* The N lines kept for a cluster are always those of the H line kept for it: an
\* H line empties the cluster's list (deduplicate_telemetry.py lines 94-107),
\* and no N line is read before the H line of its own text.
THEOREM HeadersOwnNodes == TestedSpec => []HeaderOwnsNodes
<1>1. ReadIInv => HeaderOwnsNodes
  BY DEF ReadIInv
<1> QED BY <1>1, ReadInvariant, PTL

\* When the output is written after a complete reading, the T line kept for a
\* cluster is of the same frame as its R line, although neither line names a
\* cluster (deduplicate_telemetry.py lines 108-114).
THEOREM RolesStayWithMac == TestedSpec => []RolesAndMacTogether
<1>1. ReadIInv => RolesAndMacTogether
  BY DEF ReadIInv, ReadingOK, RolesAndMacTogether, Paired
<1> QED BY <1>1, ReadInvariant, PTL

\* The code keeps the last frame of every cluster, with the N lines of that frame.
LastFrameKept ==
  /\ DOMAIN headers =
       {SelectedLines[i].text.cluster :
          i \in {j \in DOMAIN SelectedLines : SelectedLines[j].kind = "H"}}
  /\ \A i \in DOMAIN SelectedLines : IsLastHeader(SelectedLines, i) =>
       LET t == SelectedLines[i].text IN headers[t.cluster] = t /\ KeptNodes(t.cluster) = t.lines

\* When the output is written after a complete reading, it has a record of every
\* cluster of the selected files, of its latest snapshot there, with all nodes if
\* that came in one frame (deduplicate_telemetry.py lines 84-120).
THEOREM LatestSnapshotIsKept == TestedSpec => []KeepsLatestSnapshot
<1>1. ReadIInv /\ phase = "write" /\ ~wasCut => LastFrameKept
  <2> SUFFICES ASSUME ReadIInv, phase = "write", ~wasCut PROVE LastFrameKept
    OBVIOUS
  <2> DEFINE all == LinesOfFiles(selected, InOrder(DOMAIN selected))
  <2>1. todo = <<>> /\ queue = <<>> /\ NodesComplete /\ AtPlace /\ TablesOK
    BY DEF ReadIInv, ReadingOK
  <2>2. PICK n \in Nat : IsRest(Rest, all, n) /\ HeadersOf(headers, all, n)
    BY <2>1 DEF AtPlace, Everything
  <2>3. Rest = <<>>
    BY <2>1, NoLines DEF Rest
  <2>4. all \in Seq(LineT) /\ n = Len(all)
    <3>1. all \in Seq(LineT)
      <4>1. \A d \in DOMAIN selected : IsLog(selected[d])
        BY DEF ReadIInv, FilesOK
      <4>2. InOrder(DOMAIN selected) \in Seq(DOMAIN selected)
        BY DeduplicateAssumption, FS_Subset, InOrderIs DEF ReadIInv, FilesOK
      <4> QED BY <4>1, <4>2, FilesAreWhole DEF Whole, Unread
    <3> HIDE DEF all
    <3> QED BY <2>2, <2>3, <3>1 DEF IsRest
  <2> HIDE DEF all
  <2>5. DOMAIN all = 1 .. n
    BY <2>4
  <2>6. DOMAIN headers = {all[i].text.cluster : i \in {j \in DOMAIN all : all[j].kind = "H"}}
    BY <2>2, <2>5 DEF HeadersOf
  <2>7. ASSUME NEW i \in DOMAIN all, IsLastHeader(all, i)
        PROVE  LET t == all[i].text IN headers[t.cluster] = t /\ KeptNodes(t.cluster) = t.lines
    <3>1. i \in 1 .. n /\ all[i].kind = "H"
      BY <2>5, <2>7 DEF IsLastHeader
    <3>2. \A j \in i + 1 .. n : j \in DOMAIN all /\ j > i
      BY <2>5, <3>1
    <3>3. LastUpTo(all, n, i)
      BY <2>7, <3>1, <3>2 DEF LastUpTo, IsLastHeader
    <3>4. headers[all[i].text.cluster] = all[i].text
      BY <2>2, <3>1, <3>3 DEF HeadersOf
    <3>5. all[i].text.cluster \in DOMAIN headers
      BY <2>6, <3>1
    <3> QED BY <2>1, <3>4, <3>5 DEF NodesComplete, NodeNext, KeptNodes
  <2> QED BY <2>6, <2>7 DEF LastFrameKept, SelectedLines, all
<1>2. ReadIInv => KeepsLatestSnapshot
  BY <1>1 DEF LastFrameKept, KeepsLatestSnapshot
<1> QED BY <1>2, ReadInvariant, PTL
=============================================================================
