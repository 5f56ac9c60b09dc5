-------------------------- MODULE ReportingProofs --------------------------
(***************************************************************************)
(* Proofs about Allocation, Compliance and their composition, for every    *)
(* set of clusters, pools and input files, every stock and every queue.    *)
(*                                                                         *)
(* First the pool engine of the spreadsheet alone, then the evaluation:    *)
(* ComplianceIInv says what its tables and the report hold at every        *)
(* moment, also while the report is being written and after the script was *)
(* killed.  Then both together: what is imported is a sheet the first part *)
(* is about (ReportsAreAllocated), and the colours of a sheet made from a  *)
(* whole report tell its gaps (ColoursTellGap).                            *)
(*                                                                         *)
(* Then what the report has to do with the lines it was made from:         *)
(* ReadIInv says what the tables hold of the lines read so far, and from   *)
(* it follow the version and the total of every row (VersionsAreOwn,       *)
(* TotalsAreOfInput).  With what the report of a first run holds, cut off  *)
(* wherever it is, it follows what its colours tell (CutsMisleadOnlyLast). *)
(***************************************************************************)
EXTENDS Reporting, CollectionsProofs

\* What a cluster that was not covered says of its pool: it is exhausted.
Exhausted ==
  \A i \in DOMAIN colours :
    (PoolOf(i) \in Pool /\ colours[i] # "GREEN")
      => running[PoolOf(i)] > sheet.stock[PoolOf(i)]

\* And one that was covered in full, as long as no other was: it is not.
Sufficient ==
  \A p \in Pool :
    LET drawn == {i \in DOMAIN colours : PoolOf(i) = p} IN
    (drawn # {} /\ \A i \in drawn : colours[i] = "GREEN") => running[p] <= sheet.stock[p]

AllocationIInv == AllocationTypeOK /\ Exhausted /\ Sufficient /\ OldestFirst

-----------------------------------------------------------------------------
\* What a step that draws does to the colours.
LEMMA AppendColour ==
  ASSUME AllocationTypeOK, NEW c \in Colour, Len(colours) < Len(sheet.queue),
         colours' = Append(colours, c), sheet' = sheet
  PROVE  /\ colours' \in Seq(Colour)
         /\ Len(colours') <= Len(sheet.queue)
         /\ DOMAIN colours' = DOMAIN colours \cup {Len(colours) + 1}
         /\ Len(colours) + 1 \notin DOMAIN colours
         /\ \A i \in DOMAIN colours : i < Len(colours) + 1 /\ colours'[i] = colours[i]
         /\ colours'[Len(colours) + 1] = c
         /\ \A i : PoolOf(i)' = PoolOf(i)
         /\ PoolOf(Len(colours) + 1) = NextCluster.pool
BY DEF AllocationTypeOK, PoolOf, NextCluster

\* The cluster that draws next is one of the sheet's.
LEMMA NextClusterType ==
  ASSUME AllocationTypeOK, Len(colours) < Len(sheet.queue)
  PROVE  NextCluster \in [id : Id, pool : Key, cost : Nat]
<1> DEFINE Entry == [id : Id, pool : Key, cost : Nat]
           q == sheet.queue
<1>1. q \in Seq(Entry) /\ Len(colours) + 1 \in 1 .. Len(q)
  BY DEF AllocationTypeOK, Sheet
<1>2. NextCluster = q[Len(colours) + 1]
  BY DEF NextCluster
<1> HIDE DEF Entry, q
<1>3. q[Len(colours) + 1] \in Entry
  BY <1>1
<1> QED
  BY <1>2, <1>3 DEF Entry

\* The invariant holds of a sheet nothing was drawn from yet.
LEMMA AllocationInitial == AllocationInit => AllocationIInv
<1> SUFFICES ASSUME AllocationInit PROVE AllocationIInv
  OBVIOUS
<1>1. AllocationTypeOK
  BY DEF AllocationInit, AllocationTypeOK, Blank, Sheet
<1>2. DOMAIN colours = {}
  BY DEF AllocationInit
<1> QED
  BY <1>1, <1>2 DEF AllocationIInv, Exhausted, Sufficient, OldestFirst

\* The script is applied to a sheet: it starts over.
LEMMA OpenPreserves == ASSUME AllocationIInv, Open PROVE AllocationIInv'
<1>1. AllocationTypeOK'
  BY DEF AllocationTypeOK, Open
<1>2. (DOMAIN colours)' = {}
  BY DEF Open
<1> QED
  BY <1>1, <1>2 DEF AllocationIInv, Exhausted, Sufficient, OldestFirst

\* A cluster draws: its pool's total only grows, and the three colours are the
\* three places the stock can have relative to the totals before and after.
LEMMA DrawPreserves == ASSUME AllocationIInv, Draw PROVE AllocationIInv'
<1> DEFINE p == NextCluster.pool
           end == running[p] + NextCluster.cost
           c == ColourFor(running[p], end, sheet.stock[p])
           n == Len(colours) + 1
<1>1. /\ AllocationTypeOK /\ Exhausted /\ Sufficient /\ OldestFirst
      /\ Len(colours) < Len(sheet.queue) /\ p \in Pool /\ sheet' = sheet
      /\ running' = [running EXCEPT ![p] = end] /\ colours' = Append(colours, c)
  BY DEF AllocationIInv, Draw
<1>2. NextCluster.cost \in Nat
  BY <1>1, NextClusterType
<1>3. /\ running \in [Pool -> Nat] /\ sheet.stock \in [Pool -> Int]
      /\ running[p] \in Nat /\ sheet.stock[p] \in Int /\ end \in Nat /\ end >= running[p]
  BY <1>1, <1>2 DEF AllocationTypeOK, Sheet
<1>4. /\ running'[p] = end /\ \A q \in Pool : running'[q] >= running[q]
      /\ \A q \in Pool : q # p => running'[q] = running[q]
      /\ running' \in [Pool -> Nat]
  BY <1>1, <1>3
<1>5. /\ c \in Colour
      /\ c = "GREEN" <=> end <= sheet.stock[p]
      /\ running[p] > sheet.stock[p] => c = "RED"
  BY <1>3 DEF ColourFor, Colour
<1> HIDE DEF c
<1>6. /\ colours' \in Seq(Colour) /\ Len(colours') <= Len(sheet.queue)
      /\ DOMAIN colours' = DOMAIN colours \cup {n} /\ n \notin DOMAIN colours
      /\ \A i \in DOMAIN colours : i < n /\ colours'[i] = colours[i]
      /\ colours'[n] = c
      /\ \A i : PoolOf(i)' = PoolOf(i)
      /\ PoolOf(n) = p
  BY <1>1, <1>5, AppendColour
<1> HIDE DEF n, p, end
<1>7. AllocationTypeOK'
  BY <1>1, <1>4, <1>6 DEF AllocationTypeOK
<1>8. Exhausted'
  <2> SUFFICES ASSUME NEW i \in DOMAIN colours', PoolOf(i) \in Pool, colours'[i] # "GREEN"
               PROVE  running'[PoolOf(i)] > sheet.stock[PoolOf(i)]
    BY <1>1, <1>6 DEF Exhausted
  <2>1. CASE i = n
    BY <2>1, <1>3, <1>4, <1>5, <1>6
  <2>2. CASE i \in DOMAIN colours
    <3>1. running[PoolOf(i)] > sheet.stock[PoolOf(i)]
      BY <2>2, <1>1, <1>6 DEF Exhausted
    <3> QED
      BY <3>1, <1>3, <1>4
  <2> QED
    BY <2>1, <2>2, <1>6
<1>9. Sufficient'
  <2> SUFFICES ASSUME NEW q \in Pool,
                      NEW k \in DOMAIN colours', PoolOf(k) = q,
                      \A i \in DOMAIN colours' : PoolOf(i) = q => colours'[i] = "GREEN"
               PROVE  running'[q] <= sheet.stock[q]
    BY <1>1, <1>6 DEF Sufficient
  <2>1. CASE q = p
    BY <2>1, <1>4, <1>5, <1>6
  <2>2. CASE q # p
    <3>1. k \in DOMAIN colours
      BY <2>2, <1>6
    <3>2. \A i \in DOMAIN colours : PoolOf(i) = q => colours[i] = "GREEN"
      BY <1>6
    <3> QED
      BY <3>1, <3>2, <2>2, <1>1, <1>4 DEF Sufficient
  <2> QED
    BY <2>1, <2>2
<1>10. OldestFirst'
  <2> SUFFICES ASSUME NEW i \in DOMAIN colours', NEW j \in DOMAIN colours',
                      i < j, PoolOf(i) = PoolOf(j), PoolOf(i) \in Pool, colours'[i] # "GREEN"
               PROVE  colours'[j] = "RED"
    BY <1>6 DEF OldestFirst
  <2>1. i \in DOMAIN colours
    <3> SUFFICES ASSUME i = n PROVE FALSE
      BY <1>6
    <3>1. j = n \/ j < n
      BY <1>6
    <3> QED
      BY <3>1, <1>1 DEF n, AllocationTypeOK
  <2>2. CASE j = n
    BY <2>1, <2>2, <1>1, <1>5, <1>6 DEF Exhausted
  <2>3. CASE j \in DOMAIN colours
    BY <2>1, <2>3, <1>1, <1>6 DEF OldestFirst
  <2> QED
    BY <2>2, <2>3, <1>6
<1> QED
  BY <1>7, <1>8, <1>9, <1>10 DEF AllocationIInv

\* A cluster whose key no pool has becomes RED and takes nothing.
LEMMA NowherePreserves == ASSUME AllocationIInv, DrawFromNowhere PROVE AllocationIInv'
<1> DEFINE n == Len(colours) + 1
<1>1. /\ AllocationTypeOK /\ Exhausted /\ Sufficient /\ OldestFirst
      /\ Len(colours) < Len(sheet.queue) /\ NextCluster.pool \notin Pool
      /\ sheet' = sheet /\ running' = running /\ colours' = Append(colours, "RED")
  BY DEF AllocationIInv, DrawFromNowhere
<1>2. /\ colours' \in Seq(Colour) /\ Len(colours') <= Len(sheet.queue)
      /\ DOMAIN colours' = DOMAIN colours \cup {n} /\ n \notin DOMAIN colours
      /\ \A i \in DOMAIN colours : i < n /\ colours'[i] = colours[i]
      /\ \A i : PoolOf(i)' = PoolOf(i)
      /\ PoolOf(n) \notin Pool
  BY <1>1, AppendColour DEF Colour
<1> HIDE DEF n
<1>3. AllocationTypeOK'
  BY <1>1, <1>2 DEF AllocationTypeOK
<1>4. Exhausted'
  BY <1>1, <1>2 DEF Exhausted
<1>5. Sufficient'
  <2> SUFFICES ASSUME NEW q \in Pool,
                      NEW k \in DOMAIN colours', PoolOf(k) = q,
                      \A i \in DOMAIN colours' : PoolOf(i) = q => colours'[i] = "GREEN"
               PROVE  running[q] <= sheet.stock[q]
    BY <1>1, <1>2 DEF Sufficient
  <2>1. k \in DOMAIN colours /\ \A i \in DOMAIN colours : PoolOf(i) = q => colours[i] = "GREEN"
    BY <1>2
  <2> QED
    BY <2>1, <1>1 DEF Sufficient
<1>6. OldestFirst'
  BY <1>1, <1>2 DEF OldestFirst
<1> QED
  BY <1>3, <1>4, <1>5, <1>6 DEF AllocationIInv

LEMMA AllocationInductive ==
  AllocationIInv /\ [AllocationNext]_allocationVars => AllocationIInv'
<1> SUFFICES ASSUME AllocationIInv, [AllocationNext]_allocationVars PROVE AllocationIInv'
  OBVIOUS
<1>1. CASE Open
  BY <1>1, OpenPreserves
<1>2. CASE Draw
  BY <1>2, DrawPreserves
<1>3. CASE DrawFromNowhere
  BY <1>3, NowherePreserves
<1>4. CASE UNCHANGED allocationVars
  BY <1>4 DEF AllocationIInv, AllocationTypeOK, Exhausted, Sufficient, OldestFirst, PoolOf,
              allocationVars
<1> QED
  BY <1>1, <1>2, <1>3, <1>4 DEF AllocationNext

\* First in, first out: however the pools are filled and whatever the clusters
\* need, none is served before an older one of its pool that was not covered.
THEOREM AllocationIsFifo == AllocationSpec => []OldestFirst
<1>1. AllocationIInv => OldestFirst
  BY DEF AllocationIInv
<1> QED
  BY <1>1, AllocationInitial, AllocationInductive, PTL DEF AllocationSpec

\* The colours are the gap: a pool's clusters are all GREEN exactly if what they
\* need together is there.
THEOREM ColoursTellTheGap == AllocationSpec => []GreenIffCovered
<1>1. AllocationIInv => GreenIffCovered
  <2> SUFFICES ASSUME AllocationIInv, NEW p \in Pool,
                      NEW k \in DOMAIN colours, PoolOf(k) = p
               PROVE  (\A i \in {j \in DOMAIN colours : PoolOf(j) = p} : colours[i] = "GREEN")
                        <=> running[p] <= sheet.stock[p]
    BY DEF GreenIffCovered
  <2>1. running[p] \in Nat /\ sheet.stock[p] \in Int
    BY DEF AllocationIInv, AllocationTypeOK, Sheet
  <2>2. ASSUME \A i \in {j \in DOMAIN colours : PoolOf(j) = p} : colours[i] = "GREEN"
        PROVE  running[p] <= sheet.stock[p]
    BY <2>2 DEF AllocationIInv, Sufficient
  <2>3. ASSUME running[p] <= sheet.stock[p],
               NEW i \in {j \in DOMAIN colours : PoolOf(j) = p}
        PROVE  colours[i] = "GREEN"
    BY <2>1, <2>3 DEF AllocationIInv, Exhausted
  <2> QED
    BY <2>2, <2>3
<1> QED
  BY <1>1, AllocationInitial, AllocationInductive, PTL DEF AllocationSpec

\* What runningTotals holds: what the clusters of the pool coloured so far need.
Costs == [i \in DOMAIN sheet.queue |-> sheet.queue[i].cost]
DrawnBy(p) == {i \in DOMAIN colours : PoolOf(i) = p}
Drawn == \A p \in Pool : running[p] = SumOver(Costs, DrawnBy(p))

LEMMA CostsAre ==
  ASSUME AllocationTypeOK
  PROVE  /\ \A i \in DOMAIN colours : i \in DOMAIN sheet.queue /\ Costs[i] \in Nat
         /\ \A p : IsFiniteSet(DrawnBy(p)) /\ \A i \in DrawnBy(p) : Costs[i] \in Nat
<1> DEFINE Entry == [id : Id, pool : Key, cost : Nat]
           q == sheet.queue
<1>1. q \in Seq(Entry) /\ colours \in Seq(Colour) /\ Len(colours) <= Len(q)
  BY DEF AllocationTypeOK, Sheet
<1> HIDE DEF Entry, q
<1>2. DOMAIN colours \subseteq DOMAIN q /\ \A i \in DOMAIN q : q[i] \in Entry
  BY <1>1
<1>3. \A i \in DOMAIN colours : i \in DOMAIN q /\ Costs[i] \in Nat
  BY <1>2 DEF Costs, Entry, q
<1>4. IsFiniteSet(DOMAIN colours)
  <2>1. DOMAIN colours = 1 .. Len(colours) /\ Len(colours) \in Nat
    BY <1>1
  <2> QED BY <2>1, FS_Interval
<1>5. \A p : DrawnBy(p) \in SUBSET DOMAIN colours
  BY DEF DrawnBy
<1> QED BY <1>3, <1>4, <1>5, FS_Subset DEF q

\* A sheet nothing was drawn from.
LEMMA NothingDrawn == ASSUME colours = <<>>, running = [p \in Pool |-> 0] PROVE Drawn
<1>1. \A p : DrawnBy(p) = {}
  BY DEF DrawnBy
<1> QED BY <1>1, SumEmpty DEF Drawn

LEMMA DrawAdds == ASSUME AllocationIInv, Drawn, Draw PROVE Drawn'
<1> DEFINE p == NextCluster.pool
           n == Len(colours) + 1
<1>1. /\ AllocationTypeOK /\ Len(colours) < Len(sheet.queue) /\ p \in Pool /\ sheet' = sheet
      /\ running' = [running EXCEPT ![p] = running[p] + NextCluster.cost]
      /\ \E c \in Colour : colours' = Append(colours, c)
  <2>1. \A x, y, z : ColourFor(x, y, z) \in Colour
    BY DEF ColourFor, Colour
  <2> QED BY <2>1 DEF AllocationIInv, Draw
<1>2. /\ DOMAIN colours' = DOMAIN colours \cup {n} /\ n \notin DOMAIN colours
      /\ \A i : PoolOf(i)' = PoolOf(i)
      /\ PoolOf(n) = p
  BY <1>1, AppendColour
<1>3. AllocationTypeOK'
  BY DrawPreserves DEF AllocationIInv
<1>4. Costs' = Costs
  BY <1>1 DEF Costs
<1>5. n \in DOMAIN sheet.queue /\ Costs[n] = NextCluster.cost /\ NextCluster.cost \in Nat
  <2>1. n \in DOMAIN sheet.queue
    BY <1>1, <1>2, <1>3, CostsAre DEF AllocationTypeOK, Sheet
  <2>2. NextCluster.cost \in Nat
    BY <1>1, NextClusterType
  <2> QED BY <2>1, <2>2 DEF Costs, NextCluster
<1>6. \A q : DrawnBy(q)' = IF q = p THEN DrawnBy(q) \cup {n} ELSE DrawnBy(q)
  BY <1>2 DEF DrawnBy
<1> SUFFICES ASSUME NEW q \in Pool PROVE running'[q] = SumOver(Costs, DrawnBy(q)')
  BY <1>4 DEF Drawn
<1>7. running[q] = SumOver(Costs, DrawnBy(q)) /\ running[q] \in Nat
  BY <1>1 DEF Drawn, AllocationTypeOK
<1>8. running \in [Pool -> Nat]
  BY <1>1 DEF AllocationTypeOK
<1> HIDE DEF n, p
<1>9. CASE q = p
  <2>1. n \notin DrawnBy(p) /\ (DrawnBy(p) \cup {n}) \ {n} = DrawnBy(p) /\ n \in DrawnBy(p) \cup {n}
    BY <1>2 DEF DrawnBy
  <2>2. /\ IsFiniteSet(DrawnBy(p) \cup {n})
        /\ \A i \in DrawnBy(p) \cup {n} : Costs[i] \in Nat
    <3>1. IsFiniteSet(DrawnBy(p)) /\ \A i \in DrawnBy(p) : Costs[i] \in Nat
      BY <1>1, CostsAre
    <3>2. IsFiniteSet(DrawnBy(p) \cup {n})
      BY <3>1, FS_AddElement
    <3> QED BY <1>5, <3>1, <3>2
  <2>3. SumOver(Costs, DrawnBy(p) \cup {n})
          = Costs[n] + SumOver(Costs, (DrawnBy(p) \cup {n}) \ {n})
    BY <2>1, <2>2, SumWithout
  <2>4. SumOver(Costs, DrawnBy(p) \cup {n}) = NextCluster.cost + SumOver(Costs, DrawnBy(p))
    BY <1>5, <2>1, <2>3
  <2>5. running'[p] = running[p] + NextCluster.cost
    BY <1>1, <1>8, <1>9
  <2>6. DrawnBy(q)' = DrawnBy(p) \cup {n} /\ running[p] = SumOver(Costs, DrawnBy(p)) /\ running[p] \in Nat
    BY <1>6, <1>7, <1>9, Zenon
  <2>7. running'[p] = SumOver(Costs, DrawnBy(p) \cup {n})
    BY <1>5, <2>4, <2>5, <2>6
  <2> QED BY <1>9, <2>6, <2>7, Zenon
<1>10. CASE q # p
  BY <1>1, <1>6, <1>7, <1>8, <1>10
<1> QED BY <1>9, <1>10

LEMMA NowhereAdds == ASSUME AllocationIInv, Drawn, DrawFromNowhere PROVE Drawn'
<1>1. /\ AllocationTypeOK /\ Len(colours) < Len(sheet.queue) /\ NextCluster.pool \notin Pool
      /\ sheet' = sheet /\ running' = running /\ colours' = Append(colours, "RED") /\ "RED" \in Colour
  BY DEF AllocationIInv, DrawFromNowhere, Colour
<1>2. /\ DOMAIN colours' = DOMAIN colours \cup {Len(colours) + 1}
      /\ \A i : PoolOf(i)' = PoolOf(i)
      /\ PoolOf(Len(colours) + 1) \notin Pool
  BY <1>1, AppendColour
<1>3. Costs' = Costs /\ \A p \in Pool : DrawnBy(p)' = DrawnBy(p)
  BY <1>1, <1>2 DEF Costs, DrawnBy
<1> QED BY <1>1, <1>3 DEF Drawn

\* runningTotals are the sums they stand for, of every pool, in every sheet.
THEOREM TotalsAreDrawn == AllocationSpec => []Drawn
<1>1. AllocationInit => Drawn
  BY NothingDrawn DEF AllocationInit
<1>2. ASSUME AllocationIInv, Drawn, [AllocationNext]_allocationVars PROVE Drawn'
  <2>1. CASE Open
    <3>1. colours' = <<>> /\ running' = [p \in Pool |-> 0]
      BY <2>1 DEF Open
    <3>2. \A p : DrawnBy(p)' = {}
      BY <3>1 DEF DrawnBy
    <3> QED BY <3>1, <3>2, SumEmpty DEF Drawn
  <2>2. CASE UNCHANGED allocationVars
    BY <1>2, <2>2 DEF Drawn, Costs, DrawnBy, PoolOf, allocationVars
  <2> QED BY <1>2, <2>1, <2>2, DrawAdds, NowhereAdds DEF AllocationNext
<1> QED BY <1>1, <1>2, AllocationInitial, AllocationInductive, PTL DEF AllocationSpec

\* What a cluster's colour tells: GREEN exactly if its pool holds what it and the
\* clusters of that pool before it need together.
DrawnUpTo(i) == {j \in 1 .. i : PoolOf(j) = PoolOf(i)}
Covered(i) == SumOver(Costs, DrawnUpTo(i)) <= sheet.stock[PoolOf(i)]
GreenIsCovered ==
  \A i \in DOMAIN colours : colours[i] = "GREEN" <=> (PoolOf(i) \in Pool /\ Covered(i))

\* Colouring one cluster more leaves what earlier colours tell.
LEMMA StillCovered ==
  ASSUME AllocationTypeOK, GreenIsCovered, NEW c \in Colour, Len(colours) < Len(sheet.queue),
         colours' = Append(colours, c), sheet' = sheet,
         c = "GREEN" <=> (NextCluster.pool \in Pool /\ Covered(Len(colours) + 1))
  PROVE  GreenIsCovered'
<1> DEFINE n == Len(colours) + 1
<1>1. /\ DOMAIN colours' = DOMAIN colours \cup {n}
      /\ \A i \in DOMAIN colours : colours'[i] = colours[i]
      /\ colours'[n] = c /\ PoolOf(n) = NextCluster.pool
      /\ \A i : PoolOf(i)' = PoolOf(i)
  BY AppendColour
<1>2. n \notin DOMAIN colours
  BY AppendColour
<1>3. Costs' = Costs
  BY DEF Costs
<1>4. \A i : DrawnUpTo(i)' = DrawnUpTo(i)
  BY <1>1 DEF DrawnUpTo
<1>5. \A i : Covered(i)' = Covered(i)
  BY <1>1, <1>3, <1>4 DEF Covered
<1> HIDE DEF n
<1> SUFFICES ASSUME NEW i \in DOMAIN colours'
             PROVE  colours'[i] = "GREEN" <=> (PoolOf(i) \in Pool /\ Covered(i))
  BY <1>1, <1>5 DEF GreenIsCovered
<1>6. CASE i = n
  BY <1>1, <1>6 DEF n
<1>7. CASE i \in DOMAIN colours
  BY <1>1, <1>7 DEF GreenIsCovered
<1> QED BY <1>1, <1>6, <1>7

LEMMA DrawColours ==
  ASSUME AllocationIInv, Drawn, GreenIsCovered, Draw
  PROVE  GreenIsCovered'
<1> DEFINE p == NextCluster.pool
           n == Len(colours) + 1
           c == ColourFor(running[p], running[p] + NextCluster.cost, sheet.stock[p])
<1>1. /\ AllocationTypeOK /\ Len(colours) < Len(sheet.queue) /\ p \in Pool /\ sheet' = sheet
      /\ running' = [running EXCEPT ![p] = running[p] + NextCluster.cost]
      /\ colours' = Append(colours, c)
  BY DEF AllocationIInv, Draw
<1>2. c \in Colour /\ (c = "GREEN" <=> running[p] + NextCluster.cost <= sheet.stock[p])
  BY DEF ColourFor, Colour
<1>3. NextCluster.cost \in Nat
  BY <1>1, NextClusterType
<1>4. running'[p] = running[p] + NextCluster.cost
  BY <1>1 DEF AllocationTypeOK
<1> HIDE DEF c
<1>5. /\ DOMAIN colours' = DOMAIN colours \cup {n} /\ DOMAIN colours = 1 .. Len(colours)
      /\ \A i : PoolOf(i)' = PoolOf(i)
      /\ PoolOf(n) = p
  BY <1>1, <1>2, AppendColour DEF AllocationTypeOK
<1>6. Drawn'
  BY DrawAdds
<1>7. \A q : DrawnBy(q)' = {j \in 1 .. n : PoolOf(j) = q}
  <2>1. DOMAIN colours' = 1 .. n
    BY <1>1, <1>5 DEF AllocationTypeOK
  <2> QED BY <1>5, <2>1 DEF DrawnBy
<1>8. Costs' = Costs
  BY <1>1 DEF Costs
<1>9. running'[p] = SumOver(Costs, DrawnUpTo(n))
  <2>1. \A q \in Pool : running'[q] = SumOver(Costs, {j \in 1 .. n : PoolOf(j) = q})
    BY <1>6, <1>7, <1>8 DEF Drawn
  <2> QED BY <1>1, <1>5, <2>1 DEF DrawnUpTo
<1>10. c = "GREEN" <=> (p \in Pool /\ Covered(n))
  BY <1>1, <1>2, <1>4, <1>5, <1>9 DEF Covered
<1> QED BY <1>1, <1>2, <1>10, StillCovered

\* Of every sheet, the colour of a cluster is GREEN exactly if the stock of its
\* pool covers it and all older ones of that pool.
THEOREM GreenMeansCovered == AllocationSpec => []GreenIsCovered
<1>1. AllocationInit => GreenIsCovered
  BY DEF AllocationInit, GreenIsCovered
<1>2. ASSUME AllocationIInv, Drawn, GreenIsCovered, [AllocationNext]_allocationVars
      PROVE  GreenIsCovered'
  <2>1. CASE Open
    BY <2>1 DEF Open, GreenIsCovered
  <2>2. CASE UNCHANGED allocationVars
    BY <1>2, <2>2 DEF GreenIsCovered, Covered, DrawnUpTo, Costs, PoolOf, allocationVars
  <2>3. CASE DrawFromNowhere
    <3>1. AllocationTypeOK /\ colours' = Append(colours, "RED") /\ sheet' = sheet /\ "RED" \in Colour
          /\ NextCluster.pool \notin Pool /\ Len(colours) < Len(sheet.queue)
      BY <1>2, <2>3 DEF AllocationIInv, DrawFromNowhere, Colour
    <3> QED BY <1>2, <3>1, StillCovered
  <2>4. CASE Draw
    BY <1>2, <2>4, DrawColours
  <2> QED BY <1>2, <2>1, <2>2, <2>3, <2>4 DEF AllocationNext
<1> QED BY <1>1, <1>2, AllocationInitial, AllocationInductive, TotalsAreDrawn, PTL DEF AllocationSpec

-----------------------------------------------------------------------------
\* Compliance: what the input holds.

InputLines == ToSet(case.input)
HeadersKept == {HeaderOf(l) : l \in {m \in InputLines : m.kind = "H"}}
NodesKept == {l \in InputLines : l.kind = "N"}
Versions == {l.version : l \in {m \in InputLines : m.kind = "R"}} \cup {"4.20"}

TermsOf(version) ==
  {t \in Term : EvaluateTerm(LoadLifecycle, MajorMinor(version), t, case.range)}

\* What a report may contain.  A torn row may have no architecture.
Archs == {"AMD64", "s390x", ""}
Row ==
  {r \in [cluster : Cluster, support : {h.support : h \in HeadersKept}, installed : Int,
          arch : Archs, version : Versions, cores : Nat, vcpus : Nat,
          phys : Nat, virt : Nat, terms : SUBSET Term] :
     r.terms = TermsOf(r.version)}
\* A row of the tables as they are.
OwnRow ==
  {r \in Row : /\ r.cluster \in DOMAIN headers /\ r.support = headers[r.cluster].support
               /\ r.version = VersionOf(r.cluster)}
Total == [cores : Nat, vcpus : Nat, base : Nat, term : [Term -> Nat]]
Balance == [base : Int, term : [Term -> Int]]
Report == [rows : Seq(Row), tornRow : Seq(Row), totals : Seq(Total),
           available : Seq(Balance), tornStock : Seq(Balance), gaps : Seq(Balance)]

TablesOK ==
  /\ order \in Seq(Cluster) /\ ToSet(order) = DOMAIN headers /\ IsInjective(order)
  /\ DOMAIN headers \subseteq Cluster
  /\ DOMAIN nodes = DOMAIN headers /\ DOMAIN versions \subseteq DOMAIN headers
  /\ \A c \in DOMAIN headers : headers[c] \in HeadersKept /\ nodes[c] \in Seq(NodesKept)
  /\ \A c \in DOMAIN versions : versions[c] \in Versions

ComplianceIInv ==
  /\ case \in Cases /\ phase \in {"idle", "read", "write"}
  /\ todo \in Seq(InputLines)
  /\ TablesOK
  /\ output \in {NoFile} \cup Report
  /\ phase = "write" => output # NoFile
  /\ runs \in 0 .. MaxRuns /\ kills \in 0 .. MaxKills

-----------------------------------------------------------------------------
LEMMA CaseIs ==
  ASSUME case \in Cases
  PROVE  /\ IsCase(case) /\ case.input \in Seq(InputLines) /\ case.cut \in 0 .. Len(case.input)
         /\ \A l \in InputLines : IsLine(l)
<1>1. IsCase(case)
  BY ComplianceAssumption
<1> QED BY <1>1 DEF IsCase, InputLines

LEMMA HeaderIs ==
  ASSUME case \in Cases, NEW h \in HeadersKept
  PROVE  h.installed \in Int
<1>1. PICK l \in InputLines : l.kind = "H" /\ h = HeaderOf(l)
  BY DEF HeadersKept
<1>2. IsLine(l)
  BY CaseIs
<1>3. l.layout = "superseded" \/ l.installed \in Int
  BY <1>1, <1>2 DEF IsLine
<1>4. CASE l.layout = "superseded"
  <2>1. h = [count |-> l.count, support |-> l.version, platform |-> "a date", installed |-> 0]
    BY <1>1, <1>4, Zenon DEF HeaderOf
  <2>2. h.installed = 0
    BY <2>1, Zenon
  <2> QED BY <2>2
<1>5. CASE l.layout # "superseded"
  <2>1. h = [count |-> l.count, support |-> l.support, platform |-> CleanVal(l.platform),
             installed |-> l.installed]
    BY <1>1, <1>5, Zenon DEF HeaderOf
  <2> QED BY <1>3, <1>5, <2>1
<1> QED BY <1>4, <1>5

LEMMA RowIs ==
  ASSUME case \in Cases, TablesOK, NEW c \in DOMAIN headers, NEW n \in NodesKept
  PROVE  RowOf(c, n) \in OwnRow
<1> DEFINE h == headers[c]
           arch == ArchGroup(n)
           physical == h.platform = "baremetal" \/ arch = "s390x"
<1>1. c \in Cluster /\ h \in HeadersKept /\ h.installed \in Int
  BY HeaderIs DEF TablesOK
<1>2. n.cpu \in Nat
  BY CaseIs DEF NodesKept, IsLine
<1>3. VersionOf(c) \in Versions
  BY DEF VersionOf, TablesOK, Versions
<1>4. arch \in {"AMD64", "s390x"} /\ arch \in Archs /\ physical \in BOOLEAN
  BY DEF ArchGroup, Archs
<1>5. \A x \in Nat : CeilDiv(x, 2) \in Nat /\ CeilDiv(x, 4) \in Nat
  BY DEF CeilDiv
<1>6. /\ SubPhysical(arch, physical, n.cpu) \in Nat /\ SubVirtual(physical, n.cpu) \in Nat
      /\ (IF physical THEN n.cpu ELSE 0) \in Nat /\ (IF physical THEN 0 ELSE n.cpu) \in Nat
  BY <1>2, <1>4, <1>5 DEF SubPhysical, SubVirtual
<1>7. TermsOf(VersionOf(c)) \in SUBSET Term
  BY DEF TermsOf
<1>8. RowOf(c, n) = [cluster |-> c, support |-> h.support, installed |-> h.installed, arch |-> arch,
       version |-> VersionOf(c),
       cores |-> IF physical THEN n.cpu ELSE 0,
       vcpus |-> IF physical THEN 0 ELSE n.cpu,
       phys |-> SubPhysical(arch, physical, n.cpu),
       virt |-> SubVirtual(physical, n.cpu),
       terms |-> TermsOf(VersionOf(c))]
  BY DEF RowOf, TermsOf
<1> HIDE DEF h, arch, physical
<1>9. RowOf(c, n) \in Row
  BY <1>1, <1>3, <1>4, <1>6, <1>7, <1>8 DEF Row
<1>10. /\ RowOf(c, n).cluster = c /\ RowOf(c, n).support = headers[c].support
       /\ RowOf(c, n).version = VersionOf(c)
  BY <1>8 DEF h
<1> QED BY <1>9, <1>10 DEF OwnRow

LEMMA RowsOfIs ==
  ASSUME case \in Cases, TablesOK, NEW c \in DOMAIN headers
  PROVE  RowsOf(c) \in Seq(OwnRow)
<1> DEFINE billed == {i \in DOMAIN nodes[c] : ~Exempt(headers[c].count, nodes[c][i])}
<1>1. nodes[c] \in Seq(NodesKept)
  BY DEF TablesOK
<1>2. billed \in SUBSET (1 .. Len(nodes[c])) /\ Len(nodes[c]) \in Nat
  BY <1>1
<1>3. billed \subseteq Nat /\ IsFiniteSet(billed)
  <2> HIDE DEF billed
  <2>1. IsFiniteSet(1 .. Len(nodes[c]))
    BY <1>2, FS_Interval
  <2>2. billed \subseteq Nat
    BY <1>2
  <2> QED BY <1>2, <2>1, <2>2, FS_Subset, Zenon
<1>4. \A i \in billed : nodes[c][i] \in NodesKept
  BY <1>1
<1>5. RowsOf(c) = [k \in 1 .. Cardinality(billed) |-> RowOf(c, nodes[c][InOrder(billed)[k]])]
  BY DEF RowsOf
<1> HIDE DEF billed
<1>6. Cardinality(billed) \in Nat /\ \A k \in 1 .. Cardinality(billed) : InOrder(billed)[k] \in billed
  BY <1>3, InOrderIs
<1>7. \A k \in 1 .. Cardinality(billed) : RowOf(c, nodes[c][InOrder(billed)[k]]) \in OwnRow
  BY <1>4, <1>6, RowIs
<1> QED BY <1>5, <1>6, <1>7

LEMMA KeysAre ==
  ASSUME TablesOK
  PROVE  DOMAIN headers \subseteq Nat /\ IsFiniteSet(DOMAIN headers)
<1>1. Len(order) \in Nat /\ DOMAIN order = 1 .. Len(order)
  BY DEF TablesOK
<1>2. order \in Surjection(DOMAIN order, DOMAIN headers)
  BY DEF TablesOK, ToSet, Surjection
<1>3. IsFiniteSet(DOMAIN headers)
  <2>1. IsFiniteSet(DOMAIN order)
    BY <1>1, FS_Interval
  <2> QED BY <1>2, <2>1, FS_Surjection
<1> QED BY <1>3, ComplianceAssumption DEF TablesOK

LEMMA RowsAre ==
  ASSUME case \in Cases, TablesOK
  PROVE  Rows \in Seq(OwnRow) /\ Rows \in Seq(Row)
<1> DEFINE ids == InOrder(DOMAIN headers)
           parts == [i \in DOMAIN ids |-> RowsOf(ids[i])]
<1>1. /\ Cardinality(DOMAIN headers) \in Nat /\ DOMAIN ids = 1 .. Cardinality(DOMAIN headers)
      /\ \A i \in DOMAIN ids : ids[i] \in DOMAIN headers
  BY KeysAre, InOrderIs
<1> HIDE DEF ids
<1>2. \A i \in DOMAIN ids : RowsOf(ids[i]) \in Seq(OwnRow)
  BY <1>1, RowsOfIs
<1>3. parts \in Seq(Seq(OwnRow))
  BY <1>1, <1>2
<1>4. <<>> \in Seq(OwnRow) /\ \A x, y \in Seq(OwnRow) : x \o y \in Seq(OwnRow)
  OBVIOUS
<1>5. FlattenSeq(parts) \in Seq(OwnRow)
  BY <1>3, <1>4, FlattenIn
<1>6. OwnRow \subseteq Row
  BY DEF OwnRow
<1> QED BY <1>5, <1>6 DEF Rows, ids

-----------------------------------------------------------------------------
\* What the totals, what is available and the gaps are.

LEMMA NeededIs ==
  ASSUME NEW rows \in Seq(Row), NEW S \in SUBSET DOMAIN rows
  PROVE  /\ SumOf(rows, "cores", S) \in Nat /\ SumOf(rows, "vcpus", S) \in Nat
         /\ Needed(rows, S) \in Nat
<1>1. IsFiniteSet(S)
  <2>1. DOMAIN rows = 1 .. Len(rows) /\ Len(rows) \in Nat
    OBVIOUS
  <2>2. IsFiniteSet(DOMAIN rows)
    BY <2>1, FS_Interval
  <2> QED BY <2>2, FS_Subset, Zenon
<1>2. ASSUME NEW i \in S
      PROVE  /\ rows[i]["cores"] \in Nat /\ rows[i]["vcpus"] \in Nat
             /\ rows[i]["phys"] \in Nat /\ rows[i]["virt"] \in Nat
  <2>1. rows[i] \in Row
    OBVIOUS
  <2> QED BY <2>1 DEF Row
<1>3. ASSUME NEW f, \A i \in S : rows[i][f] \in Nat
      PROVE  SumOf(rows, f, S) \in Nat
  <2> DEFINE values == [i \in S |-> rows[i][f]]
  <2>1. \A i \in S : values[i] \in Nat
    BY <1>3
  <2> HIDE DEF values
  <2>2. SumOver(values, S) \in Nat
    BY <1>1, <2>1, SumIsNat
  <2> QED BY <2>2 DEF values, SumOf
<1> QED BY <1>2, <1>3 DEF Needed

LEMMA TotalIs == ASSUME NEW rows \in Seq(Row), NEW g PROVE TotalOf(rows, g) \in Total
<1> DEFINE mine == {i \in DOMAIN rows : rows[i].arch = g.arch /\ rows[i].support = g.support}
<1>1. mine \in SUBSET DOMAIN rows /\ \A t : {i \in mine : t \in rows[i].terms} \in SUBSET DOMAIN rows
  OBVIOUS
<1> HIDE DEF mine
<1>2. /\ SumOf(rows, "cores", mine) \in Nat /\ SumOf(rows, "vcpus", mine) \in Nat
      /\ Needed(rows, mine) \in Nat
      /\ \A t : Needed(rows, {i \in mine : t \in rows[i].terms}) \in Nat
  BY <1>1, NeededIs
<1>3. TotalOf(rows, g)
        = [cores |-> SumOf(rows, "cores", mine), vcpus |-> SumOf(rows, "vcpus", mine),
           base |-> Needed(rows, mine),
           term |-> [t \in Term |-> Needed(rows, {i \in mine : t \in rows[i].terms})]]
  BY DEF TotalOf, mine
<1>4. [t \in Term |-> Needed(rows, {i \in mine : t \in rows[i].terms})] \in [Term -> Nat]
  BY <1>2
<1> QED BY <1>2, <1>3, <1>4 DEF Total

LEMMA SubscriptionsAre ==
  ASSUME case \in Cases
  PROVE  LoadSubscriptions \in [SubscriptionKey -> Int]
<1> DEFINE given(k) == {i \in DOMAIN case.stock :
                          case.stock[i].key = k /\ case.stock[i].value # <<>>}
           value(k) == IF "subscriptions" \notin case.files \/ given(k) = {} THEN 0
                       ELSE case.stock[Max(given(k))].value[1]
<1>1. /\ case.stock \in Seq(ToSet(case.stock))
      /\ \A l \in ToSet(case.stock) : l.value \in Seq(Int)
  BY CaseIs DEF IsCase
<1>2. Len(case.stock) \in Nat /\ \A k : given(k) \subseteq 1 .. Len(case.stock)
  BY <1>1
<1>3. ASSUME NEW k, NEW i \in given(k) PROVE case.stock[i].value[1] \in Int
  <2>1. case.stock[i].value \in Seq(Int) /\ case.stock[i].value # <<>>
    BY <1>1
  <2> QED BY <2>1
<1>4. LoadSubscriptions = [k \in SubscriptionKey |-> value(k)]
  BY DEF LoadSubscriptions
<1> HIDE DEF given
<1>5. ASSUME NEW k PROVE value(k) \in Int
  BY <1>2, <1>3, MaxIs
<1> HIDE DEF value
<1> QED BY <1>4, <1>5

LEMMA AvailableIs ==
  ASSUME case \in Cases, NEW k \in 1 .. 4
  PROVE  AvailableOf(LoadSubscriptions, AggrGroups[k]) \in Balance
<1> DEFINE g == AggrGroups[k]
<1>1. g.arch \in {"AMD64", "s390x"} /\ g.support \in {"STANDARD", "PREMIUM"}
  BY DEF AggrGroups, Group
<1> HIDE DEF g
<1>2. <<g.support, g.arch>> \in SubscriptionKey
  BY <1>1 DEF SubscriptionKey
<1>3. \A t \in Term : <<g.support, t>> = <<"PREMIUM", "t1">> \/ <<g.support, t>> \in SubscriptionKey
  BY <1>1 DEF SubscriptionKey
<1>4. LoadSubscriptions \in [SubscriptionKey -> Int]
  BY SubscriptionsAre
<1>5. AvailableOf(LoadSubscriptions, g) \in Balance
  BY <1>2, <1>3, <1>4 DEF AvailableOf, Balance
<1> QED BY <1>5 DEF g

LEMMA GapIs == ASSUME NEW t \in Total, NEW a \in Balance PROVE GapOf(t, a) \in Balance
BY DEF GapOf, Total, Balance

-----------------------------------------------------------------------------
\* Steps of the evaluation.

LEMMA SameCase ==
  ASSUME case' = case
  PROVE  /\ InputLines' = InputLines /\ HeadersKept' = HeadersKept /\ NodesKept' = NodesKept
         /\ Versions' = Versions /\ Row' = Row /\ Report' = Report
<1>1. InputLines' = InputLines
  BY DEF InputLines
<1>2. HeadersKept' = HeadersKept /\ NodesKept' = NodesKept /\ Versions' = Versions
  BY <1>1 DEF HeadersKept, NodesKept, Versions
<1>3. \A v : TermsOf(v)' = TermsOf(v)
  BY DEF TermsOf, LoadLifecycle
<1>4. Row' = Row
  BY <1>2, <1>3 DEF Row
<1> QED BY <1>1, <1>2, <1>4 DEF Report

LEMMA TablesStay ==
  ASSUME TablesOK, UNCHANGED <<case, tables>>
  PROVE  TablesOK'
BY SameCase DEF TablesOK, tables

LEMMA StartIs == ASSUME ComplianceIInv, StartEvaluation PROVE ComplianceIInv'
<1>1. /\ case' = case /\ output' = output /\ kills' = kills /\ runs' = runs + 1
      /\ runs < MaxRuns /\ phase = "idle"
  BY DEF StartEvaluation
<1>2. runs' \in 0 .. MaxRuns
  BY <1>1, ComplianceAssumption DEF ComplianceIInv
<1>3. CASE UNCHANGED <<phase, todo, tables>>
  <2>1. TablesOK'
    BY <1>1, <1>3, TablesStay DEF ComplianceIInv
  <2> QED BY <1>1, <1>2, <1>3, <2>1, SameCase DEF ComplianceIInv
<1>4. CASE /\ phase' = "read" /\ todo' = SubSeq(case.input, 1, case.cut)
           /\ order' = <<>> /\ headers' = <<>> /\ nodes' = <<>> /\ versions' = <<>>
  <2>1. todo' \in Seq(InputLines)
    <3>1. case.input \in Seq(InputLines) /\ case.cut \in 0 .. Len(case.input)
      BY CaseIs DEF ComplianceIInv
    <3> QED BY <1>4, <3>1
  <2>2. TablesOK'
    BY <1>4 DEF TablesOK, ToSet, IsInjective
  <2> QED BY <1>1, <1>2, <1>4, <2>1, <2>2, SameCase DEF ComplianceIInv
<1> QED BY <1>3, <1>4 DEF StartEvaluation

\* What reading a line leaves to show.
LEMMA LineRead ==
  ASSUME ComplianceIInv, NEW kind, ReadLine(kind)
  PROVE  /\ Head(todo) \in InputLines /\ Head(todo).kind = kind /\ IsLine(Head(todo))
         /\ case' = case
         /\ TablesOK' => ComplianceIInv'
<1>1. todo \in Seq(InputLines) /\ todo # <<>> /\ Head(todo).kind = kind /\ todo' = Tail(todo)
      /\ UNCHANGED <<case, phase, output, runs, kills>>
  BY DEF ComplianceIInv, ReadLine
<1>2. Head(todo) \in InputLines /\ todo' \in Seq(InputLines)
  BY <1>1
<1>3. IsLine(Head(todo))
  BY <1>2, CaseIs DEF ComplianceIInv
<1>4. TablesOK' => ComplianceIInv'
  BY <1>1, <1>2, SameCase DEF ComplianceIInv
<1> QED BY <1>1, <1>2, <1>3, <1>4

LEMMA HeaderRead == ASSUME ComplianceIInv, ReadHeader PROVE ComplianceIInv'
<1> DEFINE l == Head(todo)
           c == l.cluster
<1>1. ReadLine("H")
  BY DEF ReadHeader
<1>2. l \in InputLines /\ l.kind = "H" /\ c \in Cluster /\ case' = case
  BY <1>1, LineRead DEF IsLine
<1>3. CASE UNCHANGED tables
  BY <1>1, <1>2, <1>3, LineRead, TablesStay DEF ComplianceIInv
<1>4. CASE /\ order' = IF c \in DOMAIN headers THEN order ELSE Append(order, c)
           /\ headers' = Put(headers, c, HeaderOf(l))
           /\ nodes' = Put(nodes, c, <<>>)
           /\ UNCHANGED versions
  <2>1. TablesOK /\ HeaderOf(l) \in HeadersKept
    BY <1>2 DEF ComplianceIInv, HeadersKept
  <2> HIDE DEF l, c
  <2>2. /\ DOMAIN headers' = DOMAIN headers \cup {c} /\ DOMAIN nodes' = DOMAIN headers'
        /\ headers'[c] = HeaderOf(l) /\ nodes'[c] = <<>>
        /\ \A d \in DOMAIN headers : d # c => headers'[d] = headers[d] /\ nodes'[d] = nodes[d]
    <3>1. DOMAIN headers' = DOMAIN headers \cup {c} /\ DOMAIN nodes' = DOMAIN nodes \cup {c}
      BY <1>4 DEF Put
    <3>2. headers'[c] = HeaderOf(l) /\ nodes'[c] = <<>>
      BY <1>4 DEF Put
    <3>3. /\ \A d \in DOMAIN headers : d # c => headers'[d] = headers[d]
          /\ \A d \in DOMAIN nodes : d # c => nodes'[d] = nodes[d]
      BY <1>4 DEF Put
    <3> QED BY <2>1, <3>1, <3>2, <3>3, Zenon DEF TablesOK
  <2>3. \A d \in DOMAIN headers' : headers'[d] \in HeadersKept /\ nodes'[d] \in Seq(NodesKept)
    <3> SUFFICES ASSUME NEW d \in DOMAIN headers'
                 PROVE  headers'[d] \in HeadersKept /\ nodes'[d] \in Seq(NodesKept)
      OBVIOUS
    <3>1. <<>> \in Seq(NodesKept)
      OBVIOUS
    <3>2. d = c \/ (d \in DOMAIN headers /\ d # c)
      BY <2>2, Zenon
    <3>3. CASE d = c
      BY <2>1, <2>2, <3>1, <3>3, Zenon
    <3>4. CASE d \in DOMAIN headers /\ d # c
      BY <2>1, <2>2, <3>4, Zenon DEF TablesOK
    <3> QED BY <3>2, <3>3, <3>4
  <2>4. order' \in Seq(Cluster) /\ ToSet(order') = DOMAIN headers' /\ IsInjective(order')
    <3>1. CASE c \in DOMAIN headers
      BY <1>4, <2>1, <2>2, <3>1 DEF TablesOK
    <3>2. CASE c \notin DOMAIN headers
      <4>1. /\ Append(order, c) \in Seq(Cluster) /\ IsInjective(Append(order, c))
            /\ ToSet(Append(order, c)) = ToSet(order) \cup {c}
        BY <1>2, <2>1, <3>2, AppendNew DEF TablesOK
      <4> QED BY <1>4, <2>1, <2>2, <3>2, <4>1 DEF TablesOK
    <3> QED BY <3>1, <3>2
  <2>5. TablesOK'
    BY <1>2, <1>4, <2>1, <2>2, <2>3, <2>4, SameCase DEF TablesOK
  <2> QED BY <1>1, <2>5, LineRead
<1> QED BY <1>3, <1>4 DEF ReadHeader

LEMMA NodeRead == ASSUME ComplianceIInv, ReadNode PROVE ComplianceIInv'
<1> DEFINE l == Head(todo)
           c == l.cluster
<1>1. ReadLine("N") /\ UNCHANGED <<order, headers, versions>>
      /\ nodes' = IF c \in DOMAIN headers THEN Put(nodes, c, Append(nodes[c], l)) ELSE nodes
  BY DEF ReadNode
<1>2. l \in NodesKept /\ case' = case /\ TablesOK
  BY <1>1, LineRead DEF NodesKept, ComplianceIInv
<1> HIDE DEF l, c
<1>3. CASE c \in DOMAIN headers
  <2>1. nodes[c] \in Seq(NodesKept) /\ DOMAIN nodes = DOMAIN headers
    BY <1>2, <1>3 DEF TablesOK
  <2>2. Append(nodes[c], l) \in Seq(NodesKept)
    BY <1>2, <2>1
  <2>3. /\ DOMAIN nodes' = DOMAIN headers /\ nodes'[c] = Append(nodes[c], l)
        /\ \A d \in DOMAIN headers : d # c => nodes'[d] = nodes[d]
    <3>1. nodes' = Put(nodes, c, Append(nodes[c], l)) /\ DOMAIN nodes \cup {c} = DOMAIN nodes
      BY <1>1, <1>3, <2>1
    <3> QED BY <2>1, <3>1 DEF Put
  <2>4. TablesOK'
    BY <1>1, <1>2, <2>2, <2>3, SameCase DEF TablesOK
  <2> QED BY <1>1, <2>4, LineRead
<1>4. CASE c \notin DOMAIN headers
  BY <1>1, <1>2, <1>4, LineRead, TablesStay DEF tables
<1> QED BY <1>3, <1>4

LEMMA VersionsRead == ASSUME ComplianceIInv, ReadVersions PROVE ComplianceIInv'
<1> DEFINE l == Head(todo)
<1>1. ReadLine("R") /\ UNCHANGED <<order, headers, nodes>>
      /\ versions' = IF order = <<>> \/ l.version = "garbled" THEN versions
                     ELSE Put(versions, Last(order), l.version)
  BY DEF ReadVersions
<1>2. l \in InputLines /\ l.kind = "R" /\ case' = case /\ TablesOK
  BY <1>1, LineRead DEF ComplianceIInv
<1> HIDE DEF l
<1>3. CASE versions' = versions
  BY <1>1, <1>2, <1>3, LineRead, TablesStay DEF tables
<1>4. CASE order # <<>> /\ versions' = Put(versions, Last(order), l.version)
  <2>1. Last(order) \in DOMAIN headers
    BY <1>2, <1>4 DEF TablesOK, ToSet, Last
  <2>2. l.version \in Versions
    BY <1>2 DEF Versions
  <2>3. /\ DOMAIN versions' = DOMAIN versions \cup {Last(order)}
        /\ versions'[Last(order)] = l.version
        /\ \A d \in DOMAIN versions : d # Last(order) => versions'[d] = versions[d]
    BY <1>4 DEF Put
  <2>4. TablesOK'
    BY <1>1, <1>2, <2>1, <2>2, <2>3, SameCase DEF TablesOK
  <2> QED BY <1>1, <2>4, LineRead
<1> QED BY <1>1, <1>3, <1>4

LEMMA LineSkipped == ASSUME ComplianceIInv, SkipLine PROVE ComplianceIInv'
<1>1. ReadLine("T") /\ UNCHANGED tables
  BY DEF SkipLine
<1>2. case' = case /\ (TablesOK' => ComplianceIInv')
  BY <1>1, LineRead
<1>3. TablesOK'
  BY <1>1, <1>2, TablesStay DEF ComplianceIInv
<1> QED BY <1>2, <1>3

\* A report is never taken for a file that is not there.
LEMMA NoFileIsNoReport == NoFile \notin Report
<1>1. DOMAIN NoFile = {"state"}
  BY Zenon DEF NoFile
<1>2. \A r \in Report : "rows" \in DOMAIN r
  BY DEF Report
<1>3. "rows" \notin {"state"}
  OBVIOUS
<1> QED BY <1>1, <1>2, <1>3

LEMMA Written ==
  ASSUME ComplianceIInv, phase' \in {"idle", "write"}, UNCHANGED <<case, todo, tables, runs, kills>>,
         output' \in Report
  PROVE  ComplianceIInv'
<1>1. TablesOK' /\ output' # NoFile
  BY TablesStay, NoFileIsNoReport DEF ComplianceIInv
<1> QED BY <1>1, SameCase DEF ComplianceIInv

LEMMA ReportIs == ASSUME ComplianceIInv, phase = "write" PROVE output \in Report
BY DEF ComplianceIInv

LEMMA Opened == ASSUME ComplianceIInv, OpenReport PROVE ComplianceIInv'
<1>1. EmptyReport \in Report
  BY DEF EmptyReport, Report
<1> QED BY <1>1, Written DEF OpenReport

\* A row after those of its part of a report leaves a report, and so does a part
\* of a row.
LEMMA RowAdded ==
  ASSUME NEW r \in Report
  PROVE  /\ \A x \in Row : [r EXCEPT !.rows = Append(@, x), !.tornRow = <<>>, !.tornStock = <<>>] \in Report
         /\ \A x \in Total : [r EXCEPT !.totals = Append(@, x), !.tornRow = <<>>, !.tornStock = <<>>] \in Report
         /\ \A x \in Balance : [r EXCEPT !.available = Append(@, x), !.tornRow = <<>>, !.tornStock = <<>>] \in Report
         /\ \A x \in Balance : [r EXCEPT !.gaps = Append(@, x), !.tornRow = <<>>, !.tornStock = <<>>] \in Report
         /\ \A x \in Row : [r EXCEPT !.tornRow = <<x>>] \in Report
         /\ \A x \in Balance : [r EXCEPT !.tornStock = <<x>>] \in Report
<1>1. /\ \A x \in Row : Append(r.rows, x) \in Seq(Row) /\ <<x>> \in Seq(Row)
      /\ \A x \in Total : Append(r.totals, x) \in Seq(Total)
      /\ \A x \in Balance : Append(r.available, x) \in Seq(Balance) /\ <<x>> \in Seq(Balance)
      /\ \A x \in Balance : Append(r.gaps, x) \in Seq(Balance)
      /\ <<>> \in Seq(Row) /\ <<>> \in Seq(Balance)
  BY DEF Report
<1>2. /\ \A x \in Seq(Row) : [r EXCEPT !.rows = x, !.tornRow = <<>>, !.tornStock = <<>>] \in Report
      /\ \A x \in Seq(Total) : [r EXCEPT !.totals = x, !.tornRow = <<>>, !.tornStock = <<>>] \in Report
      /\ \A x \in Seq(Balance) : [r EXCEPT !.available = x, !.tornRow = <<>>, !.tornStock = <<>>] \in Report
      /\ \A x \in Seq(Balance) : [r EXCEPT !.gaps = x, !.tornRow = <<>>, !.tornStock = <<>>] \in Report
      /\ \A x \in Seq(Row) : [r EXCEPT !.tornRow = x] \in Report
      /\ \A x \in Seq(Balance) : [r EXCEPT !.tornStock = x] \in Report
  BY <1>1 DEF Report
<1> QED BY <1>1, <1>2

LEMMA RowWritten == ASSUME ComplianceIInv, WriteRow PROVE ComplianceIInv'
<1> DEFINE i == Len(output.rows) + 1
<1>1. /\ phase = "write" /\ Len(output.rows) < Len(Rows)
      /\ output' = [output EXCEPT !.rows = Append(@, Rows[i]), !.tornRow = <<>>, !.tornStock = <<>>]
      /\ UNCHANGED <<case, phase, todo, tables, runs, kills>>
  BY DEF WriteRow, WriteTo, Missing
<1>2. output \in Report /\ Rows \in Seq(Row)
  BY <1>1, ReportIs, RowsAre DEF ComplianceIInv
<1>3. Rows[i] \in Row
  <2>1. i \in 1 .. Len(Rows)
    BY <1>1, <1>2 DEF Report
  <2> HIDE DEF i
  <2> QED BY <1>2, <2>1
<1> HIDE DEF i
<1>4. output' \in Report
  BY <1>1, <1>2, <1>3, RowAdded
<1> QED BY <1>1, <1>4, Written

\* What is left of a row is a row, and what is left of a balance is one.
LEMMA TornRowIs == ASSUME NEW r \in Row, NEW x \in TornRows(r) PROVE x \in Row /\ x.cluster = r.cluster
<1>1. \A n \in Nat : FirstDigits(n) \subseteq Nat
  BY DEF FirstDigits
<1>2. FirstDigits(r.phys) \subseteq Nat /\ FirstDigits(r.virt) \subseteq Nat
  BY <1>1 DEF Row
<1>3. CASE x = [r EXCEPT !.arch = "", !.phys = 0, !.virt = 0]
  BY <1>3 DEF Row, Archs
<1>4. ASSUME NEW p \in FirstDigits(r.phys), x = [r EXCEPT !.phys = p, !.virt = 0]
      PROVE  x \in Row /\ x.cluster = r.cluster
  BY <1>2, <1>4 DEF Row
<1>5. ASSUME NEW v \in FirstDigits(r.virt), x = [r EXCEPT !.virt = v]
      PROVE  x \in Row /\ x.cluster = r.cluster
  BY <1>2, <1>5 DEF Row
<1> QED BY <1>3, <1>4, <1>5 DEF TornRows

LEMMA DigitsAre ==
  ASSUME NEW n \in Int, NEW d \in FirstDigits(n)
  PROVE  d \in Int /\ (d > 0 => d <= n)
BY DEF FirstDigits

LEMMA RowTorn == ASSUME ComplianceIInv, FlushInRow PROVE ComplianceIInv'
<1> DEFINE i == Len(output.rows) + 1
<1>1. PICK part \in TornRows(Rows[i]) :
        /\ phase = "write" /\ Len(output.rows) < Len(Rows)
        /\ output' = [output EXCEPT !.tornRow = <<part>>]
        /\ UNCHANGED <<case, phase, todo, tables, runs, kills>>
  BY DEF FlushInRow, Missing
<1>2. output \in Report /\ Rows \in Seq(Row)
  BY <1>1, ReportIs, RowsAre DEF ComplianceIInv
<1>3. Rows[i] \in Row
  <2>1. i \in 1 .. Len(Rows)
    BY <1>1, <1>2 DEF Report
  <2> HIDE DEF i
  <2> QED BY <1>2, <2>1
<1> HIDE DEF i
<1>4. part \in Row
  BY <1>1, <1>3, TornRowIs
<1>5. output' \in Report
  BY <1>1, <1>2, <1>4, RowAdded
<1> QED BY <1>1, <1>5, Written

LEMMA StockTorn == ASSUME ComplianceIInv, FlushInStock PROVE ComplianceIInv'
<1> DEFINE k == Len(output.available) + 1
           row == AvailableOf(LoadSubscriptions, AggrGroups[k])
<1>1. PICK part \in FirstDigits(row.base) :
        /\ phase = "write" /\ Len(output.available) < 4
        /\ output' = [output EXCEPT !.tornStock = <<[row EXCEPT !.base = part]>>]
        /\ UNCHANGED <<case, phase, todo, tables, runs, kills>>
  BY DEF FlushInStock, Missing, NextGroup
<1>2. output \in Report
  BY <1>1, ReportIs
<1>3. row \in Balance
  <2>1. k \in 1 .. 4
    <3>1. Len(output.available) \in Nat
      BY <1>2 DEF Report
    <3> QED BY <1>1, <3>1
  <2> HIDE DEF k
  <2> QED BY <2>1, AvailableIs DEF ComplianceIInv
<1> HIDE DEF row
<1>4. [row EXCEPT !.base = part] \in Balance
  <2>1. row.base \in Int
    BY <1>3 DEF Balance
  <2>2. part \in Int
    BY <2>1, DigitsAre
  <2> QED BY <1>3, <2>2 DEF Balance
<1>5. output' \in Report
  BY <1>1, <1>2, <1>4, RowAdded
<1> QED BY <1>1, <1>5, Written

LEMMA TotalWritten == ASSUME ComplianceIInv, WriteTotal PROVE ComplianceIInv'
<1> DEFINE total == TotalOf(Rows, NextGroup("totals"))
<1>1. /\ phase = "write" /\ output' = [output EXCEPT !.totals = Append(@, total), !.tornRow = <<>>, !.tornStock = <<>>]
      /\ UNCHANGED <<case, phase, todo, tables, runs, kills>>
  BY DEF WriteTotal, WriteTo
<1>2. output \in Report /\ total \in Total
  BY <1>1, ReportIs, RowsAre, TotalIs DEF ComplianceIInv
<1> HIDE DEF total
<1>3. output' \in Report
  BY <1>1, <1>2, RowAdded
<1> QED BY <1>1, <1>3, Written

LEMMA AvailableWritten == ASSUME ComplianceIInv, WriteAvailable PROVE ComplianceIInv'
<1> DEFINE k == Len(output.available) + 1
           available == AvailableOf(LoadSubscriptions, AggrGroups[k])
<1>1. /\ phase = "write" /\ Len(output.available) < 4
      /\ output' = [output EXCEPT !.available = Append(@, available), !.tornRow = <<>>, !.tornStock = <<>>]
      /\ UNCHANGED <<case, phase, todo, tables, runs, kills>>
  BY DEF WriteAvailable, WriteTo, Missing, NextGroup
<1>2. output \in Report
  BY <1>1, ReportIs
<1>3. available \in Balance
  <2>1. k \in 1 .. 4
    <3>1. Len(output.available) \in Nat
      BY <1>2 DEF Report
    <3> QED BY <1>1, <3>1
  <2> HIDE DEF k
  <2> QED BY <2>1, AvailableIs DEF ComplianceIInv
<1> HIDE DEF available
<1>4. output' \in Report
  BY <1>1, <1>2, <1>3, RowAdded
<1> QED BY <1>1, <1>4, Written

LEMMA GapWritten == ASSUME ComplianceIInv, WriteGap PROVE ComplianceIInv'
<1> DEFINE i == Len(output.gaps) + 1
           gap == GapOf(output.totals[i], output.available[i])
<1>1. /\ phase = "write" /\ Len(output.gaps) < 4
      /\ ~(Len(output.totals) < 4) /\ ~(Len(output.available) < 4)
      /\ output' = [output EXCEPT !.gaps = Append(@, gap), !.tornRow = <<>>, !.tornStock = <<>>]
      /\ UNCHANGED <<case, phase, todo, tables, runs, kills>>
  BY DEF WriteGap, WriteTo, Missing
<1>2. output \in Report
  BY <1>1, ReportIs
<1>3. gap \in Balance
  <2>1. /\ output.totals \in Seq(Total) /\ output.available \in Seq(Balance)
        /\ i \in 1 .. Len(output.totals) /\ i \in 1 .. Len(output.available)
    BY <1>1, <1>2 DEF Report
  <2> HIDE DEF i
  <2>2. output.totals[i] \in Total /\ output.available[i] \in Balance
    BY <2>1
  <2> QED BY <2>2, GapIs
<1> HIDE DEF gap
<1>4. output' \in Report
  BY <1>1, <1>2, <1>3, RowAdded
<1> QED BY <1>1, <1>4, Written

LEMMA Closed == ASSUME ComplianceIInv, CloseReport PROVE ComplianceIInv'
<1>1. output \in Report
  BY ReportIs DEF CloseReport
<1> QED BY <1>1, Written, SameCase DEF CloseReport

LEMMA Killed == ASSUME ComplianceIInv, KillEvaluation PROVE ComplianceIInv'
<1>1. /\ kills < MaxKills /\ kills' = kills + 1 /\ phase' = "idle" /\ todo' = <<>>
      /\ UNCHANGED <<case, tables, output, runs>>
  BY DEF KillEvaluation
<1>2. TablesOK'
  BY <1>1, TablesStay DEF ComplianceIInv
<1>3. kills' \in 0 .. MaxKills
  BY <1>1, ComplianceAssumption DEF ComplianceIInv
<1>4. todo' \in Seq(InputLines)
  BY <1>1
<1> QED BY <1>1, <1>2, <1>3, <1>4, SameCase DEF ComplianceIInv

LEMMA ComplianceStarts == ComplianceInit => ComplianceIInv
<1> SUFFICES ASSUME ComplianceInit PROVE ComplianceIInv
  OBVIOUS
<1>1. TablesOK
  BY DEF ComplianceInit, TablesOK, ToSet, IsInjective
<1>2. 0 \in 0 .. MaxRuns /\ 0 \in 0 .. MaxKills /\ <<>> \in Seq(InputLines)
  BY ComplianceAssumption
<1> QED BY <1>1, <1>2, Zenon DEF ComplianceInit, ComplianceIInv

LEMMA ComplianceStays == ASSUME ComplianceIInv, UNCHANGED complianceVars PROVE ComplianceIInv'
<1>1. TablesOK'
  BY TablesStay DEF complianceVars, ComplianceIInv
<1> QED BY <1>1, SameCase DEF complianceVars, ComplianceIInv

LEMMA ComplianceSteps == ASSUME ComplianceIInv, ComplianceNext PROVE ComplianceIInv'
BY StartIs, HeaderRead, NodeRead, VersionsRead, LineSkipped, Opened, RowWritten, RowTorn, StockTorn, TotalWritten,
   AvailableWritten, GapWritten, Closed, Killed, Zenon DEF ComplianceNext

LEMMA ComplianceInvariant == ReportingSpec => []ComplianceIInv
<1>1. ReportingInit => ComplianceIInv
  BY ComplianceStarts DEF ReportingInit
<1>2. ASSUME ComplianceIInv, [ReportingNext]_reportingVars PROVE ComplianceIInv'
  <2>1. CASE ComplianceNext
    BY <1>2, <2>1, ComplianceSteps
  <2>2. CASE UNCHANGED complianceVars
    BY <1>2, <2>2, ComplianceStays
  <2> QED BY <1>2, <2>1, <2>2, Zenon DEF ReportingNext, Import, ReportingDone, reportingVars
<1> QED BY <1>1, <1>2, PTL DEF ReportingSpec

\* Whatever the input, wherever it is cut off and whenever the script is killed:
\* nodes and headers have the same keys, versions no others, the keys were
\* inserted once each, and the file is one the script writes or none.
THEOREM ReportsAreWellFormed == ReportingSpec => []ComplianceTypeOK
<1>1. ASSUME ComplianceIInv PROVE ComplianceTypeOK
  <2>1. \A r \in Report : DOMAIN r = DOMAIN EmptyReport
    BY DEF Report, EmptyReport
  <2> QED BY <1>1, <2>1 DEF ComplianceIInv, ComplianceTypeOK, TablesOK
<1> QED BY <1>1, ComplianceInvariant, PTL

\* README.md:1002-1004: evaluate_term's comparison of two ranges finds exactly
\* the terms that share a day with the one asked for, for every calendar.
THEOREM TermsAreDays == ReportingSpec => []TermsShareADay
<1>1. ASSUME ComplianceIInv PROVE TermsShareADay
  <2> DEFINE first == case.range[1]
             last == case.range[2]
             shared(v, t) ==
               /\ "lifecycle" \in case.files /\ v \in DOMAIN case.calendar
               /\ case.calendar[v][t] # <<>>
               /\ \E day \in first .. last : day \in case.calendar[v][t][1] .. case.calendar[v][t][2]
  <2>1. first \in Int /\ last \in Int /\ IsCalendar(case.calendar)
    BY <1>1, CaseIs DEF ComplianceIInv, IsCase
  <2>2. ASSUME first <= last, NEW v, NEW t \in Term
        PROVE  EvaluateTerm(LoadLifecycle, v, t, case.range) <=> shared(v, t)
    <3> DEFINE begin == case.calendar[v][t][1]
               end == case.calendar[v][t][2]
    <3>1. CASE "lifecycle" \notin case.files
      BY <3>1 DEF LoadLifecycle, EvaluateTerm
    <3>2. CASE v \notin DOMAIN case.calendar \/ case.calendar[v][t] = <<>>
      BY <3>2 DEF LoadLifecycle, EvaluateTerm
    <3>3. CASE "lifecycle" \in case.files /\ v \in DOMAIN case.calendar /\ case.calendar[v][t] # <<>>
      <4>1. begin \in Int /\ end \in Int /\ begin <= end
        BY <2>1, <3>3 DEF IsCalendar
      <4>2. EvaluateTerm(LoadLifecycle, v, t, case.range) <=> begin <= last /\ end >= first
        BY <3>3 DEF LoadLifecycle, EvaluateTerm
      <4>3. shared(v, t) <=> \E day \in first .. last : day \in begin .. end
        BY <3>3
      <4> HIDE DEF begin, end, first, last, shared
      <4>4. ASSUME begin <= last, end >= first PROVE \E day \in first .. last : day \in begin .. end
        <5>1. CASE begin <= first
          <6>1. first \in first .. last /\ first \in begin .. end
            BY <2>1, <2>2, <4>1, <4>4, <5>1
          <6> QED BY <6>1
        <5>2. CASE ~(begin <= first)
          <6>1. begin \in first .. last /\ begin \in begin .. end
            BY <2>1, <4>1, <4>4, <5>2
          <6> QED BY <6>1
        <5> QED BY <5>1, <5>2
      <4>5. (\E day \in first .. last : day \in begin .. end) => begin <= last /\ end >= first
        BY <2>1, <4>1
      <4> QED BY <4>2, <4>3, <4>4, <4>5
    <3> QED BY <3>1, <3>2, <3>3
  <2> HIDE DEF shared
  <2>3. ASSUME output # NoFile, first <= last, NEW k \in DOMAIN output.rows, NEW t \in Term
        PROVE  t \in output.rows[k].terms <=> shared(MajorMinor(output.rows[k].version), t)
    <3>1. output.rows[k] \in Row
      BY <1>1, <2>3 DEF ComplianceIInv, Report
    <3>2. output.rows[k].terms = TermsOf(output.rows[k].version)
      BY <3>1 DEF Row
    <3> QED BY <2>2, <2>3, <3>2 DEF TermsOf
  <2> QED BY <2>3 DEF TermsShareADay, shared
<1> QED BY <1>1, ComplianceInvariant, PTL

-----------------------------------------------------------------------------
\* A report imported into a sheet.

LEMMA GroupIs == ASSUME case \in Cases, NEW r \in Row PROVE Group(r.arch, r.support) \in Key
<1>1. /\ r.arch \in {"AMD64", "s390x", ""} /\ r.support \in {h.support : h \in HeadersKept}
  BY DEF Row, Archs
<1>2. PICK h \in HeadersKept : r.support = h.support
  BY <1>1
<1>3. PICK l \in InputLines : l.kind = "H" /\ h = HeaderOf(l)
  BY DEF HeadersKept
<1>4. IsLine(l)
  BY <1>3, CaseIs
<1>5. l.layout = "current" \/ l.layout = "superseded"
  BY <1>3, <1>4 DEF IsLine
<1>6. HeaderOf(l).support = IF l.layout = "current" THEN l.support ELSE l.version
  <2>1. CASE l.layout = "superseded"
    <3>1. HeaderOf(l).support = l.version
      BY <2>1, Zenon DEF HeaderOf
    <3> QED BY <2>1, <3>1
  <2>2. CASE l.layout = "current"
    <3>1. "current" # "superseded"
      OBVIOUS
    <3>2. HeaderOf(l).support = l.support
      BY <2>2, <3>1, Zenon DEF HeaderOf
    <3> QED BY <2>2, <3>2
  <2> QED BY <1>5, <2>1, <2>2
<1>7. Group(r.arch, IF l.layout = "current" THEN l.support ELSE l.version) \in Key
  BY <1>1, <1>3, ReportingAssumption DEF InputLines
<1> QED BY <1>2, <1>3, <1>6, <1>7

\* The clusters of a report.
IdsOf(rows) == {rows[i].cluster : i \in DOMAIN rows}

LEMMA IdsAre ==
  ASSUME NEW rows \in Seq(Row)
  PROVE  IdsOf(rows) \subseteq Nat /\ IdsOf(rows) \subseteq Cluster /\ IsFiniteSet(IdsOf(rows))
<1>1. \A i \in DOMAIN rows : rows[i].cluster \in Cluster
  <2>1. \A i \in DOMAIN rows : rows[i] \in Row
    OBVIOUS
  <2> QED BY <2>1 DEF Row
<1>2. IsFiniteSet(DOMAIN rows)
  <2>1. DOMAIN rows = 1 .. Len(rows) /\ Len(rows) \in Nat
    OBVIOUS
  <2> QED BY <2>1, FS_Interval
<1>3. IsFiniteSet(IdsOf(rows))
  <2> DEFINE f == [i \in DOMAIN rows |-> rows[i].cluster]
  <2>1. f \in Surjection(DOMAIN rows, IdsOf(rows))
    BY DEF Surjection, IdsOf
  <2> QED BY <1>2, <2>1, FS_Surjection
<1> QED BY <1>1, <1>3, ComplianceAssumption DEF IdsOf

LEMMA ClusterIs ==
  ASSUME case \in Cases, NEW rows \in Seq(Row), NEW c \in IdsOf(rows)
  PROVE  ClusterOf(rows, c) \in [pool : Key, cost : Nat, installed : Int]
<1> DEFINE mine == {i \in DOMAIN rows : rows[i].cluster = c}
           first == rows[Min(mine)]
<1>1. mine # {} /\ mine \subseteq Nat /\ mine \subseteq DOMAIN rows
  BY DEF IdsOf
<1>2. ClusterOf(rows, c) = [pool |-> Group(first.arch, first.support), cost |-> Needed(rows, mine),
                            installed |-> first.installed]
  BY DEF ClusterOf
<1> HIDE DEF mine
<1>3. first \in Row
  <2>1. Min(mine) \in DOMAIN rows
    BY <1>1, MinIs
  <2> QED BY <2>1
<1> HIDE DEF first
<1>4. Group(first.arch, first.support) \in Key /\ first.installed \in Int
  BY <1>3, GroupIs DEF Row
<1>5. Needed(rows, mine) \in Nat
  BY <1>1, NeededIs
<1> QED BY <1>2, <1>4, <1>5

\* sort() gives every place to one cluster.
Place(D, cs, k) == Cardinality({x \in D : IsOlder(cs, x, k)}) + 1

LEMMA PlaceIs ==
  ASSUME NEW n \in Nat, NEW cs, \A k \in 1 .. n : cs[k].installed \in Int, NEW i \in 1 .. n
  PROVE  \E k \in 1 .. n : Place(1 .. n, cs, k) = i
<1> DEFINE D == 1 .. n
           R == {p \in D \X D : IsOlder(cs, p[1], p[2])}
<1>1. \A x, y \in D : <<x, y>> \in R <=> IsOlder(cs, x, y)
  OBVIOUS
<1>2. \A x \in D : x \in Int /\ cs[x].installed \in Int
  OBVIOUS
<1>3. IsFiniteSet(D) /\ Cardinality(D) = n
  BY FS_Interval
<1>4. i \in 1 .. Cardinality(D)
  BY <1>3
<1> HIDE DEF R
<1>5. Orders(R, D)
  <2> HIDE DEF D
  <2>1. \A x \in D : ~IsOlder(cs, x, x)
    BY <1>2 DEF IsOlder
  <2>2. \A x, y \in D : x # y => IsOlder(cs, x, y) \/ IsOlder(cs, y, x)
    BY <1>2 DEF IsOlder
  <2>3. \A x, y, z \in D : IsOlder(cs, x, y) /\ IsOlder(cs, y, z) => IsOlder(cs, x, z)
    BY <1>2 DEF IsOlder
  <2> QED BY <1>1, <2>1, <2>2, <2>3 DEF Orders
<1>6. \A k \in D : {x \in D : IsOlder(cs, x, k)} = Before(D, R, k)
  BY <1>1 DEF Before
<1> HIDE DEF D
<1>7. PICK k \in D : Cardinality(Before(D, R, k)) = i - 1
  BY <1>3, <1>4, <1>5, RankExists
<1>8. Cardinality({x \in D : IsOlder(cs, x, k)}) + 1 = i
  <2>1. Cardinality({x \in D : IsOlder(cs, x, k)}) = Cardinality(Before(D, R, k))
    BY <1>6, Zenon
  <2>2. i \in Int
    OBVIOUS
  <2> QED BY <1>7, <2>1, <2>2
<1>9. \E x \in D : Place(D, cs, x) = i
  BY <1>8, Zenon DEF Place
<1> QED BY <1>9 DEF D

\* The queue has every cluster of the report once, with what it needs.
Entry(rows, c) == [id |-> c, pool |-> ClusterOf(rows, c).pool, cost |-> ClusterOf(rows, c).cost]

LEMMA QueueHolds ==
  ASSUME case \in Cases, NEW rows \in Seq(Row)
  PROVE  \E c \in Bijection(1 .. Cardinality(IdsOf(rows)), IdsOf(rows)) :
           QueueOf(rows) = [i \in 1 .. Cardinality(IdsOf(rows)) |-> Entry(rows, c[i])]
<1> DEFINE ids == InOrder(IdsOf(rows))
           cs == [k \in DOMAIN ids |-> ClusterOf(rows, ids[k])]
           at(i) == CHOOSE k \in DOMAIN cs : Place(DOMAIN cs, cs, k) = i
           n == Cardinality(IdsOf(rows))
           c == [i \in 1 .. n |-> ids[at(i)]]
<1>1. QueueOf(rows) = [i \in DOMAIN cs |-> [id |-> ids[at(i)], pool |-> cs[at(i)].pool,
                                             cost |-> cs[at(i)].cost]]
  BY DEF QueueOf, IdsOf, Place
<1>2. /\ n \in Nat /\ DOMAIN ids = 1 .. n
      /\ \A k \in 1 .. n : ids[k] \in IdsOf(rows) /\ Cardinality(Lower(IdsOf(rows), ids[k])) = k - 1
  BY IdsAre, InOrderIs
<1> HIDE DEF ids
<1>3. \A k, l \in 1 .. n : ids[k] = ids[l] => k = l
  <2> SUFFICES ASSUME NEW k \in 1 .. n, NEW l \in 1 .. n, ids[k] = ids[l] PROVE k = l
    OBVIOUS
  <2>1. k - 1 = l - 1
    BY <1>2
  <2> QED BY <2>1
<1> HIDE DEF n
<1>4. DOMAIN cs = 1 .. n /\ \A k \in 1 .. n : cs[k] = ClusterOf(rows, ids[k])
  BY <1>2
<1>5. \A k \in 1 .. n : cs[k].installed \in Int
  BY <1>2, <1>4, ClusterIs
<1> HIDE DEF cs
<1>6. ASSUME NEW i \in 1 .. n PROVE at(i) \in 1 .. n /\ Place(1 .. n, cs, at(i)) = i
  <2>1. \E k \in 1 .. n : Place(1 .. n, cs, k) = i
    BY <1>2, <1>5, PlaceIs
  <2>2. \E k \in DOMAIN cs : Place(DOMAIN cs, cs, k) = i
    BY <1>4, <2>1, Zenon
  <2>3. at(i) \in DOMAIN cs /\ Place(DOMAIN cs, cs, at(i)) = i
    BY <2>2, Zenon
  <2> QED BY <1>4, <2>3, Zenon
<1>7. \A i, j \in 1 .. n : at(i) = at(j) => i = j
  <2> HIDE DEF at
  <2> QED BY <1>6, Zenon
<1> HIDE DEF at
<1>8. c \in [1 .. n -> IdsOf(rows)] /\ \A i, j \in 1 .. n : c[i] = c[j] => i = j
  BY <1>2, <1>3, <1>6, <1>7
<1>9. QueueOf(rows) = [i \in 1 .. n |-> Entry(rows, c[i])]
  BY <1>1, <1>4, <1>6 DEF Entry
<1> HIDE DEF c
<1>10. c \in Bijection(1 .. n, IdsOf(rows))
  <2>1. c \in Injection(1 .. n, IdsOf(rows))
    BY <1>8 DEF Injection, IsInjective
  <2>2. Cardinality(1 .. n) = Cardinality(IdsOf(rows))
    BY <1>2, FS_Interval DEF n
  <2>3. c \in Surjection(1 .. n, IdsOf(rows))
    BY <2>1, <2>2, IdsAre, FS_Injection
  <2> QED BY <2>1, <2>3 DEF Bijection
<1> QED BY <1>9, <1>10 DEF n

LEMMA QueueIs ==
  ASSUME case \in Cases, NEW rows \in Seq(Row)
  PROVE  QueueOf(rows) \in Seq([id : Id, pool : Key, cost : Nat])
<1> DEFINE n == Cardinality(IdsOf(rows))
<1>1. n \in Nat
  BY IdsAre, FS_CardinalityType
<1>2. PICK c \in Bijection(1 .. n, IdsOf(rows)) : QueueOf(rows) = [i \in 1 .. n |-> Entry(rows, c[i])]
  BY QueueHolds
<1>3. \A i \in 1 .. n : c[i] \in IdsOf(rows)
  BY <1>2 DEF Bijection, Injection
<1> HIDE DEF n
<1>4. \A i \in 1 .. n : c[i] \in Id /\ ClusterOf(rows, c[i]) \in [pool : Key, cost : Nat, installed : Int]
  BY <1>3, ClusterIs, IdsAre, ReportingAssumption
<1>5. \A i \in 1 .. n : Entry(rows, c[i]) \in [id : Id, pool : Key, cost : Nat]
  BY <1>4 DEF Entry
<1> QED BY <1>1, <1>2, <1>5

\* What of a report is in the file, torn or not.
LEMMA FileIs ==
  ASSUME NEW r \in Report
  PROVE  RowsIn(r) \in Seq(Row) /\ StocksIn(r) \in Seq(Balance)
BY DEF Report, RowsIn, StocksIn

LEMMA StockIs == ASSUME NEW r \in Report PROVE StockOf(r) \in [Pool -> Int]
<1>1. \A k \in DOMAIN StocksIn(r) : StocksIn(r)[k].base \in Int
  <2>1. StocksIn(r) \in Seq(Balance)
    BY FileIs
  <2>2. \A k \in DOMAIN StocksIn(r) : StocksIn(r)[k] \in Balance
    BY <2>1
  <2> QED BY <2>2 DEF Balance
<1> QED BY <1>1 DEF StockOf, SelectInSeq

LEMMA SheetIs == ASSUME case \in Cases, NEW r \in Report PROVE SheetOf(r) \in Sheet
<1>1. RowsIn(r) \in Seq(Row)
  BY FileIs
<1>2. QueueOf(RowsIn(r)) \in Seq([id : Id, pool : Key, cost : Nat])
  BY <1>1, QueueIs
<1> QED BY <1>2, StockIs DEF SheetOf, Sheet

\* Importing a report is opening the sheet, and no other step but a draw touches
\* the sheet: the composition does what the spreadsheet alone may do.
THEOREM ReportsAreAllocated == ReportingSpec => ColoursAsAllocated
<1>1. ReportingInit => AllocationInit
  BY DEF ReportingInit
<1>2. ASSUME ComplianceIInv, [ReportingNext]_reportingVars
      PROVE  [AllocationNext]_allocationVars
  <2>1. CASE Import
    <3>1. output \in Report
      BY <1>2, <2>1 DEF ComplianceIInv, Import
    <3>2. SheetOf(output) \in Sheet
      BY <1>2, <3>1, SheetIs DEF ComplianceIInv
    <3>3. Open
      BY <2>1, <3>2 DEF Import, Open
    <3> QED BY <3>3 DEF AllocationNext
  <2>2. CASE Draw \/ DrawFromNowhere
    BY <2>2 DEF AllocationNext
  <2>3. CASE UNCHANGED allocationVars
    BY <2>3
  <2> QED BY <1>2, <2>1, <2>2, <2>3, Zenon DEF ReportingNext, ReportingDone, reportingVars
<1> QED BY <1>1, <1>2, ComplianceInvariant, PTL DEF ReportingSpec, ColoursAsAllocated, AllocationSpec

\* README.md:1017: first in, first out, and colours that tell whether a pool is
\* exceeded, for sheets made from reports, those cut off included.
THEOREM ReportsAreColoured == ReportingSpec => [](OldestFirst /\ GreenIffCovered)
BY ReportsAreAllocated, AllocationIsFifo, ColoursTellTheGap, PTL DEF ColoursAsAllocated

-----------------------------------------------------------------------------
\* What the rows of a report have to do with each other.

\* Totals are those of the rows above them, gaps those of the rows in between, a
\* cluster has one support level throughout, and no row above another is torn.
ReportOK(r) ==
  /\ \A i, j \in DOMAIN r.rows :
       r.rows[i].cluster = r.rows[j].cluster => r.rows[i].support = r.rows[j].support
  /\ \A k \in DOMAIN r.totals : r.totals[k] = TotalOf(r.rows, AggrGroups[k])
  /\ \A k \in DOMAIN r.gaps :
       /\ k \in DOMAIN r.totals /\ k \in DOMAIN r.available
       /\ r.gaps[k] = GapOf(r.totals[k], r.available[k])
  /\ r.totals # <<>> => r.tornRow = <<>>
  /\ r.gaps # <<>> => r.tornStock = <<>>

\* While a report is written its rows are the first of the tables' rows, all of
\* them once there is a total, and there is no gap before the stocks are all there.
WritingOK ==
  /\ Len(output.rows) <= Len(Rows) /\ \A i \in DOMAIN output.rows : output.rows[i] = Rows[i]
  /\ output.totals # <<>> => Len(output.rows) = Len(Rows)
  /\ output.gaps # <<>> => ~(Len(output.available) < 4)

ReportIInv ==
  /\ output # NoFile => ReportOK(output)
  /\ phase = "write" => WritingOK

LEMMA RowsStay == ASSUME UNCHANGED <<case, tables>> PROVE Rows' = Rows
<1>1. \A c, n : RowOf(c, n)' = RowOf(c, n)
  BY DEF RowOf, VersionOf, LoadLifecycle, tables
<1>2. \A c : RowsOf(c)' = RowsOf(c)
  BY <1>1 DEF RowsOf, tables
<1> QED BY <1>2 DEF Rows, tables

\* A step that neither writes nor leaves the script writing.
LEMMA ReportStays ==
  ASSUME ReportIInv, output' = output, phase' # "write" \/ (phase' = phase /\ Rows' = Rows)
  PROVE  ReportIInv'
BY DEF ReportIInv, WritingOK

LEMMA OwnSupport ==
  ASSUME ComplianceIInv, phase = "write", NEW rows \in Seq(Row), Len(rows) <= Len(Rows),
         \A i \in DOMAIN rows : rows[i] = Rows[i]
  PROVE  \A i, j \in DOMAIN rows :
           rows[i].cluster = rows[j].cluster => rows[i].support = rows[j].support
<1>1. Rows \in Seq(OwnRow)
  BY RowsAre DEF ComplianceIInv
<1>2. \A i \in DOMAIN rows : rows[i] \in OwnRow
  BY <1>1
<1> QED BY <1>2 DEF OwnRow

\* A step of writing writes to a report.
LEMMA WritesReport ==
  ASSUME ComplianceIInv, ComplianceIInv', phase = "write", UNCHANGED <<case, phase, tables>>
  PROVE  output \in Report /\ output' \in Report /\ Rows' = Rows /\ Rows \in Seq(Row)
BY ReportIs, RowsAre, RowsStay, SameCase DEF ComplianceIInv

LEMMA OpenedOK == ASSUME ComplianceIInv, ReportIInv, OpenReport PROVE ReportIInv'
<1>1. /\ output' = EmptyReport /\ case' = case /\ UNCHANGED tables
  BY DEF OpenReport
<1>2. output'.rows = <<>> /\ output'.totals = <<>> /\ output'.gaps = <<>>
      /\ output'.tornRow = <<>> /\ output'.tornStock = <<>>
  BY <1>1 DEF EmptyReport
<1>3. ReportOK(output')
  BY <1>2 DEF ReportOK
<1>4. Len(Rows') \in Nat
  <2>1. Rows \in Seq(Row)
    BY RowsAre DEF ComplianceIInv
  <2> QED BY <1>1, <2>1, RowsStay
<1> QED BY <1>2, <1>3, <1>4 DEF ReportIInv, WritingOK

LEMMA RowWrittenOK == ASSUME ComplianceIInv, ReportIInv, WriteRow PROVE ReportIInv'
<1> DEFINE n == Len(output.rows)
           r == Rows[n + 1]
<1>1. /\ phase = "write" /\ n < Len(Rows) /\ output' = [output EXCEPT !.rows = Append(@, r), !.tornRow = <<>>, !.tornStock = <<>>]
      /\ UNCHANGED <<case, phase, tables>>
  BY DEF WriteRow, WriteTo, Missing
<1>2. output \in Report /\ output' \in Report /\ Rows' = Rows /\ Rows \in Seq(Row)
  BY <1>1, RowWritten, WritesReport
<1>3. output.rows \in Seq(Row) /\ output'.rows = Append(output.rows, r)
  BY <1>1, <1>2 DEF Report
<1>4. output'.totals = output.totals /\ output'.available = output.available /\ output'.gaps = output.gaps
      /\ output'.tornRow = <<>> /\ output'.tornStock = <<>>
  BY <1>1, <1>2 DEF Report
<1>5. WritingOK /\ ReportOK(output)
  BY <1>1, <1>2, NoFileIsNoReport DEF ReportIInv
<1>6. output.totals = <<>>
  BY <1>1, <1>3, <1>5 DEF WritingOK
<1>7. DOMAIN output.gaps = {}
  BY <1>5, <1>6 DEF ReportOK
<1>8. Len(output'.rows) <= Len(Rows) /\ \A i \in DOMAIN output'.rows : output'.rows[i] = Rows[i]
  <2>1. n \in Nat /\ Len(Rows) \in Nat /\ Len(output'.rows) = n + 1
    BY <1>2, <1>3
  <2>2. \A i \in DOMAIN output.rows : output.rows[i] = Rows[i]
    BY <1>5 DEF WritingOK
  <2>3. ASSUME NEW i \in DOMAIN output'.rows PROVE output'.rows[i] = Rows[i]
    <3>1. i \in DOMAIN output.rows \/ i = n + 1
      BY <1>3
    <3> QED BY <1>3, <2>2, <3>1
  <2> QED BY <1>1, <2>1, <2>3
<1>9. WritingOK'
  BY <1>2, <1>4, <1>5, <1>6, <1>8 DEF WritingOK
<1>10. ReportOK(output')
  <2>1. output'.rows \in Seq(Row)
    BY <1>2 DEF Report
  <2>2. \A i, j \in DOMAIN output'.rows :
          output'.rows[i].cluster = output'.rows[j].cluster
            => output'.rows[i].support = output'.rows[j].support
    BY <1>1, <1>8, <2>1, OwnSupport
  <2> QED BY <1>4, <1>6, <1>7, <2>2 DEF ReportOK
<1> QED BY <1>9, <1>10 DEF ReportIInv

LEMMA TotalWrittenOK == ASSUME ComplianceIInv, ReportIInv, WriteTotal PROVE ReportIInv'
<1> DEFINE n == Len(output.totals)
           total == TotalOf(Rows, AggrGroups[n + 1])
<1>1. /\ phase = "write" /\ ~(Len(output.rows) < Len(Rows))
      /\ output' = [output EXCEPT !.totals = Append(@, total), !.tornRow = <<>>, !.tornStock = <<>>]
      /\ UNCHANGED <<case, phase, tables>>
  BY DEF WriteTotal, WriteTo, Missing, NextGroup
<1>2. output \in Report /\ output' \in Report /\ Rows' = Rows /\ Rows \in Seq(Row)
  BY <1>1, TotalWritten, WritesReport
<1> HIDE DEF total
<1>3. /\ output.rows \in Seq(Row) /\ output.totals \in Seq(Total)
      /\ output'.totals = Append(output.totals, total)
      /\ output'.rows = output.rows /\ output'.available = output.available /\ output'.gaps = output.gaps
      /\ output'.tornRow = <<>> /\ output'.tornStock = <<>>
  BY <1>1, <1>2 DEF Report
<1>4. total \in Total
  <2>1. output'.totals \in Seq(Total)
    BY <1>2 DEF Report
  <2> QED BY <1>2, TotalIs DEF total
<1>5. WritingOK /\ ReportOK(output)
  BY <1>1, <1>2, NoFileIsNoReport DEF ReportIInv
<1>6. output.rows = Rows
  BY <1>1, <1>2, <1>3, <1>5 DEF WritingOK
<1>7. WritingOK'
  BY <1>2, <1>3, <1>5, <1>6 DEF WritingOK
<1>8. /\ DOMAIN output'.totals = DOMAIN output.totals \cup {n + 1}
      /\ n + 1 \notin DOMAIN output.totals
      /\ output'.totals[n + 1] = total
      /\ \A k \in DOMAIN output.totals : output'.totals[k] = output.totals[k]
  BY <1>3, <1>4
<1>9. ReportOK(output')
  <2> HIDE DEF n
  <2>1. \A k \in DOMAIN output'.totals : output'.totals[k] = TotalOf(output'.rows, AggrGroups[k])
    BY <1>3, <1>5, <1>6, <1>8 DEF ReportOK, total
  <2>2. \A k \in DOMAIN output'.gaps :
          /\ k \in DOMAIN output'.totals /\ k \in DOMAIN output'.available
          /\ output'.gaps[k] = GapOf(output'.totals[k], output'.available[k])
    BY <1>3, <1>5, <1>8 DEF ReportOK
  <2> QED BY <1>3, <1>5, <2>1, <2>2 DEF ReportOK
<1> QED BY <1>7, <1>9 DEF ReportIInv

LEMMA RowTornOK == ASSUME ComplianceIInv, ReportIInv, FlushInRow PROVE ReportIInv'
<1>1. /\ phase = "write" /\ Len(output.rows) < Len(Rows) /\ UNCHANGED <<case, phase, tables>>
      /\ \E x : output' = [output EXCEPT !.tornRow = x]
  BY DEF FlushInRow, Missing
<1>2. output \in Report /\ output' \in Report /\ Rows' = Rows /\ Rows \in Seq(Row)
  BY <1>1, RowTorn, WritesReport
<1>3. /\ output'.rows = output.rows /\ output'.totals = output.totals /\ output'.gaps = output.gaps
      /\ output'.available = output.available /\ output'.tornStock = output.tornStock
  BY <1>1, <1>2 DEF Report
<1>4. WritingOK /\ ReportOK(output)
  BY <1>1, <1>2, NoFileIsNoReport DEF ReportIInv
<1>5. output.totals = <<>>
  <2>1. output.rows \in Seq(Row) /\ output.totals \in Seq(Total)
    BY <1>2 DEF Report
  <2> QED BY <1>1, <1>2, <1>4, <2>1 DEF WritingOK
<1>6. WritingOK'
  BY <1>2, <1>3, <1>4 DEF WritingOK
<1>7. ReportOK(output')
  BY <1>3, <1>4, <1>5 DEF ReportOK
<1> QED BY <1>6, <1>7 DEF ReportIInv

LEMMA StockTornOK == ASSUME ComplianceIInv, ReportIInv, FlushInStock PROVE ReportIInv'
<1>1. /\ phase = "write" /\ Len(output.available) < 4 /\ UNCHANGED <<case, phase, tables>>
      /\ \E x : output' = [output EXCEPT !.tornStock = x]
  BY DEF FlushInStock, Missing
<1>2. output \in Report /\ output' \in Report /\ Rows' = Rows /\ Rows \in Seq(Row)
  BY <1>1, StockTorn, WritesReport
<1>3. /\ output'.rows = output.rows /\ output'.totals = output.totals /\ output'.gaps = output.gaps
      /\ output'.available = output.available /\ output'.tornRow = output.tornRow
  BY <1>1, <1>2 DEF Report
<1>4. WritingOK /\ ReportOK(output)
  BY <1>1, <1>2, NoFileIsNoReport DEF ReportIInv
<1>5. output.gaps = <<>>
  BY <1>1, <1>4 DEF WritingOK
<1>6. WritingOK'
  BY <1>2, <1>3, <1>4 DEF WritingOK
<1>7. ReportOK(output')
  BY <1>3, <1>4, <1>5 DEF ReportOK
<1> QED BY <1>6, <1>7 DEF ReportIInv

LEMMA AvailableWrittenOK == ASSUME ComplianceIInv, ReportIInv, WriteAvailable PROVE ReportIInv'
<1> DEFINE n == Len(output.available)
           available == AvailableOf(LoadSubscriptions, AggrGroups[n + 1])
<1>1. /\ phase = "write" /\ Len(output.available) < 4 /\ output' = [output EXCEPT !.available = Append(@, available), !.tornRow = <<>>, !.tornStock = <<>>]
      /\ UNCHANGED <<case, phase, tables>>
  BY DEF WriteAvailable, WriteTo, NextGroup, Missing
<1>2. output \in Report /\ output' \in Report /\ Rows' = Rows /\ Rows \in Seq(Row)
  BY <1>1, AvailableWritten, WritesReport
<1> HIDE DEF available
<1>3. /\ output.available \in Seq(Balance) /\ output'.available = Append(output.available, available)
      /\ output'.rows = output.rows /\ output'.totals = output.totals /\ output'.gaps = output.gaps
      /\ output'.tornRow = <<>> /\ output'.tornStock = <<>>
  BY <1>1, <1>2 DEF Report
<1>4. WritingOK /\ ReportOK(output)
  BY <1>1, <1>2, NoFileIsNoReport DEF ReportIInv
<1>5. \A k \in DOMAIN output.available :
        k \in DOMAIN output'.available /\ output'.available[k] = output.available[k]
  BY <1>3
<1>6. WritingOK'
  <2>1. output.gaps = <<>>
    BY <1>1, <1>4 DEF WritingOK
  <2> QED BY <1>2, <1>3, <1>4, <2>1 DEF WritingOK
<1>7. ReportOK(output')
  <2>1. \A k \in DOMAIN output'.gaps :
          /\ k \in DOMAIN output'.totals /\ k \in DOMAIN output'.available
          /\ output'.gaps[k] = GapOf(output'.totals[k], output'.available[k])
    BY <1>3, <1>4, <1>5 DEF ReportOK
  <2> QED BY <1>3, <1>4, <2>1 DEF ReportOK
<1> QED BY <1>6, <1>7 DEF ReportIInv

LEMMA GapWrittenOK == ASSUME ComplianceIInv, ReportIInv, WriteGap PROVE ReportIInv'
<1> DEFINE i == Len(output.gaps) + 1
           gap == GapOf(output.totals[i], output.available[i])
<1>1. /\ phase = "write" /\ Len(output.gaps) < 4
      /\ ~(Len(output.totals) < 4) /\ ~(Len(output.available) < 4)
      /\ output' = [output EXCEPT !.gaps = Append(@, gap), !.tornRow = <<>>, !.tornStock = <<>>]
      /\ UNCHANGED <<case, phase, tables>>
  BY DEF WriteGap, WriteTo, Missing
<1>2. output \in Report /\ output' \in Report /\ Rows' = Rows /\ Rows \in Seq(Row)
  BY <1>1, GapWritten, WritesReport
<1>3. /\ output.totals \in Seq(Total) /\ output.available \in Seq(Balance)
      /\ output.gaps \in Seq(Balance)
  BY <1>2 DEF Report
<1>4. i \in DOMAIN output.totals /\ i \in DOMAIN output.available
  BY <1>1, <1>3
<1> HIDE DEF gap
<1>5. /\ output'.gaps = Append(output.gaps, gap)
      /\ output'.rows = output.rows /\ output'.totals = output.totals
      /\ output'.available = output.available
      /\ output'.tornRow = <<>> /\ output'.tornStock = <<>>
  BY <1>1, <1>2 DEF Report
<1>6. WritingOK /\ ReportOK(output)
  BY <1>1, <1>2, NoFileIsNoReport DEF ReportIInv
<1>7. /\ DOMAIN output'.gaps = DOMAIN output.gaps \cup {i} /\ i \notin DOMAIN output.gaps
      /\ output'.gaps[i] = gap
      /\ \A k \in DOMAIN output.gaps : output'.gaps[k] = output.gaps[k]
  BY <1>3, <1>5
<1>8. WritingOK'
  BY <1>1, <1>2, <1>5, <1>6 DEF WritingOK
<1> HIDE DEF i
<1>9. ReportOK(output')
  <2>1. \A k \in DOMAIN output'.gaps :
          /\ k \in DOMAIN output'.totals /\ k \in DOMAIN output'.available
          /\ output'.gaps[k] = GapOf(output'.totals[k], output'.available[k])
    BY <1>4, <1>5, <1>6, <1>7 DEF ReportOK, gap
  <2> QED BY <1>5, <1>6, <2>1 DEF ReportOK
<1> QED BY <1>8, <1>9 DEF ReportIInv

LEMMA ReportSteps == ASSUME ComplianceIInv, ReportIInv, ComplianceNext PROVE ReportIInv'
<1>1. CASE \/ OpenReport \/ WriteRow \/ FlushInRow \/ FlushInStock
           \/ WriteTotal \/ WriteAvailable \/ WriteGap
  BY <1>1, OpenedOK, RowWrittenOK, RowTornOK, StockTornOK, TotalWrittenOK, AvailableWrittenOK,
     GapWrittenOK, Zenon
<1>2. CASE ReadHeader \/ ReadNode \/ ReadVersions \/ SkipLine
  BY <1>2, ReportStays DEF ReadHeader, ReadNode, ReadVersions, SkipLine, ReadLine
<1>3. CASE StartEvaluation \/ CloseReport \/ KillEvaluation
  BY <1>3, ReportStays DEF StartEvaluation, CloseReport, KillEvaluation
<1> QED BY <1>1, <1>2, <1>3, Zenon DEF ComplianceNext

\* The report a sheet was made from, however the file went on.
SheetIInv ==
  imported = NoFile \/ (imported \in Report /\ ReportOK(imported) /\ sheet = SheetOf(imported))

LEMMA ReportInvariant == ReportingSpec => [](ReportIInv /\ SheetIInv)
<1>1. ReportingInit => ReportIInv /\ SheetIInv
  <2>1. ComplianceInit => output = NoFile /\ phase = "idle"
    BY DEF ComplianceInit
  <2> QED BY <2>1 DEF ReportingInit, ReportIInv, SheetIInv
<1>2. ASSUME ComplianceIInv, ReportIInv, SheetIInv, [ReportingNext]_reportingVars
      PROVE  ReportIInv' /\ SheetIInv'
  <2>1. CASE ComplianceNext /\ UNCHANGED <<allocationVars, imported, imports>>
    <3>1. ReportIInv'
      BY <1>2, <2>1, ReportSteps
    <3>2. case' = case /\ sheet' = sheet /\ imported' = imported
      BY <2>1, Zenon DEF ComplianceNext, StartEvaluation, ReadHeader, ReadNode, ReadVersions, SkipLine,
         ReadLine, OpenReport, WriteRow, FlushInRow, FlushInStock, WriteTotal, WriteAvailable,
         WriteGap, WriteTo, CloseReport,
         KillEvaluation, allocationVars
    <3> QED BY <1>2, <3>1, <3>2, SameCase DEF SheetIInv
  <2>2. CASE UNCHANGED complianceVars /\ UNCHANGED <<sheet, imported>>
    <3>1. Rows' = Rows /\ case' = case /\ phase' = phase /\ output' = output
      BY <2>2, RowsStay DEF complianceVars
    <3> QED BY <1>2, <2>2, <3>1, ReportStays, SameCase DEF SheetIInv
  <2>3. CASE Import
    <3>1. Rows' = Rows /\ case' = case /\ phase' = phase /\ output' = output
      BY <2>3, RowsStay DEF complianceVars, Import
    <3>2. imported' = output /\ sheet' = SheetOf(output) /\ output # NoFile
      BY <2>3 DEF Import
    <3>3. output \in Report /\ ReportOK(output)
      BY <1>2, <3>2 DEF ComplianceIInv, ReportIInv
    <3> QED BY <1>2, <3>1, <3>2, <3>3, ReportStays, SameCase DEF SheetIInv
  <2>4. CASE (Draw \/ DrawFromNowhere) /\ UNCHANGED <<complianceVars, imported, imports>>
    <3>1. sheet' = sheet
      BY <2>4 DEF Draw, DrawFromNowhere
    <3> QED BY <2>2, <2>4, <3>1
  <2>5. CASE ReportingDone \/ UNCHANGED reportingVars
    <3>1. UNCHANGED complianceVars /\ UNCHANGED <<sheet, imported>>
      BY <2>5 DEF ReportingDone, reportingVars, allocationVars
    <3> QED BY <2>2, <3>1
  <2> QED BY <1>2, <2>1, <2>3, <2>4, <2>5, Zenon DEF ReportingNext
<1> QED BY <1>1, <1>2, ComplianceInvariant, PTL DEF ReportingSpec

-----------------------------------------------------------------------------
\* The gap is what the colours tell.

\* What some rows need is a sum over them.
LEMMA NeededSum ==
  ASSUME NEW rows \in Seq(Row), NEW S \in SUBSET DOMAIN rows
  PROVE  Needed(rows, S) = SumOver([i \in DOMAIN rows |-> rows[i].phys + rows[i].virt], S)
<1> DEFINE w == [i \in DOMAIN rows |-> rows[i].phys + rows[i].virt]
           f == [i \in S |-> rows[i]["phys"]]
           g == [i \in S |-> rows[i]["virt"]]
<1>1. IsFiniteSet(S)
  <2>1. DOMAIN rows = 1 .. Len(rows) /\ Len(rows) \in Nat
    OBVIOUS
  <2>2. IsFiniteSet(DOMAIN rows)
    BY <2>1, FS_Interval
  <2> QED BY <2>2, FS_Subset, Zenon
<1>2. \A i \in S : f[i] \in Nat /\ g[i] \in Nat /\ w[i] = f[i] + g[i]
  <2>1. \A i \in S : rows[i] \in Row
    OBVIOUS
  <2> QED BY <2>1 DEF Row
<1>3. Needed(rows, S) = SumOver(f, S) + SumOver(g, S)
  BY DEF Needed, SumOf
<1> HIDE DEF f, g, w
<1>4. SumOver(w, S) = SumOver(f, S) + SumOver(g, S)
  BY <1>1, <1>2, SumPlus
<1> QED BY <1>3, <1>4 DEF w

\* What the clusters of a queue draw from a pool, and the rows of a report that
\* one architecture and support level have.
DrawnFrom(queue, pool) ==
  SumOver([q \in DOMAIN queue |-> queue[q].cost], {q \in DOMAIN queue : queue[q].pool = pool})
RowsFor(rows, arch, support) ==
  {i \in DOMAIN rows : rows[i].arch = arch /\ rows[i].support = support}

\* What the clusters of a queue draw from a pool together is what the rows of
\* its architecture and support level need.
LEMMA QueueNeeds ==
  ASSUME case \in Cases, NEW rows \in Seq(Row),
         \A i, j \in DOMAIN rows : rows[i].cluster = rows[j].cluster
           => rows[i].support = rows[j].support /\ rows[i].arch = rows[j].arch,
         NEW arch, NEW support
  PROVE  DrawnFrom(QueueOf(rows), Group(arch, support)) = Needed(rows, RowsFor(rows, arch, support))
<1> DEFINE queue == QueueOf(rows)
           mine == {i \in DOMAIN rows : rows[i].arch = arch /\ rows[i].support = support}
           n == Cardinality(IdsOf(rows))
           costs == [q \in DOMAIN queue |-> queue[q].cost]
           Q == {q \in DOMAIN queue : queue[q].pool = Group(arch, support)}
           w == [i \in DOMAIN rows |-> rows[i].phys + rows[i].virt]
<1>1. n \in Nat
  BY IdsAre, FS_CardinalityType
<1>2. PICK c \in Bijection(1 .. n, IdsOf(rows)) : queue = [i \in 1 .. n |-> Entry(rows, c[i])]
  BY QueueHolds
<1> DEFINE A == [q \in Q |-> {i \in DOMAIN rows : rows[i].cluster = c[q]}]
<1>3. /\ \A q \in 1 .. n : c[q] \in IdsOf(rows)
      /\ \A p, q \in 1 .. n : c[p] = c[q] => p = q
      /\ \A x \in IdsOf(rows) : \E q \in 1 .. n : c[q] = x
  BY <1>2 DEF Bijection, Injection, Surjection, IsInjective
<1> HIDE DEF n
<1>4. /\ DOMAIN queue = 1 .. n
      /\ \A q \in 1 .. n : /\ queue[q].pool = ClusterOf(rows, c[q]).pool
                           /\ queue[q].cost = ClusterOf(rows, c[q]).cost
  BY <1>2 DEF Entry
<1> HIDE DEF queue
<1>5. Q \subseteq 1 .. n /\ IsFiniteSet(Q)
  <2>1. IsFiniteSet(1 .. n) /\ Q \in SUBSET (1 .. n)
    BY <1>1, <1>4, FS_Interval
  <2> QED BY <2>1, FS_Subset, Zenon
<1>6. \A i \in DOMAIN rows : w[i] \in Nat
  <2>1. ASSUME NEW i \in DOMAIN rows PROVE rows[i].phys \in Nat /\ rows[i].virt \in Nat
    <3>1. rows[i] \in Row
      OBVIOUS
    <3> QED BY <3>1 DEF Row
  <2> QED BY <2>1
<1>7. ASSUME NEW q \in Q
      PROVE  /\ A[q] \in SUBSET DOMAIN rows /\ IsFiniteSet(A[q]) /\ \A i \in A[q] : w[i] \in Nat
             /\ costs[q] = SumOver(w, A[q])
  <2>1. A[q] \in SUBSET DOMAIN rows
    OBVIOUS
  <2>2. IsFiniteSet(A[q])
    <3>1. DOMAIN rows = 1 .. Len(rows) /\ Len(rows) \in Nat
      OBVIOUS
    <3>2. IsFiniteSet(DOMAIN rows)
      BY <3>1, FS_Interval
    <3> QED BY <2>1, <3>2, FS_Subset, Zenon
  <2>3. costs[q] = Needed(rows, A[q])
    BY <1>4, <1>5 DEF ClusterOf
  <2>4. Needed(rows, A[q]) = SumOver(w, A[q])
    BY <2>1, NeededSum
  <2> HIDE DEF A, w, costs
  <2> QED BY <1>6, <2>1, <2>2, <2>3, <2>4
<1>8. \A p, q \in Q : p # q => A[p] \cap A[q] = {}
  BY <1>3, <1>5
<1>9. UNION {A[q] : q \in Q} = mine
  <2>1. ASSUME NEW q \in 1 .. n, NEW i \in DOMAIN rows, rows[i].cluster = c[q]
        PROVE  q \in Q <=> i \in mine
    <3> DEFINE own == {j \in DOMAIN rows : rows[j].cluster = c[q]}
               first == rows[Min(own)]
    <3>1. Min(own) \in own
      <4>1. own \subseteq Nat /\ own # {}
        BY <2>1
      <4> HIDE DEF own
      <4> QED BY <4>1, MinIs
    <3>2. first.arch = rows[i].arch /\ first.support = rows[i].support
      BY <2>1, <3>1
    <3>3. queue[q].pool = Group(first.arch, first.support)
      BY <1>4 DEF ClusterOf
    <3>4. q \in Q <=> queue[q].pool = Group(arch, support)
      BY <1>4
    <3> HIDE DEF first, own, Q
    <3>5. Group(first.arch, first.support) = Group(arch, support)
            <=> first.arch = arch /\ first.support = support
      BY DEF Group
    <3> QED BY <3>2, <3>3, <3>4, <3>5
  <2>2. ASSUME NEW i \in mine PROVE \E q \in Q : i \in A[q]
    <3>1. rows[i].cluster \in IdsOf(rows)
      BY DEF IdsOf
    <3>2. PICK q \in 1 .. n : c[q] = rows[i].cluster
      BY <1>3, <3>1
    <3> QED BY <2>1, <3>2
  <2>3. ASSUME NEW q \in Q, NEW i \in A[q] PROVE i \in mine
    BY <1>5, <2>1
  <2> HIDE DEF A, Q, mine
  <2> QED BY <2>2, <2>3
<1> HIDE DEF A, Q, w, costs, mine
<1>10. SumOver(costs, Q) = SumOver(w, mine)
  <2>1. \A q \in Q : IsFiniteSet(A[q]) /\ costs[q] = SumOver(w, A[q]) /\ \A i \in A[q] : w[i] \in Nat
    BY <1>7
  <2>2. SplitsSum(costs, w, Q, A, mine)
    BY <1>5, <1>8, <1>9, <2>1 DEF SplitsSum
  <2> QED BY <2>2, SumOfSums
<1>11. Needed(rows, mine) = SumOver(w, mine)
  BY NeededSum DEF mine, w
<1>12. SumOver(costs, Q) = Needed(rows, mine)
  BY <1>10, <1>11
<1> QED BY <1>12 DEF costs, Q, mine, queue, DrawnFrom, RowsFor

LEMMA GroupsAre ==
  /\ DOMAIN AggrGroups = 1 .. 4
  /\ \A k \in 1 .. 4 : AggrGroups[k] = Group(AggrGroups[k].arch, AggrGroups[k].support)
  /\ \A k, l \in 1 .. 4 : AggrGroups[k] = AggrGroups[l] => k = l
BY DEF AggrGroups, Group

\* A pool holds what the report says is available.
LEMMA StockHolds ==
  ASSUME NEW r \in Report, NEW k \in 1 .. 4, k \in DOMAIN StocksIn(r)
  PROVE  StockOf(r)[AggrGroups[k]] = StocksIn(r)[k].base
<1> DEFINE I == {i \in 1 .. Len(AggrGroups) : AggrGroups[i] = AggrGroups[k]}
<1>1. Len(AggrGroups) = 4
  BY DEF AggrGroups
<1>2. I = {k}
  BY <1>1, GroupsAre
<1>3. Min(I) = k
  <2>1. I \subseteq Nat /\ I # {}
    BY <1>2
  <2> HIDE DEF I
  <2>2. Min(I) \in I
    BY <2>1, MinIs
  <2> QED BY <1>2, <2>2
<1>4. AggrGroups[k] \in Pool
  BY ReportingAssumption
<1> DEFINE at(p) == IF {i \in 1 .. Len(AggrGroups) : AggrGroups[i] = p} # {}
                    THEN Min({i \in 1 .. Len(AggrGroups) : AggrGroups[i] = p}) ELSE 0
<1>5. StockOf(r) = [p \in Pool |-> IF at(p) \in DOMAIN StocksIn(r) THEN StocksIn(r)[at(p)].base ELSE 0]
  BY DEF StockOf, SelectInSeq
<1>6. at(AggrGroups[k]) = k
  BY <1>2, <1>3
<1> HIDE DEF at
<1> QED BY <1>4, <1>5, <1>6

LEMMA GapColoured ==
  ASSUME ComplianceIInv, SheetIInv, AllocationTypeOK, Drawn, GreenIffCovered
  PROVE  GapIsColoured
<1> SUFFICES ASSUME Coloured, Complete(imported), OneArchitecture,
                    NEW k \in 1 .. 4, Members(AggrGroups[k]) # {}
             PROVE  (\A i \in Members(AggrGroups[k]) : colours[i] = "GREEN")
                      <=> imported.gaps[k].base <= 0
  BY DEF GapIsColoured
<1> DEFINE g == AggrGroups[k]
           rows == imported.rows
           mine == {i \in DOMAIN rows : rows[i].arch = g.arch /\ rows[i].support = g.support}
<1>1. imported \in Report /\ ReportOK(imported) /\ sheet = SheetOf(imported) /\ case \in Cases
  BY DEF SheetIInv, Coloured, ComplianceIInv
<1>2. /\ rows \in Seq(Row) /\ imported.gaps \in Seq(Balance) /\ imported.totals \in Seq(Total)
      /\ imported.available \in Seq(Balance)
  BY <1>1 DEF Report
<1>3. k \in DOMAIN imported.gaps
  BY <1>2 DEF Complete
<1>4. /\ k \in DOMAIN imported.totals /\ k \in DOMAIN imported.available
      /\ imported.gaps[k] = GapOf(imported.totals[k], imported.available[k])
      /\ imported.totals[k] = TotalOf(rows, g)
  BY <1>1, <1>3 DEF ReportOK
<1>5. /\ imported.totals[k] \in Total /\ imported.available[k] \in Balance
  BY <1>2, <1>4
<1>6. imported.gaps[k].base = Needed(rows, mine) - imported.available[k].base
  BY <1>4 DEF GapOf, TotalOf
<1>7. Needed(rows, mine) \in Int /\ imported.available[k].base \in Int
  BY <1>2, <1>5, NeededIs DEF Balance
<1>8. g \in Pool /\ g = Group(g.arch, g.support)
  BY GroupsAre, ReportingAssumption
<1>9. sheet.queue = QueueOf(rows) /\ sheet.stock[g] = imported.available[k].base
  <2>1. imported.tornRow = <<>> /\ imported.tornStock = <<>>
    BY <1>1, <1>3, <1>4 DEF ReportOK
  <2>2. RowsIn(imported) = rows /\ StocksIn(imported) = imported.available
    BY <1>2, <2>1 DEF RowsIn, StocksIn
  <2> QED BY <1>1, <1>4, <2>2, StockHolds DEF SheetOf
<1>10. DOMAIN colours = DOMAIN sheet.queue
  BY DEF Coloured, AllocationTypeOK, Sheet
<1>11. running[g] = Needed(rows, mine)
  <2>1. \A i, j \in DOMAIN rows : rows[i].cluster = rows[j].cluster
           => rows[i].support = rows[j].support /\ rows[i].arch = rows[j].arch
    BY <1>1 DEF ReportOK, OneArchitecture
  <2>2. DrawnFrom(sheet.queue, g) = Needed(rows, RowsFor(rows, g.arch, g.support))
    <3> HIDE DEF g, mine, rows
    <3>1. DrawnFrom(QueueOf(rows), Group(g.arch, g.support)) = Needed(rows, RowsFor(rows, g.arch, g.support))
      BY <1>1, <1>2, <2>1, QueueNeeds
    <3> QED BY <1>8, <1>9, <3>1
  <2>3. SumOver(Costs, DrawnBy(g)) = Needed(rows, mine)
    <3> HIDE DEF g, mine, rows
    <3>1. SumOver(Costs, DrawnBy(g)) = DrawnFrom(sheet.queue, g)
      BY <1>10 DEF Costs, DrawnBy, PoolOf, DrawnFrom
    <3>2. RowsFor(rows, g.arch, g.support) = mine
      BY DEF RowsFor, mine
    <3> QED BY <2>2, <3>1, <3>2
  <2> QED BY <1>8, <2>3 DEF Drawn
<1>12. Members(g) = {i \in DOMAIN colours : PoolOf(i) = g}
  BY DEF Members
<1> HIDE DEF g, mine, rows
<1>13. (\A i \in Members(g) : colours[i] = "GREEN") <=> running[g] <= sheet.stock[g]
  <2>1. Members(g) # {}
    BY DEF g
  <2> QED BY <1>8, <1>12, <2>1 DEF GreenIffCovered
<1>14. (\A i \in Members(g) : colours[i] = "GREEN") <=> imported.gaps[k].base <= 0
  BY <1>6, <1>7, <1>9, <1>11, <1>13
<1> QED BY <1>14 DEF g

\* README.md:1017: in a sheet made from a whole report the clusters of a group
\* are all GREEN exactly if the group's GAP row is not positive, whatever the
\* clusters, dates and stocks, and whatever became of the file meanwhile.
THEOREM ColoursTellGap == ReportingSpec => []GapIsColoured
<1>1. AllocationIInv => AllocationTypeOK
  BY DEF AllocationIInv
<1>2. AllocationSpec => []AllocationTypeOK
  BY <1>1, AllocationInitial, AllocationInductive, PTL DEF AllocationSpec
<1>3. ReportingSpec => AllocationSpec
  BY ReportsAreAllocated DEF ColoursAsAllocated
<1> QED BY <1>2, <1>3, ComplianceInvariant, ReportInvariant, TotalsAreDrawn, ColoursTellTheGap,
           GapColoured, PTL

-----------------------------------------------------------------------------
\* What the tables hold of the lines read so far.

\* The headers that are not passed over, and the R lines that go to the key of
\* one of them.
Kept == {i \in Of("H") : ~IsHosted(Lines[i])}
GoesTo(i, j) == j \in Of("R") /\ i < j /\ \A k \in Kept : ~(i < k /\ k < j)
NodesOf(c, n) == {i \in Of("N") : i <= n /\ Lines[i].cluster = c}

HeadersHold(n) ==
  /\ DOMAIN headers = {Lines[i].cluster : i \in {j \in Kept : j <= n}}
  /\ \A i \in Kept : i <= n => headers[Lines[i].cluster] = HeaderOf(Lines[i])

\* Every N line read is once in the list of its cluster.
NodesHold(n) ==
  \A c \in DOMAIN headers : \E w :
    /\ Numbers(w, Len(nodes[c]), NodesOf(c, n))
    /\ \A k \in 1 .. Len(nodes[c]) : nodes[c][k] = Lines[w[k]]

OrderHolds(n) ==
  \A i \in Kept : (i <= n /\ \A k \in Kept : k <= n => k <= i)
    => order # <<>> /\ Last(order) = Lines[i].cluster

\* A cluster has a version exactly if an R line that decodes went to it, and
\* then that of such a line.
VersionsHold(n) ==
  \A i \in Kept : i <= n =>
    LET c == Lines[i].cluster
        given == {j \in 1 .. n : GoesTo(i, j) /\ Lines[j].version # "garbled"}
    IN  /\ c \in DOMAIN versions <=> given # {}
        /\ c \in DOMAIN versions => \E j \in given : versions[c] = Lines[j].version

TablesHold(n) == HeadersHold(n) /\ NodesHold(n) /\ OrderHolds(n) /\ VersionsHold(n)

LinesRead == Len(Lines) - Len(todo)

ReadIInv ==
  phase # "idle" =>
    /\ Len(todo) <= Len(Lines) /\ \A m \in 1 .. Len(todo) : todo[m] = Lines[LinesRead + m]
    /\ phase = "write" => todo = <<>>
    /\ TablesHold(LinesRead)

-----------------------------------------------------------------------------
\* A beginning of an input is arranged as the input is.
LEMMA LinesAre ==
  ASSUME case \in Cases
  PROVE  /\ Lines \in Seq(InputLines) /\ Len(Lines) \in Nat /\ DOMAIN Lines = 1 .. Len(Lines)
         /\ \A i \in DOMAIN Lines : IsLine(Lines[i]) /\ Lines[i] \in InputLines
         /\ IsDeduplicated(Lines)
<1> DEFINE s == case.input
           n == case.cut
<1>1. s \in Seq(InputLines) /\ n \in 0 .. Len(s) /\ \A l \in InputLines : IsLine(l)
  BY CaseIs
<1>2. IsDeduplicated(s)
  BY CaseIs DEF IsCase
<1> HIDE DEF s, n
<1>3. /\ SubSeq(s, 1, n) \in Seq(InputLines) /\ Len(SubSeq(s, 1, n)) = n /\ n \in Nat
      /\ \A i \in 1 .. n : SubSeq(s, 1, n)[i] = s[i] /\ i \in DOMAIN s
  BY <1>1
<1>4. Lines = SubSeq(s, 1, n)
  BY DEF Lines, s, n
<1> DEFINE t == Lines
<1>5. t \in Seq(InputLines) /\ Len(t) = n /\ DOMAIN t = 1 .. n /\ \A i \in 1 .. n : t[i] = s[i]
  BY <1>3, <1>4
<1>6. \A i \in 1 .. n : t[i] \in InputLines
  BY <1>5
<1> HIDE DEF t
<1>7. IsDeduplicated(t)
  <2>1. \A i, j \in DOMAIN t :
          (t[i].kind = "H" /\ t[j].kind = "H" /\ t[i].cluster = t[j].cluster) => i = j
    BY <1>2, <1>3, <1>5 DEF IsDeduplicated
  <2>2. ASSUME NEW i \in DOMAIN t, t[i].kind = "N"
        PROVE  \E h \in 1 .. i - 1 : /\ t[h].kind = "H" /\ t[h].cluster = t[i].cluster
                                     /\ \A k \in h + 1 .. i : t[k].kind = "N"
    <3>1. i \in 1 .. n /\ i \in DOMAIN s /\ s[i].kind = "N" /\ s[i] = t[i]
      BY <1>3, <1>5, <2>2
    <3>2. PICK h \in 1 .. i - 1 : /\ s[h].kind = "H" /\ s[h].cluster = s[i].cluster
                                  /\ \A k \in h + 1 .. i : s[k].kind = "N"
      BY <1>2, <3>1 DEF IsDeduplicated
    <3>3. h \in 1 .. n /\ \A k \in h + 1 .. i : k \in 1 .. n
      BY <1>3, <3>1
    <3> QED BY <1>5, <3>1, <3>2, <3>3
  <2>3. ASSUME NEW i \in DOMAIN t, NEW j \in DOMAIN t, i < j, t[i].kind = "R", t[j].kind = "R"
        PROVE  \E h \in i .. j : t[h].kind = "H"
    <3>1. i \in 1 .. n /\ j \in 1 .. n /\ i \in DOMAIN s /\ j \in DOMAIN s
          /\ s[i].kind = "R" /\ s[j].kind = "R"
      BY <1>3, <1>5, <2>3
    <3>2. PICK h \in i .. j : s[h].kind = "H"
      BY <1>2, <2>3, <3>1 DEF IsDeduplicated
    <3>3. h \in 1 .. n
      BY <1>3, <3>1
    <3> QED BY <1>5, <3>2, <3>3
  <2> QED BY <2>1, <2>2, <2>3 DEF IsDeduplicated
<1> QED BY <1>1, <1>3, <1>5, <1>6, <1>7 DEF t

LEMMA HostedIs ==
  ASSUME NEW l, l.layout \in {"current", "superseded"}
  PROVE  HeaderOf(l).platform \in Hosted <=> IsHosted(l)
<1>1. CASE l.layout = "superseded"
  <2>1. HeaderOf(l).platform = "a date"
    BY <1>1 DEF HeaderOf
  <2> QED BY <1>1, <2>1 DEF Hosted, IsHosted
<1>2. CASE l.layout = "current"
  <2>1. HeaderOf(l).platform = CleanVal(l.platform)
    BY <1>2 DEF HeaderOf
  <2> QED BY <1>2, <2>1 DEF CleanVal, Hosted, IsHosted
<1> QED BY <1>1, <1>2

\* Each cluster has one header, before its nodes.
LEMMA OwnHeader ==
  ASSUME case \in Cases
  PROVE  /\ \A i, j \in Of("H") : Lines[i].cluster = Lines[j].cluster => i = j
         /\ \A i \in Of("N") : \E h \in Of("H") : h < i /\ Lines[h].cluster = Lines[i].cluster
         /\ \A i \in Of("H") : Lines[i].cluster \in Cluster
                                /\ Lines[i].layout \in {"current", "superseded"}
         /\ Kept \subseteq Of("H") /\ \A kind : Of(kind) \subseteq 1 .. Len(Lines)
<1>1. /\ Lines \in Seq(InputLines) /\ Len(Lines) \in Nat /\ DOMAIN Lines = 1 .. Len(Lines)
      /\ \A i \in DOMAIN Lines : IsLine(Lines[i])
      /\ IsDeduplicated(Lines)
  BY LinesAre
<1>2. \A i, j \in Of("H") : Lines[i].cluster = Lines[j].cluster => i = j
  BY <1>1 DEF Of, IsDeduplicated
<1>3. ASSUME NEW i \in Of("N")
      PROVE  \E h \in Of("H") : h < i /\ Lines[h].cluster = Lines[i].cluster
  <2>1. i \in DOMAIN Lines /\ Lines[i].kind = "N"
    BY DEF Of
  <2>2. PICK h \in 1 .. i - 1 : Lines[h].kind = "H" /\ Lines[h].cluster = Lines[i].cluster
    BY <1>1, <2>1 DEF IsDeduplicated
  <2>3. h \in DOMAIN Lines /\ h < i
    BY <1>1, <2>1
  <2> QED BY <2>2, <2>3 DEF Of
<1>4. \A i \in Of("H") : Lines[i].cluster \in Cluster /\ Lines[i].layout \in {"current", "superseded"}
  BY <1>1 DEF Of, IsLine
<1>5. Kept \subseteq Of("H") /\ \A kind : Of(kind) \subseteq 1 .. Len(Lines)
  BY <1>1 DEF Kept, Of
<1> QED BY <1>2, <1>3, <1>4, <1>5

LEMMA SameLines ==
  ASSUME case' = case
  PROVE  /\ Lines' = Lines /\ Kept' = Kept /\ \A kind : Of(kind)' = Of(kind)
         /\ \A i, j : GoesTo(i, j)' = GoesTo(i, j)
         /\ \A c, n : NodesOf(c, n)' = NodesOf(c, n)
<1>1. Lines' = Lines
  BY DEF Lines
<1>2. \A kind : Of(kind)' = Of(kind)
  BY <1>1 DEF Of
<1>3. Kept' = Kept
  BY <1>1, <1>2 DEF Kept
<1>4. \A i, j : GoesTo(i, j)' = GoesTo(i, j)
  BY <1>2, <1>3 DEF GoesTo
<1>5. \A c, n : NodesOf(c, n)' = NodesOf(c, n)
  BY <1>1, <1>2 DEF NodesOf
<1> QED BY <1>1, <1>2, <1>3, <1>4, <1>5

LEMMA SameTables ==
  ASSUME UNCHANGED <<case, tables>>, NEW n, TablesHold(n)
  PROVE  TablesHold(n)'
<1>1. /\ order' = order /\ headers' = headers /\ nodes' = nodes /\ versions' = versions
  BY DEF tables
<1>2. HeadersHold(n)'
  BY <1>1, SameLines DEF TablesHold, HeadersHold
<1>3. NodesHold(n)'
  BY <1>1, SameLines DEF TablesHold, NodesHold
<1>4. OrderHolds(n)'
  BY <1>1, SameLines DEF TablesHold, OrderHolds
<1>5. VersionsHold(n)'
  BY <1>1, SameLines DEF TablesHold, VersionsHold
<1> QED BY <1>2, <1>3, <1>4, <1>5 DEF TablesHold

\* Reading the next line: it remains to show that the tables hold one line more.
LEMMA NextLine ==
  ASSUME ComplianceIInv, ReadIInv, NEW kind, ReadLine(kind)
  PROVE  \E n \in Nat :
           /\ n + 1 \in Of(kind) /\ Lines[n + 1] = Head(todo) /\ case' = case
           /\ TablesHold(n) /\ (TablesHold(n + 1)' => ReadIInv')
<1> DEFINE m == LinesRead
<1>1. /\ todo # <<>> /\ Head(todo).kind = kind /\ todo' = Tail(todo) /\ phase = "read"
      /\ case' = case /\ phase' = phase
  BY DEF ReadLine
<1>2. todo \in Seq(InputLines) /\ case \in Cases
  BY DEF ComplianceIInv
<1>3. /\ Len(todo) <= Len(Lines) /\ \A k \in 1 .. Len(todo) : todo[k] = Lines[m + k]
      /\ TablesHold(m)
  BY <1>1 DEF ReadIInv
<1>4. Len(Lines) \in Nat /\ DOMAIN Lines = 1 .. Len(Lines)
  BY <1>2, LinesAre
<1>5. /\ Len(todo) \in Nat \ {0} /\ Head(todo) = todo[1] /\ Len(todo') = Len(todo) - 1
      /\ \A k \in 1 .. Len(todo') : todo'[k] = todo[k + 1]
  BY <1>1, <1>2
<1>6. m = Len(Lines) - Len(todo)
  BY DEF LinesRead
<1> HIDE DEF m
<1>7. m \in Nat /\ m + 1 \in 1 .. Len(Lines) /\ Lines[m + 1] = Head(todo)
  BY <1>3, <1>4, <1>5, <1>6
<1>8. PICK n \in Nat : n = m
  BY <1>7
<1>9. LinesRead' = n + 1
  BY <1>1, <1>4, <1>5, <1>6, <1>8, SameLines DEF LinesRead
<1>10. Len(todo') <= Len(Lines) /\ \A k \in 1 .. Len(todo') : todo'[k] = Lines[n + 1 + k]
  <2>1. Len(todo') <= Len(Lines)
    BY <1>3, <1>4, <1>5
  <2>2. ASSUME NEW k \in 1 .. Len(todo') PROVE todo'[k] = Lines[n + 1 + k]
    <3>1. k + 1 \in 1 .. Len(todo) /\ m + (k + 1) = n + 1 + k
      BY <1>5, <1>7, <1>8
    <3>2. todo[k + 1] = Lines[m + (k + 1)]
      BY <1>3, <3>1
    <3> QED BY <1>5, <3>1, <3>2
  <2> QED BY <2>1, <2>2
<1>11. TablesHold(n + 1)' => ReadIInv'
  <2> SUFFICES ASSUME TablesHold(n + 1)' PROVE ReadIInv'
    OBVIOUS
  <2>1. TablesHold(LinesRead)'
    BY <1>9
  <2>2. Lines' = Lines /\ phase' # "write"
    BY <1>1, SameLines
  <2> QED BY <1>9, <1>10, <2>1, <2>2 DEF ReadIInv
<1>12. n + 1 \in Of(kind)
  BY <1>1, <1>4, <1>7, <1>8 DEF Of
<1> QED BY <1>1, <1>3, <1>7, <1>8, <1>11, <1>12

\* What a line that is no N line, no header that counts and no R line, or one
\* that nothing took notice of, leaves as it was.
LEMMA NoNewNode ==
  ASSUME NEW n \in Nat, n + 1 \notin Of("N"), case \in Cases
  PROVE  \A c : NodesOf(c, n + 1) = NodesOf(c, n)
<1>1. \A i \in Of("N") : i \in Nat
  BY OwnHeader, LinesAre
<1>2. \A i \in Of("N") : i <= n + 1 <=> i <= n
  BY <1>1
<1> QED BY <1>2 DEF NodesOf

LEMMA NoNewHeader ==
  ASSUME NEW n \in Nat, n + 1 \notin Kept, case \in Cases
  PROVE  \A i \in Kept : i <= n + 1 <=> i <= n
<1>1. \A i \in Kept : i \in Nat
  BY OwnHeader, LinesAre
<1> QED BY <1>1

LEMMA NoNewVersion ==
  ASSUME NEW n \in Nat, n + 1 \notin Of("R")
  PROVE  \A i : {j \in 1 .. n + 1 : GoesTo(i, j) /\ Lines[j].version # "garbled"}
                  = {j \in 1 .. n : GoesTo(i, j) /\ Lines[j].version # "garbled"}
<1>1. \A j : j \in 1 .. n + 1 <=> j \in 1 .. n \/ j = n + 1
  OBVIOUS
<1>2. \A i : ~GoesTo(i, n + 1)
  BY DEF GoesTo
<1> QED BY <1>1, <1>2

\* A T line, or the header of a hosted cluster.
LEMMA LinePassedOver ==
  ASSUME case \in Cases, UNCHANGED <<case, tables>>, NEW n \in Nat, TablesHold(n),
         n + 1 \notin Kept, n + 1 \notin Of("N"), n + 1 \notin Of("R")
  PROVE  TablesHold(n + 1)'
<1>1. TablesHold(n)'
  BY SameTables
<1>2. case' \in Cases
  OBVIOUS
<1>3. Kept' = Kept /\ Lines' = Lines
  BY SameLines
<1>4. \A i \in Kept : i <= n + 1 <=> i <= n
  BY NoNewHeader
<1>5. {j \in Kept : j <= n + 1} = {j \in Kept : j <= n}
  BY <1>4
<1>6. HeadersHold(n + 1)'
  BY <1>1, <1>3, <1>4, <1>5 DEF TablesHold, HeadersHold
<1>7. NodesHold(n + 1)'
  <2>1. \A c : NodesOf(c, n + 1)' = NodesOf(c, n)'
    BY NoNewNode, SameLines
  <2> QED BY <1>1, <2>1 DEF TablesHold, NodesHold
<1>8. OrderHolds(n + 1)'
  BY <1>1, <1>3, <1>4 DEF TablesHold, OrderHolds
<1>9. VersionsHold(n + 1)'
  <2>1. \A i : {j \in 1 .. n + 1 : GoesTo(i, j)' /\ Lines'[j].version # "garbled"}
                  = {j \in 1 .. n : GoesTo(i, j)' /\ Lines'[j].version # "garbled"}
    BY <1>3, NoNewVersion, SameLines
  <2> QED BY <1>1, <1>3, <1>4, <2>1 DEF TablesHold, VersionsHold
<1> QED BY <1>6, <1>7, <1>8, <1>9 DEF TablesHold

LEMMA KindsDiffer ==
  /\ Of("H") \cap Of("N") = {} /\ Of("H") \cap Of("R") = {} /\ Of("N") \cap Of("R") = {}
  /\ Of("T") \cap (Of("H") \cup Of("N") \cup Of("R")) = {}
BY DEF Of

LEMMA SkipKeeps == ASSUME ComplianceIInv, ReadIInv, SkipLine PROVE ReadIInv'
<1>1. ReadLine("T") /\ UNCHANGED tables
  BY DEF SkipLine
<1>2. PICK n \in Nat :
        /\ n + 1 \in Of("T") /\ Lines[n + 1] = Head(todo) /\ case' = case
        /\ TablesHold(n) /\ (TablesHold(n + 1)' => ReadIInv')
  BY <1>1, NextLine
<1>3. case \in Cases /\ n + 1 \notin Kept /\ n + 1 \notin Of("N") /\ n + 1 \notin Of("R")
  BY <1>2, KindsDiffer DEF ComplianceIInv, Kept
<1> QED BY <1>1, <1>2, <1>3, LinePassedOver

\* The header of a cluster none was read of.
LEMMA HeaderAdded ==
  ASSUME ComplianceIInv, NEW n \in Nat, n + 1 \in Kept, TablesHold(n), case' = case,
         LET l == Lines[n + 1] IN
           /\ order' = IF l.cluster \in DOMAIN headers THEN order ELSE Append(order, l.cluster)
           /\ headers' = Put(headers, l.cluster, HeaderOf(l))
           /\ nodes' = Put(nodes, l.cluster, <<>>)
           /\ UNCHANGED versions
  PROVE  TablesHold(n + 1)'
<1> DEFINE l == Lines[n + 1]
           c == l.cluster
<1>1. case \in Cases /\ TablesOK /\ n + 1 \in Of("H")
  BY DEF ComplianceIInv, Kept
<1>2. /\ \A i \in Kept : i \in Of("H") /\ i \in Nat /\ (Lines[i].cluster = c => i = n + 1)
      /\ \A i \in Of("N") : i \in Nat
      /\ \A i \in Of("N") : \E h \in Of("H") : h \in Nat /\ h < i /\ Lines[h].cluster = Lines[i].cluster
      /\ \A i \in Of("H") : Lines[i].cluster = c => i = n + 1
  BY <1>1, OwnHeader, LinesAre
<1>3. \A i \in Kept : i <= n + 1 <=> i <= n \/ i = n + 1
  BY <1>2
<1>4. c \notin DOMAIN headers
  <2>1. \A i \in Kept : i <= n => Lines[i].cluster # c
    BY <1>2
  <2> QED BY <2>1 DEF TablesHold, HeadersHold
<1>5. /\ order' = Append(order, c) /\ headers' = Put(headers, c, HeaderOf(l))
      /\ nodes' = Put(nodes, c, <<>>) /\ versions' = versions
  BY <1>4
<1>6. Lines' = Lines /\ Kept' = Kept
  BY SameLines
<1> HIDE DEF c, l
<1>7. /\ DOMAIN headers' = DOMAIN headers \cup {c}
      /\ headers'[c] = HeaderOf(l) /\ nodes'[c] = <<>>
      /\ \A d \in DOMAIN headers : d # c => headers'[d] = headers[d] /\ nodes'[d] = nodes[d]
  <2>1. DOMAIN nodes = DOMAIN headers
    BY <1>1 DEF TablesOK
  <2> QED BY <1>5, <2>1 DEF Put
<1>8. HeadersHold(n + 1)'
  <2>1. /\ DOMAIN headers = {Lines[i].cluster : i \in {j \in Kept : j <= n}}
        /\ \A i \in Kept : i <= n => headers[Lines[i].cluster] = HeaderOf(Lines[i])
    BY DEF TablesHold, HeadersHold
  <2>2. {j \in Kept : j <= n + 1} = {j \in Kept : j <= n} \cup {n + 1}
    BY <1>3
  <2>3. {Lines[i].cluster : i \in {j \in Kept : j <= n} \cup {n + 1}}
          = {Lines[i].cluster : i \in {j \in Kept : j <= n}} \cup {c}
    BY DEF c, l
  <2>4. DOMAIN headers' = {Lines[i].cluster : i \in {j \in Kept : j <= n + 1}}
    BY <1>7, <2>1, <2>2, <2>3, Zenon
  <2>5. ASSUME NEW i \in Kept, i <= n + 1 PROVE headers'[Lines[i].cluster] = HeaderOf(Lines[i])
    <3>1. CASE i = n + 1
      BY <1>7, <3>1 DEF c, l
    <3>2. CASE i <= n
      <4>1. Lines[i].cluster \in DOMAIN headers /\ Lines[i].cluster # c
        BY <1>4, <2>1, <3>2
      <4> QED BY <1>7, <2>1, <3>2, <4>1
    <3> QED BY <1>3, <2>5, <3>1, <3>2
  <2> QED BY <1>6, <2>4, <2>5 DEF HeadersHold
<1>9. NodesHold(n + 1)'
  <2>1. \A d : NodesOf(d, n + 1) = NodesOf(d, n)
    BY <1>1, KindsDiffer, NoNewNode
  <2>2. NodesOf(c, n + 1) = {}
    BY <1>2 DEF NodesOf
  <2>3. Numbers(<<>>, 0, {})
    BY DEF Numbers
  <2> SUFFICES ASSUME NEW d \in DOMAIN headers'
               PROVE  \E w : /\ Numbers(w, Len(nodes'[d]), NodesOf(d, n + 1))
                             /\ \A k \in 1 .. Len(nodes'[d]) : nodes'[d][k] = Lines[w[k]]
    BY <1>6, SameLines DEF NodesHold
  <2>4. CASE d = c
    <3>1. nodes'[d] = <<>> /\ Len(nodes'[d]) = 0 /\ NodesOf(d, n + 1) = {}
      BY <1>7, <2>2, <2>4
    <3>2. \A k \in 1 .. Len(nodes'[d]) : FALSE
      BY <3>1
    <3> QED BY <2>3, <3>1, <3>2, Zenon
  <2>5. CASE d # c
    <3>1. d \in DOMAIN headers /\ nodes'[d] = nodes[d]
      BY <1>7, <2>5
    <3> QED BY <2>1, <3>1 DEF TablesHold, NodesHold
  <2> QED BY <2>4, <2>5
<1>10. OrderHolds(n + 1)'
  <2>1. \A i \in Kept : (i <= n + 1 /\ \A k \in Kept : k <= n + 1 => k <= i) => i = n + 1
    BY <1>2
  <2>2. order' # <<>> /\ Last(order') = c
    <3>1. order \in Seq(Cluster) /\ c \in Cluster
      BY <1>1, OwnHeader DEF TablesOK, c, l
    <3> QED BY <1>5, <3>1 DEF Last
  <2> QED BY <1>6, <2>1, <2>2 DEF OrderHolds, c, l
<1>11. VersionsHold(n + 1)'
  <2> DEFINE given(i, m) == {j \in 1 .. m : GoesTo(i, j) /\ Lines[j].version # "garbled"}
  <2>1. \A i : given(i, n + 1) = given(i, n)
    BY <1>1, KindsDiffer, NoNewVersion
  <2>2. given(n + 1, n) = {}
    BY DEF GoesTo
  <2>3. c \notin DOMAIN versions
    BY <1>1, <1>4 DEF TablesOK
  <2> SUFFICES ASSUME NEW i \in Kept, i <= n + 1
               PROVE  /\ Lines[i].cluster \in DOMAIN versions <=> given(i, n + 1) # {}
                      /\ Lines[i].cluster \in DOMAIN versions
                           => \E j \in given(i, n + 1) : versions[Lines[i].cluster] = Lines[j].version
    BY <1>5, <1>6, SameLines DEF VersionsHold
  <2> HIDE DEF given
  <2>4. CASE i = n + 1
    BY <2>1, <2>2, <2>3, <2>4 DEF c, l
  <2>5. CASE i <= n
    BY <2>1, <2>5 DEF TablesHold, VersionsHold, given
  <2> QED BY <1>3, <2>4, <2>5
<1> QED BY <1>8, <1>9, <1>10, <1>11 DEF TablesHold

LEMMA HeaderKeeps == ASSUME ComplianceIInv, ReadIInv, ReadHeader PROVE ReadIInv'
<1> DEFINE l == Head(todo)
<1>1. ReadLine("H")
  BY DEF ReadHeader
<1>2. PICK n \in Nat :
        /\ n + 1 \in Of("H") /\ Lines[n + 1] = l /\ case' = case
        /\ TablesHold(n) /\ (TablesHold(n + 1)' => ReadIInv')
  BY <1>1, NextLine
<1>3. case \in Cases
  BY DEF ComplianceIInv
<1>4. HeaderOf(l).platform \in Hosted <=> IsHosted(l)
  BY <1>2, <1>3, OwnHeader, HostedIs
<1>5. CASE HeaderOf(l).platform \in Hosted /\ UNCHANGED tables
  <2>1. n + 1 \notin Kept /\ n + 1 \notin Of("N") /\ n + 1 \notin Of("R")
    BY <1>2, <1>4, <1>5, KindsDiffer DEF Kept
  <2> QED BY <1>2, <1>3, <1>5, <2>1, LinePassedOver
<1>6. CASE /\ HeaderOf(l).platform \notin Hosted
           /\ order' = IF l.cluster \in DOMAIN headers THEN order ELSE Append(order, l.cluster)
           /\ headers' = Put(headers, l.cluster, HeaderOf(l))
           /\ nodes' = Put(nodes, l.cluster, <<>>)
           /\ UNCHANGED versions
  <2>1. n + 1 \in Kept
    BY <1>2, <1>4, <1>6 DEF Kept
  <2> QED BY <1>2, <1>6, <2>1, HeaderAdded
<1> QED BY <1>5, <1>6 DEF ReadHeader

\* An N line goes to the list of its cluster, if that is kept.
LEMMA NodeKeeps == ASSUME ComplianceIInv, ReadIInv, ReadNode PROVE ReadIInv'
<1> DEFINE l == Head(todo)
           c == l.cluster
<1>1. /\ ReadLine("N") /\ UNCHANGED <<order, headers, versions>>
      /\ nodes' = IF c \in DOMAIN headers THEN Put(nodes, c, Append(nodes[c], l)) ELSE nodes
  BY DEF ReadNode
<1>2. PICK n \in Nat :
        /\ n + 1 \in Of("N") /\ Lines[n + 1] = l /\ case' = case
        /\ TablesHold(n) /\ (TablesHold(n + 1)' => ReadIInv')
  BY <1>1, NextLine
<1>3. case \in Cases /\ TablesOK /\ l \in NodesKept
  BY <1>1, <1>2, LineRead DEF ComplianceIInv, NodesKept
<1> HIDE DEF c, l
<1>4. n + 1 \notin Kept /\ n + 1 \notin Of("R") /\ \A i \in Of("N") : i \in Nat
  BY <1>2, <1>3, KindsDiffer, OwnHeader, LinesAre DEF Kept
<1>5. /\ \A i \in Kept : i <= n + 1 <=> i <= n
      /\ \A i : {j \in 1 .. n + 1 : GoesTo(i, j) /\ Lines[j].version # "garbled"}
                  = {j \in 1 .. n : GoesTo(i, j) /\ Lines[j].version # "garbled"}
      /\ Kept' = Kept /\ Lines' = Lines
  BY <1>2, <1>3, <1>4, NoNewHeader, NoNewVersion, SameLines
<1>6. HeadersHold(n + 1)'
  <2>1. {j \in Kept : j <= n + 1} = {j \in Kept : j <= n}
    BY <1>5
  <2> QED BY <1>1, <1>2, <1>5, <2>1 DEF TablesHold, HeadersHold
<1>7. OrderHolds(n + 1)'
  BY <1>1, <1>2, <1>5 DEF TablesHold, OrderHolds
<1>8. VersionsHold(n + 1)'
  <2>1. \A i : {j \in 1 .. n + 1 : GoesTo(i, j)' /\ Lines'[j].version # "garbled"}
                  = {j \in 1 .. n : GoesTo(i, j) /\ Lines[j].version # "garbled"}
    BY <1>2, <1>5, SameLines
  <2> QED BY <1>1, <1>2, <1>5, <2>1 DEF TablesHold, VersionsHold
<1>9. /\ \A d : d # c => NodesOf(d, n + 1) = NodesOf(d, n)
      /\ NodesOf(c, n + 1) = NodesOf(c, n) \cup {n + 1} /\ n + 1 \notin NodesOf(c, n)
  <2>1. \A i \in Of("N") : i <= n + 1 <=> i <= n \/ i = n + 1
    BY <1>4
  <2>2. Lines[n + 1].cluster = c /\ ~(n + 1 <= n)
    BY <1>2 DEF c
  <2> QED BY <1>2, <2>1, <2>2 DEF NodesOf
<1>10. NodesHold(n + 1)'
  <2> SUFFICES ASSUME NEW d \in DOMAIN headers
               PROVE  \E w : /\ Numbers(w, Len(nodes'[d]), NodesOf(d, n + 1))
                             /\ \A k \in 1 .. Len(nodes'[d]) : nodes'[d][k] = Lines[w[k]]
    BY <1>1, <1>2, <1>5, SameLines DEF NodesHold
  <2>1. PICK w : /\ Numbers(w, Len(nodes[d]), NodesOf(d, n))
                 /\ \A k \in 1 .. Len(nodes[d]) : nodes[d][k] = Lines[w[k]]
    BY <1>2 DEF TablesHold, NodesHold
  <2>2. DOMAIN nodes = DOMAIN headers /\ nodes[d] \in Seq(NodesKept)
    BY <1>3 DEF TablesOK
  <2>3. CASE d # c
    <3>1. nodes'[d] = nodes[d]
      BY <1>1, <2>2, <2>3 DEF Put
    <3> QED BY <1>9, <2>1, <2>3, <3>1
  <2>4. CASE d = c
    <3>1. nodes'[d] = Append(nodes[d], l)
      BY <1>1, <2>2, <2>4 DEF Put
    <3>2. /\ Len(nodes[d]) \in Nat /\ Len(nodes'[d]) = Len(nodes[d]) + 1
          /\ \A k \in 1 .. Len(nodes[d]) : nodes'[d][k] = nodes[d][k]
          /\ nodes'[d][Len(nodes[d]) + 1] = l
      BY <1>3, <2>2, <3>1
    <3>3. PICK v : /\ Numbers(v, Len(nodes[d]) + 1, NodesOf(d, n) \cup {n + 1})
                   /\ v[Len(nodes[d]) + 1] = n + 1
                   /\ \A k \in 1 .. Len(nodes[d]) : v[k] = w[k]
      <4>1. PICK m, X, x : m \in Nat /\ m = Len(nodes[d]) /\ X = NodesOf(d, n) /\ x = n + 1
        BY <3>2
      <4>2. m \in Nat /\ Numbers(w, m, X) /\ x \notin X
        BY <1>9, <2>1, <2>4, <4>1
      <4>3. \E v : Numbers(v, m + 1, X \cup {x}) /\ v[m + 1] = x /\ \A k \in 1 .. m : v[k] = w[k]
        BY <4>2, NumberOneMore
      <4> QED BY <4>1, <4>3
    <3>4. ASSUME NEW k \in 1 .. Len(nodes'[d]) PROVE nodes'[d][k] = Lines[v[k]]
      <4>1. k \in 1 .. Len(nodes[d]) \/ k = Len(nodes[d]) + 1
        BY <3>2
      <4> QED BY <1>2, <2>1, <3>2, <3>3, <4>1
    <3>5. Numbers(v, Len(nodes'[d]), NodesOf(d, n + 1))
      BY <1>9, <2>4, <3>2, <3>3
    <3> QED BY <3>4, <3>5
  <2> QED BY <2>3, <2>4
<1>11. TablesHold(n + 1)'
  BY <1>6, <1>7, <1>8, <1>10 DEF TablesHold
<1> QED BY <1>2, <1>11

\* The last header kept among the first n lines.
LEMMA LastHeader ==
  ASSUME case \in Cases, NEW n \in Nat, \E i \in Kept : i <= n
  PROVE  \E i \in Kept : i <= n /\ \A k \in Kept : k <= n => k <= i
<1> DEFINE T == {i \in Kept : i <= n}
<1>1. \A i \in Kept : i \in Nat \ {0}
  BY OwnHeader, LinesAre
<1>2. T \subseteq 1 .. n /\ T # {}
  BY <1>1
<1>3. Max(T) \in T /\ \A y \in T : Max(T) >= y
  <2> HIDE DEF T
  <2> QED BY <1>2, MaxIs
<1>4. \A y \in T : y <= Max(T)
  BY <1>1, <1>3
<1> QED BY <1>3, <1>4

\* An R line goes to the last header kept.
LEMMA VersionsKeep == ASSUME ComplianceIInv, ReadIInv, ReadVersions PROVE ReadIInv'
<1> DEFINE l == Head(todo)
           given(i, m) == {j \in 1 .. m : GoesTo(i, j) /\ Lines[j].version # "garbled"}
<1>1. /\ ReadLine("R") /\ UNCHANGED <<order, headers, nodes>>
      /\ versions' = IF order = <<>> \/ l.version = "garbled" THEN versions
                     ELSE Put(versions, Last(order), l.version)
  BY DEF ReadVersions
<1>2. PICK n \in Nat :
        /\ n + 1 \in Of("R") /\ Lines[n + 1] = l /\ case' = case
        /\ TablesHold(n) /\ (TablesHold(n + 1)' => ReadIInv')
  BY <1>1, NextLine
<1>3. case \in Cases /\ TablesOK
  BY DEF ComplianceIInv
<1> HIDE DEF l
<1>4. /\ n + 1 \notin Kept /\ n + 1 \notin Of("N")
      /\ \A i, j \in Kept : i \in Nat /\ (Lines[i].cluster = Lines[j].cluster => i = j)
  BY <1>2, <1>3, KindsDiffer, OwnHeader, LinesAre DEF Kept
<1>5. /\ \A i \in Kept : i <= n + 1 <=> i <= n
      /\ \A c : NodesOf(c, n + 1) = NodesOf(c, n)
      /\ Kept' = Kept /\ Lines' = Lines
  BY <1>2, <1>3, <1>4, NoNewHeader, NoNewNode, SameLines
<1>6. HeadersHold(n + 1)'
  <2>1. {j \in Kept : j <= n + 1} = {j \in Kept : j <= n}
    BY <1>5
  <2> QED BY <1>1, <1>2, <1>5, <2>1 DEF TablesHold, HeadersHold
<1>7. OrderHolds(n + 1)'
  BY <1>1, <1>2, <1>5 DEF TablesHold, OrderHolds
<1>8. NodesHold(n + 1)'
  BY <1>1, <1>2, <1>5, SameLines DEF TablesHold, NodesHold
<1>9. VersionsHold(n + 1)'
  <2> SUFFICES ASSUME NEW i \in Kept, i <= n
               PROVE  /\ Lines[i].cluster \in DOMAIN versions' <=> given(i, n + 1) # {}
                      /\ Lines[i].cluster \in DOMAIN versions'
                           => \E j \in given(i, n + 1) : versions'[Lines[i].cluster] = Lines[j].version
    BY <1>2, <1>5, SameLines DEF VersionsHold
  <2>1. /\ Lines[i].cluster \in DOMAIN versions <=> given(i, n) # {}
        /\ Lines[i].cluster \in DOMAIN versions
             => \E j \in given(i, n) : versions[Lines[i].cluster] = Lines[j].version
    BY <1>2 DEF TablesHold, VersionsHold
  <2>2. \A j : j \in 1 .. n + 1 <=> j \in 1 .. n \/ j = n + 1
    OBVIOUS
  <2>3. PICK h \in Kept : h <= n /\ \A k \in Kept : k <= n => k <= h
    BY <1>3, LastHeader
  <2>4. order # <<>> /\ Last(order) = Lines[h].cluster
    BY <1>2, <2>3 DEF TablesHold, OrderHolds
  <2>5. CASE l.version = "garbled"
    <3>1. given(i, n + 1) = given(i, n)
      BY <1>2, <2>2, <2>5
    <3> QED BY <1>1, <2>1, <2>5, <3>1
  <2>6. CASE l.version # "garbled"
    <3>1. /\ DOMAIN versions' = DOMAIN versions \cup {Lines[h].cluster}
          /\ versions'[Lines[h].cluster] = l.version
          /\ \A d \in DOMAIN versions : d # Lines[h].cluster => versions'[d] = versions[d]
      BY <1>1, <2>4, <2>6 DEF Put
    <3>2. CASE i = h
      <4>1. GoesTo(h, n + 1)
        <5>1. \A k \in Kept : ~(h < k /\ k < n + 1)
          BY <1>4, <2>3
        <5>2. h < n + 1
          BY <1>4, <2>3
        <5> QED BY <1>2, <5>1, <5>2 DEF GoesTo
      <4>2. n + 1 \in given(h, n + 1)
        BY <1>2, <2>2, <2>6, <4>1
      <4> HIDE DEF given
      <4> QED BY <1>2, <3>1, <3>2, <4>2
    <3>3. CASE i # h
      <4>1. ~GoesTo(i, n + 1)
        <5>1. i < h /\ h < n + 1
          BY <1>4, <2>3, <3>3
        <5> QED BY <5>1 DEF GoesTo
      <4>2. given(i, n + 1) = given(i, n)
        BY <2>2, <4>1
      <4>3. Lines[i].cluster # Lines[h].cluster
        BY <1>4, <3>3
      <4> HIDE DEF given
      <4> QED BY <2>1, <3>1, <4>2, <4>3
    <3> QED BY <3>2, <3>3
  <2> QED BY <2>5, <2>6
<1>10. TablesHold(n + 1)'
  BY <1>6, <1>7, <1>8, <1>9 DEF TablesHold
<1> QED BY <1>2, <1>10

\* Nothing was read yet.
LEMMA StartKeeps == ASSUME ComplianceIInv, ReadIInv, StartEvaluation PROVE ReadIInv'
<1>1. phase = "idle" /\ case' = case /\ case \in Cases
  BY DEF StartEvaluation, ComplianceIInv
<1>2. CASE phase' = phase
  BY <1>1, <1>2 DEF ReadIInv
<1>3. CASE /\ phase' = "read" /\ todo' = SubSeq(case.input, 1, case.cut)
           /\ order' = <<>> /\ headers' = <<>> /\ nodes' = <<>> /\ versions' = <<>>
  <2>1. Lines' = Lines /\ todo' = Lines /\ Kept' = Kept
    BY <1>1, <1>3, SameLines DEF Lines
  <2>2. Len(Lines) \in Nat /\ \A i \in Kept : i \in Nat \ {0}
    BY <1>1, LinesAre, OwnHeader
  <2>3. LinesRead' = 0
    BY <2>1, <2>2 DEF LinesRead
  <2>4. \A i \in Kept : ~(i <= 0)
    BY <2>2
  <2>5. TablesHold(0)'
    <3>1. HeadersHold(0)'
      BY <1>3, <2>1, <2>4 DEF HeadersHold
    <3>2. NodesHold(0)'
      BY <1>3 DEF NodesHold
    <3>3. OrderHolds(0)' /\ VersionsHold(0)'
      BY <2>1, <2>4 DEF OrderHolds, VersionsHold
    <3> QED BY <3>1, <3>2, <3>3 DEF TablesHold
  <2>6. \A m \in 1 .. Len(Lines) : 0 + m = m
    BY <2>2
  <2>7. TablesHold(LinesRead)'
    BY <2>3, <2>5
  <2>8. Len(todo') <= Len(Lines') /\ \A m \in 1 .. Len(todo') : todo'[m] = Lines'[LinesRead' + m]
    BY <2>1, <2>2, <2>3, <2>6
  <2> QED BY <1>3, <2>7, <2>8 DEF ReadIInv
<1> QED BY <1>2, <1>3 DEF StartEvaluation

LEMMA ReadStays ==
  ASSUME ReadIInv, UNCHANGED <<case, todo, tables>>, phase' = "idle" \/ phase' = phase
  PROVE  ReadIInv'
<1>1. CASE phase' = "idle"
  BY <1>1 DEF ReadIInv
<1>2. CASE phase' = phase /\ phase # "idle"
  <2>1. Lines' = Lines /\ LinesRead' = LinesRead
    BY SameLines DEF LinesRead
  <2>2. PICK n : n = LinesRead
    OBVIOUS
  <2>3. TablesHold(n)
    BY <1>2, <2>2 DEF ReadIInv
  <2>4. TablesHold(n)'
    BY <2>3, SameTables
  <2>5. TablesHold(LinesRead)'
    BY <2>1, <2>2, <2>4
  <2> QED BY <1>2, <2>1, <2>5 DEF ReadIInv
<1> QED BY <1>1, <1>2

LEMMA ReadSteps == ASSUME ComplianceIInv, ReadIInv, ComplianceNext PROVE ReadIInv'
<1>1. CASE OpenReport
  <2>1. todo = <<>> /\ phase = "read" /\ phase' = "write" /\ UNCHANGED <<case, todo, tables>>
    BY <1>1 DEF OpenReport
  <2>2. Lines' = Lines /\ LinesRead' = LinesRead
    BY <2>1, SameLines DEF LinesRead
  <2>3. PICK n : n = LinesRead
    OBVIOUS
  <2>4. TablesHold(n)
    BY <2>1, <2>3 DEF ReadIInv
  <2>5. TablesHold(n)'
    BY <2>1, <2>4, SameTables
  <2>6. TablesHold(LinesRead)'
    BY <2>2, <2>3, <2>5
  <2> QED BY <2>1, <2>2, <2>6 DEF ReadIInv
<1>2. CASE \/ WriteRow \/ FlushInRow \/ FlushInStock
           \/ WriteTotal \/ WriteAvailable \/ WriteGap \/ CloseReport
  BY <1>2, ReadStays DEF WriteRow, FlushInRow, FlushInStock, WriteTotal, WriteAvailable, WriteGap, WriteTo, CloseReport
<1>3. CASE KillEvaluation
  BY <1>3 DEF KillEvaluation, ReadIInv
<1> QED BY <1>1, <1>2, <1>3, StartKeeps, HeaderKeeps, NodeKeeps, VersionsKeep, SkipKeeps, Zenon
        DEF ComplianceNext

\* Whatever was read and whenever the script was killed, the tables hold what the
\* lines read so far say, and all lines once the report is being written.
LEMMA TablesInvariant == ReportingSpec => []ReadIInv
<1>1. ReportingInit => ReadIInv
  BY DEF ReportingInit, ComplianceInit, ReadIInv
<1>2. ASSUME ComplianceIInv, ReadIInv, [ReportingNext]_reportingVars PROVE ReadIInv'
  <2>1. CASE ComplianceNext
    BY <1>2, <2>1, ReadSteps
  <2>2. CASE UNCHANGED complianceVars
    BY <1>2, <2>2, ReadStays DEF complianceVars
  <2> QED BY <1>2, <2>1, <2>2, Zenon DEF ReportingNext, Import, ReportingDone, reportingVars
<1> QED BY <1>1, <1>2, ComplianceInvariant, PTL DEF ReportingSpec

\* While the report is written all lines were read.
LEMMA AllRead ==
  ASSUME ComplianceIInv, ReadIInv, phase = "write"
  PROVE  TablesHold(Len(Lines))
<1>1. todo = <<>> /\ TablesHold(LinesRead) /\ Len(Lines) \in Nat
  BY LinesAre DEF ReadIInv, ComplianceIInv
<1>2. LinesRead = Len(Lines)
  BY <1>1 DEF LinesRead
<1> QED BY <1>1, <1>2

\* What a step does to the file.
LEMMA FileSteps ==
  ASSUME ComplianceIInv, ComplianceNext
  PROVE  /\ case' = case
         /\ \/ output' = output
            \/ output' = EmptyReport /\ phase = "read"
            \/ /\ phase = "write" /\ output \in Report /\ UNCHANGED <<phase, tables>>
               /\ Rows \in Seq(OwnRow) /\ Len(output.rows) < Len(Rows)
               /\ output'.rows = Append(output.rows, Rows[Len(output.rows) + 1])
               /\ output'.totals = output.totals /\ output'.available = output.available
            \/ /\ phase = "write" /\ output \in Report /\ UNCHANGED <<phase, tables>>
               /\ Len(output.totals) < 4 /\ output'.rows = output.rows
               /\ output'.totals = Append(output.totals, TotalOf(Rows, AggrGroups[Len(output.totals) + 1]))
               /\ output'.available = output.available
            \/ /\ phase = "write" /\ output \in Report /\ UNCHANGED <<phase, tables>>
               /\ Len(output.available) < 4 /\ ~(Len(output.totals) < 4)
               /\ output'.rows = output.rows /\ output'.totals = output.totals
               /\ output'.available = Append(output.available,
                    AvailableOf(LoadSubscriptions, AggrGroups[Len(output.available) + 1]))
            \/ /\ phase = "write" /\ output \in Report /\ UNCHANGED <<phase, tables>>
               /\ output'.rows = output.rows /\ output'.totals = output.totals
               /\ output'.available = output.available
<1>1. CASE StartEvaluation \/ CloseReport \/ KillEvaluation
  BY <1>1 DEF StartEvaluation, CloseReport, KillEvaluation
<1>2. CASE ReadHeader \/ ReadNode \/ ReadVersions \/ SkipLine
  BY <1>2 DEF ReadHeader, ReadNode, ReadVersions, SkipLine, ReadLine
<1>3. CASE OpenReport
  BY <1>3 DEF OpenReport
<1>4. CASE WriteRow
  <2>1. phase = "write" /\ output \in Report /\ Rows \in Seq(OwnRow)
    BY <1>4, ReportIs, RowsAre DEF WriteRow, ComplianceIInv
  <2>2. /\ Len(output.rows) < Len(Rows) /\ UNCHANGED <<case, phase, tables>>
        /\ output' = [output EXCEPT !.rows = Append(@, Rows[Len(output.rows) + 1]), !.tornRow = <<>>, !.tornStock = <<>>]
    BY <1>4 DEF WriteRow, WriteTo, Missing
  <2> QED BY <2>1, <2>2 DEF Report
<1>5. CASE WriteTotal
  <2>1. phase = "write" /\ output \in Report
    BY <1>5, ReportIs DEF WriteTotal
  <2>2. /\ Len(output.totals) < 4 /\ UNCHANGED <<case, phase, tables>>
        /\ output' = [output EXCEPT !.totals =
                        Append(@, TotalOf(Rows, AggrGroups[Len(output.totals) + 1])),
                       !.tornRow = <<>>, !.tornStock = <<>>]
    BY <1>5 DEF WriteTotal, WriteTo, Missing, NextGroup
  <2> QED BY <2>1, <2>2 DEF Report
<1>6. CASE WriteAvailable
  <2>1. phase = "write" /\ output \in Report
    BY <1>6, ReportIs DEF WriteAvailable
  <2>2. /\ Len(output.available) < 4 /\ ~(Len(output.totals) < 4) /\ UNCHANGED <<case, phase, tables>>
        /\ output' = [output EXCEPT !.available =
              Append(@, AvailableOf(LoadSubscriptions, AggrGroups[Len(output.available) + 1])),
                       !.tornRow = <<>>, !.tornStock = <<>>]
    BY <1>6 DEF WriteAvailable, WriteTo, Missing, NextGroup
  <2> QED BY <2>1, <2>2 DEF Report
<1>7. CASE WriteGap
  <2>1. phase = "write" /\ output \in Report
    BY <1>7, ReportIs DEF WriteGap
  <2>2. PICK gap : /\ UNCHANGED <<case, phase, tables>>
                   /\ output' = [output EXCEPT !.gaps = Append(@, gap), !.tornRow = <<>>, !.tornStock = <<>>]
    BY <1>7 DEF WriteGap, WriteTo
  <2> QED BY <2>1, <2>2 DEF Report
<1>8. CASE FlushInRow \/ FlushInStock
  <2>1. phase = "write" /\ output \in Report
    BY <1>8, ReportIs DEF FlushInRow, FlushInStock
  <2>2. /\ UNCHANGED <<case, phase, tables>>
        /\ \E x : output' = [output EXCEPT !.tornRow = x] \/ output' = [output EXCEPT !.tornStock = x]
    BY <1>8 DEF FlushInRow, FlushInStock
  <2> QED BY <2>1, <2>2 DEF Report
<1> QED BY <1>1, <1>2, <1>3, <1>4, <1>5, <1>6, <1>7, <1>8, Zenon DEF ComplianceNext

-----------------------------------------------------------------------------
\* Versions.

\* What OwnVersion says of a row of cluster c and version v.
IsVersionOf(lines, c, v) ==
  LET of(kind) == {i \in DOMAIN lines : lines[i].kind = kind}
      mine == {i \in of("H") : lines[i].cluster = c}
      next == {j \in of("H") : \E i \in mine : i < j}
      end == IF next = {} THEN Len(lines) + 1 ELSE Min(next)
      own == {j \in of("R") : j < end /\ \E i \in mine : i < j}
  IN  (own # {} /\ (next = {} \/ ~IsHosted(lines[Min(next)])))
        => v = LET u == lines[CHOOSE j \in own : TRUE].version
               IN  IF u = "garbled" THEN "4.20" ELSE u
HasOwnVersion(c, v) == IsVersionOf(Lines, c, v)

RowsHaveOwnVersions ==
  output # NoFile =>
    \A k \in DOMAIN output.rows : HasOwnVersion(output.rows[k].cluster, output.rows[k].version)

\* The only R line between a header and the next is its own.
LEMMA VersionsOwn ==
  ASSUME case \in Cases, TablesHold(Len(Lines)), NEW c \in DOMAIN headers
  PROVE  HasOwnVersion(c, VersionOf(c))
<1> DEFINE L == Len(Lines)
<1>1. PICK i \in Kept : i <= L /\ Lines[i].cluster = c
  BY DEF TablesHold, HeadersHold
<1>2. /\ L \in Nat /\ DOMAIN Lines = 1 .. L /\ IsDeduplicated(Lines)
      /\ \A kind : Of(kind) \subseteq 1 .. L
      /\ i \in Of("H") /\ \A j \in Of("H") : Lines[j].cluster = c => j = i
  BY <1>1, LinesAre, OwnHeader
<1> DEFINE mine == {k \in Of("H") : Lines[k].cluster = c}
           next == {j \in Of("H") : \E k \in mine : k < j}
           end == IF next = {} THEN L + 1 ELSE Min(next)
           own == {j \in Of("R") : j < end /\ \E k \in mine : k < j}
<1>3. mine = {i}
  BY <1>1, <1>2
<1> SUFFICES ASSUME own # {}, next = {} \/ ~IsHosted(Lines[Min(next)])
             PROVE  VersionOf(c) = LET u == Lines[CHOOSE j \in own : TRUE].version
                                   IN  IF u = "garbled" THEN "4.20" ELSE u
  BY DEF HasOwnVersion, IsVersionOf, Of
<1>4. next = {j \in Of("H") : i < j}
  BY <1>3
<1>5. next # {} => Min(next) \in next /\ \A j \in next : Min(next) <= j
  <2>1. next \subseteq Nat
    BY <1>2, <1>4
  <2> HIDE DEF next
  <2> QED BY <2>1, MinIs
<1>6. own = {j \in Of("R") : j < end /\ i < j}
  BY <1>3
<1> HIDE DEF mine, next, own
<1>7. end \in Nat /\ \A k \in next : end <= k
  BY <1>2, <1>4, <1>5
<1>8. \A j \in Of("R") : GoesTo(i, j) <=> j \in own
  <2> SUFFICES ASSUME NEW j \in Of("R") PROVE GoesTo(i, j) <=> j \in own
    OBVIOUS
  <2>1. i \in Nat /\ j \in 1 .. L /\ \A k \in Kept : k \in Of("H") /\ k \in 1 .. L
    BY <1>2 DEF Kept
  <2>2. ASSUME j \in own PROVE GoesTo(i, j)
    <3>1. j < end /\ i < j
      BY <1>6, <2>2
    <3>2. ASSUME NEW k \in Kept, i < k, k < j PROVE FALSE
      <4>1. k \in next
        BY <1>4, <2>1, <3>2
      <4> QED BY <1>7, <2>1, <3>1, <3>2, <4>1
    <3> QED BY <3>1, <3>2 DEF GoesTo
  <2>3. ASSUME GoesTo(i, j) PROVE j \in own
    <3>1. i < j /\ \A k \in Kept : ~(i < k /\ k < j)
      BY <2>3 DEF GoesTo
    <3>2. j < end
      <4>1. CASE next = {}
        BY <1>2, <2>1, <4>1
      <4>2. CASE next # {}
        <5>1. Min(next) \in Of("H") /\ i < Min(next) /\ Min(next) \in Kept /\ end = Min(next)
          BY <1>4, <1>5, <4>2 DEF Kept
        <5>2. ~(Min(next) < j) /\ Min(next) # j
          BY <3>1, <5>1, KindsDiffer
        <5> QED BY <1>2, <2>1, <5>1, <5>2
      <4> QED BY <4>1, <4>2
    <3> QED BY <1>6, <3>1, <3>2
  <2> QED BY <2>2, <2>3
<1>9. \A j, k \in own : j = k
  <2>1. ASSUME NEW j \in own, NEW k \in own, j < k PROVE FALSE
    <3>1. j \in Of("R") /\ k \in Of("R") /\ j \in 1 .. L /\ k \in 1 .. L /\ i < j /\ k < end
      BY <1>2, <1>6
    <3>2. PICK h \in j .. k : Lines[h].kind = "H"
      BY <1>2, <2>1, <3>1 DEF IsDeduplicated, Of
    <3>3. h \in Of("H") /\ i < h /\ h < end
      BY <1>2, <1>7, <3>1, <3>2 DEF Of
    <3>4. h \in next
      BY <1>4, <3>3
    <3> QED BY <1>2, <1>7, <3>3, <3>4
  <2>2. \A j \in own : j \in Nat
    BY <1>2, <1>6
  <2> QED BY <2>1, <2>2
<1>10. PICK r \in own : own = {r}
  BY <1>9
<1>11. r \in Of("R") /\ r \in 1 .. L
  BY <1>2, <1>6, <1>10
<1>12. (CHOOSE j \in own : TRUE) = r
  BY <1>10
<1> DEFINE given == {j \in 1 .. L : GoesTo(i, j) /\ Lines[j].version # "garbled"}
<1>13. \A j : j \in given <=> (j = r /\ Lines[r].version # "garbled")
  <2>1. \A j : GoesTo(i, j) <=> j = r
    BY <1>8, <1>10, <1>11 DEF GoesTo
  <2> QED BY <1>11, <2>1
<1>14. /\ c \in DOMAIN versions <=> given # {}
       /\ c \in DOMAIN versions => \E j \in given : versions[c] = Lines[j].version
  BY <1>1 DEF TablesHold, VersionsHold
<1> HIDE DEF given
<1>15. VersionOf(c) = IF Lines[r].version = "garbled" THEN "4.20" ELSE Lines[r].version
  BY <1>13, <1>14 DEF VersionOf
<1> QED BY <1>12, <1>15

LEMMA SameVersions ==
  ASSUME case' = case
  PROVE  \A c, v : HasOwnVersion(c, v)' <=> HasOwnVersion(c, v)
<1>1. Lines' = Lines /\ \A kind : Of(kind)' = Of(kind)
  BY SameLines
<1> QED BY <1>1 DEF HasOwnVersion

LEMMA OwnVersionSteps ==
  ASSUME ComplianceIInv, ReadIInv, RowsHaveOwnVersions, ComplianceNext
  PROVE  RowsHaveOwnVersions'
<1>1. case' = case /\ \A c, v : HasOwnVersion(c, v)' <=> HasOwnVersion(c, v)
  BY FileSteps, SameVersions
<1>2. CASE output' = output \/ (output # NoFile /\ output'.rows = output.rows)
  BY <1>1, <1>2 DEF RowsHaveOwnVersions
<1>3. CASE output' = EmptyReport
  BY <1>3 DEF EmptyReport, RowsHaveOwnVersions
<1>4. CASE /\ phase = "write" /\ output \in Report
           /\ Rows \in Seq(OwnRow) /\ Len(output.rows) < Len(Rows)
           /\ output'.rows = Append(output.rows, Rows[Len(output.rows) + 1])
  <2> DEFINE n == Len(output.rows)
             r == Rows[n + 1]
  <2>1. output.rows \in Seq(Row) /\ output # NoFile
    BY <1>4, NoFileIsNoReport DEF Report
  <2>2. n + 1 \in 1 .. Len(Rows)
    BY <1>4, <2>1
  <2> HIDE DEF n
  <2>3. r \in OwnRow
    BY <1>4, <2>2
  <2>4. r.cluster \in DOMAIN headers /\ r.version = VersionOf(r.cluster)
    BY <2>3 DEF OwnRow
  <2>5. HasOwnVersion(r.cluster, r.version)
    BY <1>4, <2>4, AllRead, VersionsOwn DEF ComplianceIInv
  <2> HIDE DEF r
  <2>6. /\ DOMAIN output'.rows = DOMAIN output.rows \cup {n + 1} /\ output'.rows[n + 1] = r
        /\ \A k \in DOMAIN output.rows : output'.rows[k] = output.rows[k]
    BY <1>4, <2>1 DEF n, r
  <2>7. \A k \in DOMAIN output.rows : HasOwnVersion(output.rows[k].cluster, output.rows[k].version)
    BY <2>1 DEF RowsHaveOwnVersions
  <2>8. \A k \in DOMAIN output'.rows : HasOwnVersion(output'.rows[k].cluster, output'.rows[k].version)
    BY <1>1, <2>5, <2>6, <2>7
  <2>9. Lines' = Lines
    BY <1>1, SameLines
  <2> QED BY <2>8, <2>9 DEF RowsHaveOwnVersions, HasOwnVersion
<1> QED BY <1>2, <1>3, <1>4, FileSteps, NoFileIsNoReport

\* README.md:1002: whatever the input, a row has the version of the R line
\* between its cluster's header and the next, if no hosted block follows.
THEOREM VersionsAreOwn == ReportingSpec => []OwnVersion
<1>1. ReportingInit => RowsHaveOwnVersions
  BY DEF ReportingInit, ComplianceInit, RowsHaveOwnVersions
<1>2. ASSUME ComplianceIInv, ReadIInv, RowsHaveOwnVersions, [ReportingNext]_reportingVars
      PROVE  RowsHaveOwnVersions'
  <2>1. CASE ComplianceNext
    BY <1>2, <2>1, OwnVersionSteps
  <2>2. CASE UNCHANGED complianceVars
    <3>1. case' = case /\ output' = output
      BY <2>2 DEF complianceVars
    <3> QED BY <1>2, <3>1, SameVersions DEF RowsHaveOwnVersions
  <2> QED BY <1>2, <2>1, <2>2, Zenon DEF ReportingNext, Import, ReportingDone, reportingVars
<1>3. RowsHaveOwnVersions => OwnVersion
  BY DEF RowsHaveOwnVersions, HasOwnVersion, IsVersionOf, OwnVersion, Of
<1> QED BY <1>1, <1>2, <1>3, ComplianceInvariant, TablesInvariant, PTL DEF ReportingSpec

-----------------------------------------------------------------------------
\* Rows and lines.

\* The N lines that have a row, and those of them of one cluster.
Billed == {i \in Of("N") : /\ Lines[i].cluster \in DOMAIN headers
                           /\ ~Exempt(headers[Lines[i].cluster].count, Lines[i])}
BilledOf(c) == {i \in Billed : Lines[i].cluster = c}

RowsAreOf(s, rows, X) ==
  /\ Numbers(s, Len(rows), X)
  /\ \A m \in 1 .. Len(rows) : rows[m] = RowOf(Lines[s[m]].cluster, Lines[s[m]])

\* Each N line of a cluster that is not exempt has a row.
LEMMA ClusterRows ==
  ASSUME case \in Cases, TablesOK, TablesHold(Len(Lines)), NEW c \in DOMAIN headers
  PROVE  \E s : RowsAreOf(s, RowsOf(c), BilledOf(c))
<1> DEFINE X == NodesOf(c, Len(Lines))
           n == Len(nodes[c])
           B == {k \in DOMAIN nodes[c] : ~Exempt(headers[c].count, nodes[c][k])}
<1>1. PICK w : Numbers(w, n, X) /\ \A k \in 1 .. n : nodes[c][k] = Lines[w[k]]
  BY DEF TablesHold, NodesHold
<1>2. \A i : i \in X <=> i \in Of("N") /\ Lines[i].cluster = c
  BY OwnHeader, LinesAre DEF NodesOf
<1>3. n \in Nat /\ DOMAIN nodes[c] = 1 .. n
  BY DEF TablesOK
<1> HIDE DEF n
<1>4. B \in SUBSET (1 .. n) /\ B \subseteq Nat /\ IsFiniteSet(B)
  <2>1. B \in SUBSET (1 .. n) /\ IsFiniteSet(1 .. n) /\ 1 .. n \subseteq Nat
    BY <1>3, FS_Interval
  <2> HIDE DEF B
  <2> QED BY <2>1, FS_Subset, Zenon
<1>5. Numbers(InOrder(B), Cardinality(B), B) /\ Cardinality(B) \in Nat
  BY <1>4, InOrderNumbers, FS_CardinalityType
<1> DEFINE s == [k \in 1 .. Cardinality(B) |-> w[InOrder(B)[k]]]
<1>6. Numbers(s, Cardinality(B), {w[b] : b \in B})
  BY <1>1, <1>4, <1>5, NumbersCompose
<1>7. {w[b] : b \in B} = BilledOf(c)
  <2>1. ASSUME NEW b \in B PROVE w[b] \in BilledOf(c)
    <3>1. b \in 1 .. n /\ w[b] \in X /\ ~Exempt(headers[c].count, Lines[w[b]])
      BY <1>1, <1>4 DEF Numbers
    <3> QED BY <1>2, <3>1 DEF BilledOf, Billed
  <2>2. ASSUME NEW i \in BilledOf(c) PROVE \E b \in B : w[b] = i
    <3>1. i \in X /\ ~Exempt(headers[c].count, Lines[i])
      BY <1>2 DEF BilledOf, Billed
    <3>2. PICK b \in 1 .. n : w[b] = i
      BY <1>1, <3>1 DEF Numbers
    <3>3. b \in B
      BY <1>1, <1>3, <3>1, <3>2
    <3> QED BY <3>2, <3>3
  <2> HIDE DEF B
  <2> QED BY <2>1, <2>2
<1>8. RowsOf(c) = [k \in 1 .. Cardinality(B) |-> RowOf(c, nodes[c][InOrder(B)[k]])]
  BY DEF RowsOf
<1> HIDE DEF B
<1>9. Len(RowsOf(c)) = Cardinality(B)
  BY <1>5, <1>8
<1>10. ASSUME NEW m \in 1 .. Cardinality(B) PROVE RowsOf(c)[m] = RowOf(Lines[s[m]].cluster, Lines[s[m]])
  <2>1. InOrder(B)[m] \in B /\ InOrder(B)[m] \in 1 .. n /\ s[m] = w[InOrder(B)[m]]
    BY <1>4, <1>5 DEF Numbers
  <2>2. nodes[c][InOrder(B)[m]] = Lines[s[m]] /\ s[m] \in X
    BY <1>1, <2>1 DEF Numbers
  <2>3. Lines[s[m]].cluster = c
    BY <1>2, <2>2
  <2> QED BY <1>8, <2>2, <2>3
<1> HIDE DEF s
<1>11. RowsAreOf(s, RowsOf(c), BilledOf(c))
  BY <1>6, <1>7, <1>9, <1>10 DEF RowsAreOf
<1> QED BY <1>11

\* And so the rows are those of the lines of all clusters, each once.
LEMMA AllRows ==
  ASSUME case \in Cases, TablesOK, TablesHold(Len(Lines))
  PROVE  \E s : RowsAreOf(s, Rows, Billed)
<1> DEFINE D == DOMAIN headers
           n == Cardinality(D)
           ids == InOrder(D)
           parts == [i \in DOMAIN ids |-> RowsOf(ids[i])]
           t == [c \in D |-> CHOOSE s : RowsAreOf(s, RowsOf(c), BilledOf(c))]
<1>1. \A c \in D : RowsAreOf(t[c], RowsOf(c), BilledOf(c))
  BY ClusterRows
<1>2. /\ n \in Nat /\ DOMAIN ids = 1 .. n /\ Numbers(ids, n, D)
  BY KeysAre, InOrderIs, InOrderNumbers
<1>3. Rows = FlattenSeq(parts)
  BY DEF Rows
<1> HIDE DEF t, ids, n, D
<1>4. \A i \in 1 .. n : ids[i] \in D
  BY <1>2 DEF Numbers
<1>5. parts \in Seq(Seq(OwnRow)) /\ Len(parts) = n /\ \A i \in 1 .. n : parts[i] = RowsOf(ids[i])
  BY <1>2, <1>4, RowsOfIs DEF D
<1> HIDE DEF parts
<1>6. PICK a, b : ComesFrom(a, b, parts)
  BY <1>5, FlattenPlaces
<1> DEFINE k == Len(Rows)
<1>7. /\ \A m \in 1 .. k : /\ a[m] \in 1 .. n /\ b[m] \in 1 .. Len(RowsOf(ids[a[m]]))
                           /\ Rows[m] = RowsOf(ids[a[m]])[b[m]]
      /\ \A m, l \in 1 .. k : a[m] = a[l] /\ b[m] = b[l] => m = l
      /\ \A i \in 1 .. n : \A j \in 1 .. Len(RowsOf(ids[i])) : \E m \in 1 .. k : a[m] = i /\ b[m] = j
  <2> HIDE DEF k
  <2>1. k = Len(FlattenSeq(parts))
    BY <1>3 DEF k
  <2>2. \A m \in 1 .. k : /\ a[m] \in 1 .. n /\ b[m] \in 1 .. Len(parts[a[m]])
                          /\ Rows[m] = parts[a[m]][b[m]]
    BY <1>3, <1>5, <1>6, <2>1 DEF ComesFrom
  <2>3. \A m, l \in 1 .. k : a[m] = a[l] /\ b[m] = b[l] => m = l
    BY <1>6, <2>1 DEF ComesFrom
  <2>4. \A i \in 1 .. n : \A j \in 1 .. Len(parts[i]) : \E m \in 1 .. k : a[m] = i /\ b[m] = j
    BY <1>5, <1>6, <2>1 DEF ComesFrom
  <2>5. \A m \in 1 .. k : parts[a[m]] = RowsOf(ids[a[m]])
    BY <1>5, <2>2
  <2>6. \A m \in 1 .. k : /\ a[m] \in 1 .. n /\ b[m] \in 1 .. Len(RowsOf(ids[a[m]]))
                          /\ Rows[m] = RowsOf(ids[a[m]])[b[m]]
    BY <2>2, <2>5
  <2>7. \A i \in 1 .. n : \A j \in 1 .. Len(RowsOf(ids[i])) : \E m \in 1 .. k : a[m] = i /\ b[m] = j
    BY <1>5, <2>4
  <2> QED BY <2>3, <2>6, <2>7
<1> HIDE DEF k
<1> DEFINE s == [m \in 1 .. k |-> t[ids[a[m]]][b[m]]]
<1>8. ASSUME NEW m \in 1 .. k
      PROVE  /\ s[m] \in BilledOf(ids[a[m]]) /\ Lines[s[m]].cluster = ids[a[m]] /\ s[m] \in Billed
             /\ Rows[m] = RowOf(Lines[s[m]].cluster, Lines[s[m]])
  <2>1. /\ a[m] \in 1 .. n /\ ids[a[m]] \in D /\ b[m] \in 1 .. Len(RowsOf(ids[a[m]]))
        /\ Rows[m] = RowsOf(ids[a[m]])[b[m]] /\ s[m] = t[ids[a[m]]][b[m]]
    BY <1>4, <1>7
  <2> HIDE DEF s
  <2>2. RowsAreOf(t[ids[a[m]]], RowsOf(ids[a[m]]), BilledOf(ids[a[m]]))
    BY <1>1, <2>1
  <2>3. PICK c, j : c = ids[a[m]] /\ j = b[m]
    OBVIOUS
  <2>4. /\ RowsAreOf(t[c], RowsOf(c), BilledOf(c)) /\ j \in 1 .. Len(RowsOf(c))
        /\ Rows[m] = RowsOf(c)[j] /\ s[m] = t[c][j]
    BY <2>1, <2>2, <2>3
  <2>5. t[c][j] \in BilledOf(c)
    BY <2>4 DEF RowsAreOf, Numbers
  <2>6. RowsOf(c)[j] = RowOf(Lines[t[c][j]].cluster, Lines[t[c][j]])
    BY <2>4 DEF RowsAreOf
  <2>7. Lines[t[c][j]].cluster = c /\ t[c][j] \in Billed
    BY <2>5 DEF BilledOf
  <2> QED BY <2>3, <2>4, <2>5, <2>6, <2>7
<1>9. ASSUME NEW m \in 1 .. k, NEW l \in 1 .. k, s[m] = s[l] PROVE m = l
  <2>1. ids[a[m]] = ids[a[l]]
    <3> HIDE DEF s
    <3>1. Lines[s[m]].cluster = ids[a[m]] /\ Lines[s[l]].cluster = ids[a[l]]
      BY <1>8
    <3> QED BY <1>9, <3>1
  <2>2. a[m] = a[l] /\ a[m] \in 1 .. n
    BY <1>2, <1>7, <2>1 DEF Numbers
  <2>3. RowsAreOf(t[ids[a[m]]], RowsOf(ids[a[m]]), BilledOf(ids[a[m]]))
    BY <1>1, <1>4, <2>2
  <2>4. /\ t[ids[a[m]]][b[m]] = t[ids[a[m]]][b[l]]
        /\ b[m] \in 1 .. Len(RowsOf(ids[a[m]])) /\ b[l] \in 1 .. Len(RowsOf(ids[a[m]]))
    BY <1>7, <1>9, <2>1
  <2>5. b[m] = b[l]
    BY <2>3, <2>4 DEF RowsAreOf, Numbers
  <2> QED BY <1>7, <2>2, <2>5
<1>10. ASSUME NEW x \in Billed PROVE \E m \in 1 .. k : s[m] = x
  <2> DEFINE c == Lines[x].cluster
  <2>1. c \in D /\ x \in BilledOf(c)
    BY DEF Billed, BilledOf, D
  <2> HIDE DEF c
  <2>2. PICK i \in 1 .. n : ids[i] = c
    BY <1>2, <2>1 DEF Numbers
  <2>3. PICK j \in 1 .. Len(RowsOf(c)) : t[c][j] = x
    BY <1>1, <2>1 DEF RowsAreOf, Numbers
  <2>4. PICK m \in 1 .. k : a[m] = i /\ b[m] = j
    BY <1>7, <2>2
  <2> QED BY <2>2, <2>3, <2>4
<1>11. s \in [1 .. k -> Billed]
  BY <1>8
<1>12. \A m \in 1 .. k : Rows[m] = RowOf(Lines[s[m]].cluster, Lines[s[m]])
  BY <1>8
<1> HIDE DEF s
<1>13. RowsAreOf(s, Rows, Billed)
  BY <1>9, <1>10, <1>11, <1>12 DEF RowsAreOf, Numbers, k
<1> QED BY <1>13

\* (x + y - 1) div y is the number of units of y that hold x.
LEMMA SocketsAre ==
  ASSUME NEW cpu \in Nat, NEW per \in {2, 4}
  PROVE  Sockets(cpu, per) = CeilDiv(cpu, per)
<1> DEFINE Holds(k) == (k - 1) * per < cpu /\ cpu <= k * per
           q == CeilDiv(cpu, per)
<1>1. CASE per = 2
  <2>1. q \in Int /\ 2 * q <= cpu + 1 /\ cpu + 1 < 2 * q + 2
    BY <1>1 DEF CeilDiv
  <2> HIDE DEF q
  <2>2. q \in 0 .. cpu /\ Holds(q) /\ \A k \in 0 .. cpu : Holds(k) => k = q
    BY <1>1, <2>1
  <2>3. (CHOOSE k \in 0 .. cpu : Holds(k)) = q
    <3> HIDE DEF Holds
    <3> QED BY <2>2
  <2> QED BY <2>3 DEF Sockets, q
<1>2. CASE per = 4
  <2>1. q \in Int /\ 4 * q <= cpu + 3 /\ cpu + 3 < 4 * q + 4
    BY <1>2 DEF CeilDiv
  <2> HIDE DEF q
  <2>2. q \in 0 .. cpu /\ Holds(q) /\ \A k \in 0 .. cpu : Holds(k) => k = q
    BY <1>2, <2>1
  <2>3. (CHOOSE k \in 0 .. cpu : Holds(k)) = q
    <3> HIDE DEF Holds
    <3> QED BY <2>2
  <2> QED BY <2>3 DEF Sockets, q
<1> QED BY <1>1, <1>2

\* What needs no subscription for the roles it has.
Relieved(i) == HeaderLine(i).count > 3 /\ \E r \in Lines[i].roles : r \in {"master", "control-plane", "infra"}

\* The header of a line is that of its cluster, and what headers holds if it is kept.
LEMMA HeaderLineIs ==
  ASSUME case \in Cases, TablesHold(Len(Lines)), NEW i \in Of("N")
  PROVE  /\ \E h \in Of("H") : /\ HeaderLine(i) = Lines[h] /\ Lines[h].cluster = Lines[i].cluster
                               /\ Lines[i].cluster \in DOMAIN headers <=> h \in Kept
         /\ HeaderLine(i).layout \in {"current", "superseded"}
         /\ Lines[i].cluster \in DOMAIN headers <=> ~IsHosted(HeaderLine(i))
         /\ Lines[i].cluster \in DOMAIN headers => headers[Lines[i].cluster] = HeaderOf(HeaderLine(i))
         /\ HeaderLine(i).layout = "superseded" => HeaderLine(i).version \notin {"STANDARD", "PREMIUM"}
         /\ Lines[i].cpu \in Nat
<1> DEFINE L == Len(Lines)
<1>1. PICK h \in Of("H") : Lines[h].cluster = Lines[i].cluster
  BY OwnHeader
<1>2. \A j \in Of("H") : Lines[j].cluster = Lines[i].cluster => j = h
  BY <1>1, OwnHeader
<1>3. HeaderLine(i) = Lines[h]
  <2>1. (CHOOSE j \in Of("H") : Lines[j].cluster = Lines[i].cluster) = h
    BY <1>1, <1>2
  <2> QED BY <2>1 DEF HeaderLine
<1>4. /\ h \in 1 .. L /\ i \in 1 .. L /\ L \in Nat /\ DOMAIN Lines = 1 .. L
      /\ IsLine(Lines[h]) /\ IsLine(Lines[i]) /\ Lines[h].kind = "H" /\ Lines[i].kind = "N"
      /\ \A j \in Kept : j \in Of("H") /\ j \in 1 .. L
  BY LinesAre, OwnHeader DEF Of
<1>5. Lines[i].cluster \in DOMAIN headers <=> h \in Kept
  BY <1>1, <1>2, <1>4 DEF TablesHold, HeadersHold
<1>6. h \in Kept <=> ~IsHosted(Lines[h])
  BY DEF Kept
<1>7. h \in Kept => headers[Lines[i].cluster] = HeaderOf(Lines[h])
  BY <1>1, <1>4 DEF TablesHold, HeadersHold
<1> QED BY <1>1, <1>3, <1>4, <1>5, <1>6, <1>7 DEF IsLine

LEMMA HeaderOfIs ==
  ASSUME NEW l
  PROVE  /\ HeaderOf(l).count = l.count
         /\ l.layout = "superseded" => HeaderOf(l).support = l.version
         /\ l.layout # "superseded" => /\ HeaderOf(l).support = l.support
                                       /\ HeaderOf(l).platform = CleanVal(l.platform)
<1>1. CASE l.layout = "superseded"
  <2>1. HeaderOf(l).count = l.count /\ HeaderOf(l).support = l.version
    BY <1>1 DEF HeaderOf
  <2> QED BY <1>1, <2>1
<1>2. CASE l.layout # "superseded"
  <2>1. HeaderOf(l) = [count |-> l.count, support |-> l.support, platform |-> CleanVal(l.platform),
                       installed |-> l.installed]
    BY <1>2, Zenon DEF HeaderOf
  <2>2. /\ HeaderOf(l).count = l.count /\ HeaderOf(l).support = l.support
        /\ HeaderOf(l).platform = CleanVal(l.platform)
    BY <2>1
  <2> QED BY <1>2, <2>2
<1> QED BY <1>1, <1>2

\* A row says what its line needs.
LEMMA RowNeeds ==
  ASSUME case \in Cases, TablesHold(Len(Lines)), NEW i \in Of("N"),
         Lines[i].cluster \in DOMAIN headers
  PROVE  LET r == RowOf(Lines[i].cluster, Lines[i]) IN
         /\ r.arch = ArchGroup(Lines[i]) /\ r.support = HeaderOf(HeaderLine(i)).support
         /\ Exempt(headers[Lines[i].cluster].count, Lines[i]) <=> Relieved(i)
         /\ HeaderLine(i).layout = "current" /\ ~Relieved(i) => r.phys + r.virt = Weight(i)
<1> DEFINE n == Lines[i]
           c == n.cluster
           h == HeaderLine(i)
           r == RowOf(c, n)
           arch == ArchGroup(n)
           physical == HeaderOf(h).platform = "baremetal" \/ arch = "s390x"
<1>1. headers[c] = HeaderOf(h) /\ h.layout \in {"current", "superseded"} /\ n.cpu \in Nat
  BY HeaderLineIs
<1>2. /\ r.arch = arch /\ r.support = HeaderOf(h).support
      /\ r.phys = SubPhysical(arch, physical, n.cpu) /\ r.virt = SubVirtual(physical, n.cpu)
  BY <1>1 DEF RowOf
<1>3. HeaderOf(h).count = h.count
  BY HeaderOfIs
<1>4. Exempt(headers[c].count, n) <=> Relieved(i)
  BY <1>1, <1>3 DEF Exempt, Relieved
<1>5. ASSUME h.layout = "current", ~Relieved(i) PROVE r.phys + r.virt = Weight(i)
  <2>1. HeaderOf(h).platform = "baremetal" <=> h.platform = "baremetal"
    <3>1. HeaderOf(h).platform = CleanVal(h.platform)
      BY <1>5, HeaderOfIs
    <3> QED BY <3>1 DEF CleanVal
  <2>2. Weight(i) = IF n.arch = "S390X" THEN n.cpu
                    ELSE IF h.platform = "baremetal" THEN Sockets(n.cpu, 2) ELSE Sockets(n.cpu, 4)
    BY <1>5 DEF Weight, Relieved
  <2>3. Sockets(n.cpu, 2) = CeilDiv(n.cpu, 2) /\ Sockets(n.cpu, 4) = CeilDiv(n.cpu, 4)
    BY <1>1, SocketsAre
  <2>4. CeilDiv(n.cpu, 2) \in Nat /\ CeilDiv(n.cpu, 4) \in Nat
    <3>1. \A x \in Nat : CeilDiv(x, 2) \in Nat /\ CeilDiv(x, 4) \in Nat
      BY DEF CeilDiv
    <3> QED BY <1>1, <3>1
  <2>5. arch = "s390x" <=> n.arch = "S390X"
    BY DEF ArchGroup
  <2>6. physical <=> h.platform = "baremetal" \/ n.arch = "S390X"
    BY <2>1, <2>5
  <2> HIDE DEF n, h, r, arch, physical
  <2> QED BY <1>1, <1>2, <2>2, <2>3, <2>4, <2>5, <2>6 DEF SubPhysical, SubVirtual
<1> QED BY <1>2, <1>4, <1>5

\* What TotalsMatchInput says the total of a group is.
Counted(g) ==
  {i \in Of("N") :
     LET h == HeaderLine(i) IN
     h.layout = "current" /\ ~IsHosted(h) /\ h.support = g.support /\ ArchGroup(Lines[i]) = g.arch}
InputTotal(g) == SumOver([i \in Counted(g) |-> Weight(i)], Counted(g))

LEMMA TotalIsInput ==
  ASSUME case \in Cases, TablesOK, TablesHold(Len(Lines)), NEW g, g.support \in {"STANDARD", "PREMIUM"}
  PROVE  TotalOf(Rows, g).base = InputTotal(g)
<1> DEFINE C == Counted(g)
           B == {i \in C : ~Relieved(i)}
           Q == {m \in DOMAIN Rows : Rows[m].arch = g.arch /\ Rows[m].support = g.support}
           f == [i \in C |-> Weight(i)]
           w == [m \in DOMAIN Rows |-> Rows[m].phys + Rows[m].virt]
<1>1. PICK s : RowsAreOf(s, Rows, Billed)
  BY AllRows
<1>2. Rows \in Seq(Row) /\ DOMAIN Rows = 1 .. Len(Rows) /\ Len(Rows) \in Nat
  BY RowsAre
<1>3. ASSUME NEW m \in DOMAIN Rows
      PROVE  /\ s[m] \in Billed /\ s[m] \in Of("N") /\ ~Relieved(s[m])
             /\ Lines[s[m]].cluster \in DOMAIN headers
             /\ Rows[m].arch = ArchGroup(Lines[s[m]])
             /\ Rows[m].support = HeaderOf(HeaderLine(s[m])).support
             /\ HeaderLine(s[m]).layout = "current" => w[m] = Weight(s[m])
             /\ w[m] \in Nat
  <2>1. s[m] \in Billed /\ Rows[m] = RowOf(Lines[s[m]].cluster, Lines[s[m]])
    BY <1>1, <1>2 DEF RowsAreOf, Numbers
  <2>2. s[m] \in Of("N") /\ Lines[s[m]].cluster \in DOMAIN headers
        /\ ~Exempt(headers[Lines[s[m]].cluster].count, Lines[s[m]])
    BY <2>1 DEF Billed
  <2>3. Rows[m] \in Row
    BY <1>2
  <2>4. Rows[m].phys \in Nat /\ Rows[m].virt \in Nat
    BY <2>3 DEF Row
  <2>5. w[m] = Rows[m].phys + Rows[m].virt
    OBVIOUS
  <2> HIDE DEF w
  <2> QED BY <2>1, <2>2, <2>4, <2>5, RowNeeds
<1>4. \A i \in C : i \in Of("N")
  BY DEF Counted
<1>5. ASSUME NEW m \in Q PROVE s[m] \in B
  <2> DEFINE i == s[m]
             h == HeaderLine(i)
  <2>1. /\ i \in Of("N") /\ ~Relieved(i) /\ Lines[i].cluster \in DOMAIN headers
        /\ ArchGroup(Lines[i]) = g.arch /\ HeaderOf(h).support = g.support
    BY <1>3
  <2> HIDE DEF i
  <2>2. /\ h.layout \in {"current", "superseded"} /\ ~IsHosted(h)
        /\ h.layout = "superseded" => h.version \notin {"STANDARD", "PREMIUM"}
    BY <2>1, HeaderLineIs
  <2>3. CASE h.layout = "superseded"
    BY <2>1, <2>2, <2>3, HeaderOfIs
  <2>4. CASE h.layout # "superseded"
    <3>1. h.layout = "current" /\ h.support = g.support
      BY <2>1, <2>2, <2>4, HeaderOfIs
    <3>2. i \in C
      BY <2>1, <2>2, <3>1 DEF Counted
    <3> QED BY <2>1, <3>2 DEF i
  <2> QED BY <2>3, <2>4
<1>6. ASSUME NEW i \in B PROVE \E m \in Q : s[m] = i
  <2> DEFINE h == HeaderLine(i)
  <2>1. /\ i \in Of("N") /\ h.layout = "current" /\ ~IsHosted(h) /\ h.support = g.support
        /\ ArchGroup(Lines[i]) = g.arch /\ ~Relieved(i)
    BY DEF Counted
  <2>2. Lines[i].cluster \in DOMAIN headers
    BY <2>1, HeaderLineIs
  <2>3. i \in Billed
    BY <2>1, <2>2, RowNeeds DEF Billed
  <2>4. PICK m \in DOMAIN Rows : s[m] = i
    BY <1>1, <1>2, <2>3 DEF RowsAreOf, Numbers
  <2>5. HeaderOf(h).support = h.support
    BY <2>1, HeaderOfIs
  <2> HIDE DEF h
  <2>6. Rows[m].arch = g.arch /\ Rows[m].support = g.support
    BY <1>3, <2>1, <2>4, <2>5 DEF h
  <2> QED BY <2>4, <2>6
<1>7. Q \in SUBSET DOMAIN Rows /\ IsFiniteSet(Q)
  <2>1. Q \in SUBSET DOMAIN Rows /\ IsFiniteSet(DOMAIN Rows)
    BY <1>2, FS_Interval
  <2> HIDE DEF Q
  <2> QED BY <2>1, FS_Subset, Zenon
<1>8. TotalOf(Rows, g).base = SumOver(w, Q)
  <2>1. TotalOf(Rows, g).base = Needed(Rows, Q)
    BY DEF TotalOf
  <2> HIDE DEF Q
  <2>2. Needed(Rows, Q) = SumOver([m \in DOMAIN Rows |-> Rows[m].phys + Rows[m].virt], Q)
    BY <1>2, <1>7, NeededSum
  <2> QED BY <2>1, <2>2
<1>9. \A m \in Q : w[m] = f[s[m]] /\ f[s[m]] \in Nat
  <2> SUFFICES ASSUME NEW m \in Q PROVE w[m] = f[s[m]] /\ f[s[m]] \in Nat
    OBVIOUS
  <2>1. s[m] \in C /\ m \in DOMAIN Rows
    BY <1>5
  <2>2. HeaderLine(s[m]).layout = "current"
    BY <2>1 DEF Counted
  <2>3. f[s[m]] = Weight(s[m])
    BY <2>1
  <2> HIDE DEF w, f, Q
  <2> QED BY <1>3, <2>1, <2>2, <2>3
<1>10. {s[m] : m \in Q} = B
  <2> HIDE DEF B, Q
  <2> QED BY <1>5, <1>6
<1>11. \A p, q \in Q : s[p] = s[q] => p = q
  BY <1>1, <1>2 DEF RowsAreOf, Numbers
<1> HIDE DEF Q, w
<1>12. SumOver(w, Q) = SumOver(f, B)
  <2> HIDE DEF f, B
  <2>1. SumOver(w, Q) = SumOver(f, {s[m] : m \in Q})
    BY <1>7, <1>9, <1>11, SumMoved
  <2> QED BY <1>10, <2>1
<1>13. \A i \in C \ B : f[i] = 0
  <2> SUFFICES ASSUME NEW i \in C, Relieved(i) PROVE f[i] = 0
    OBVIOUS
  <2> QED BY DEF Weight, Relieved
<1>14. \A i \in B : f[i] \in Nat
  BY <1>9, <1>6
<1>15. IsFiniteSet(B) /\ IsFiniteSet(C \ B) /\ (C \ B) \cap B = {} /\ C = B \cup (C \ B)
  <2>1. Of("N") \subseteq 1 .. Len(Lines) /\ Len(Lines) \in Nat
    BY OwnHeader, LinesAre
  <2>2. IsFiniteSet(1 .. Len(Lines))
    BY <2>1, FS_Interval
  <2>3. B \in SUBSET (1 .. Len(Lines)) /\ C \ B \in SUBSET (1 .. Len(Lines))
    BY <1>4, <2>1
  <2>4. (C \ B) \cap B = {} /\ C = B \cup (C \ B)
    OBVIOUS
  <2> HIDE DEF B, C
  <2> QED BY <2>2, <2>3, <2>4, FS_Subset, Zenon
<1> HIDE DEF f, B
<1>16. SumOver(f, C \ B) = 0
  BY <1>13, <1>15, SumOfZeros
<1>17. SumOver(f, B \cup (C \ B)) = SumOver(f, B) + SumOver(f, C \ B)
  <2>1. \A i \in B \cup (C \ B) : f[i] \in Nat
    BY <1>13, <1>14
  <2> HIDE DEF C
  <2> QED BY <1>15, <2>1, SumDisjoint
<1>18. SumOver(f, B) \in Nat
  BY <1>14, <1>15, SumIsNat
<1>19. SumOver(f, C) = SumOver(f, B)
  <2>1. PICK D : D = C \ B
    OBVIOUS
  <2>2. SumOver(f, B \cup D) = SumOver(f, B) /\ C = B \cup D
    BY <1>15, <1>16, <1>17, <1>18, <2>1
  <2> QED BY <2>2
<1> QED BY <1>8, <1>12, <1>19 DEF InputTotal, f

LEMMA SameTotals ==
  ASSUME case' = case
  PROVE  \A g : InputTotal(g)' = InputTotal(g)
<1>1. Lines' = Lines /\ \A kind : Of(kind)' = Of(kind)
  BY SameLines
<1>2. \A i : HeaderLine(i)' = HeaderLine(i)
  BY <1>1 DEF HeaderLine
<1>3. \A i : Weight(i)' = Weight(i)
  BY <1>1, <1>2 DEF Weight
<1>4. \A g : Counted(g)' = Counted(g)
  BY <1>1, <1>2 DEF Counted
<1> QED BY <1>3, <1>4 DEF InputTotal

TotalsAreSums ==
  output # NoFile => \A k \in DOMAIN output.totals : output.totals[k].base = InputTotal(AggrGroups[k])

LEMMA TotalsSteps ==
  ASSUME ComplianceIInv, ReadIInv, TotalsAreSums, ComplianceNext
  PROVE  TotalsAreSums'
<1>1. case' = case /\ \A g : InputTotal(g)' = InputTotal(g)
  BY FileSteps, SameTotals
<1>2. CASE output' = output \/ (output # NoFile /\ output'.totals = output.totals)
  BY <1>1, <1>2 DEF TotalsAreSums
<1>3. CASE output' = EmptyReport
  BY <1>3 DEF EmptyReport, TotalsAreSums
<1>4. CASE /\ phase = "write" /\ output \in Report /\ Len(output.totals) < 4
           /\ output'.totals = Append(output.totals, TotalOf(Rows, AggrGroups[Len(output.totals) + 1]))
  <2> DEFINE n == Len(output.totals)
             total == TotalOf(Rows, AggrGroups[n + 1])
  <2>1. output.totals \in Seq(Total) /\ output # NoFile
    BY <1>4, NoFileIsNoReport DEF Report
  <2>2. n + 1 \in 1 .. 4
    BY <1>4, <2>1
  <2>3. \A k \in 1 .. 4 : AggrGroups[k].support \in {"STANDARD", "PREMIUM"}
    BY DEF AggrGroups, Group
  <2> HIDE DEF n
  <2>4. total.base = InputTotal(AggrGroups[n + 1])
    BY <1>4, <2>2, <2>3, AllRead, TotalIsInput DEF ComplianceIInv
  <2> HIDE DEF total
  <2>5. /\ DOMAIN output'.totals = DOMAIN output.totals \cup {n + 1} /\ output'.totals[n + 1] = total
        /\ \A k \in DOMAIN output.totals : output'.totals[k] = output.totals[k]
    BY <1>4, <2>1 DEF n, total
  <2>6. \A k \in DOMAIN output.totals : output.totals[k].base = InputTotal(AggrGroups[k])
    BY <2>1 DEF TotalsAreSums
  <2>7. \A k \in DOMAIN output'.totals : output'.totals[k].base = InputTotal(AggrGroups[k])
    BY <2>4, <2>5, <2>6
  <2> QED BY <1>1, <2>7 DEF TotalsAreSums
<1> QED BY <1>2, <1>3, <1>4, FileSteps, NoFileIsNoReport

\* README.md:645-651: whatever the input and wherever the report is cut off, each
\* total is the sum over the N lines of what each of them needs, every line of a
\* cluster that counts once and no other line.
THEOREM TotalsAreOfInput == ReportingSpec => []TotalsMatchInput
<1>1. ReportingInit => TotalsAreSums
  BY DEF ReportingInit, ComplianceInit, TotalsAreSums
<1>2. ASSUME ComplianceIInv, ReadIInv, TotalsAreSums, [ReportingNext]_reportingVars
      PROVE  TotalsAreSums'
  <2>1. CASE ComplianceNext
    BY <1>2, <2>1, TotalsSteps
  <2>2. CASE UNCHANGED complianceVars
    <3>1. case' = case /\ output' = output
      BY <2>2 DEF complianceVars
    <3> QED BY <1>2, <3>1, SameTotals DEF TotalsAreSums
  <2> QED BY <1>2, <2>1, <2>2, Zenon DEF ReportingNext, Import, ReportingDone, reportingVars
<1>3. TotalsAreSums => TotalsMatchInput
  BY DEF TotalsAreSums, InputTotal, Counted, TotalsMatchInput
<1> QED BY <1>1, <1>2, <1>3, ComplianceInvariant, TablesInvariant, PTL DEF ReportingSpec

-----------------------------------------------------------------------------
\* A report that was cut off.

\* A report of the tables as they are, as far as it was written: the rows are
\* all there before anything is available.
WholePart(r) ==
  /\ Len(r.rows) <= Len(Rows) /\ \A i \in DOMAIN r.rows : r.rows[i] = Rows[i]
  /\ r.available # <<>> => Len(r.rows) = Len(Rows)
  /\ \A k \in DOMAIN r.available : r.available[k] = AvailableOf(LoadSubscriptions, AggrGroups[k])

\* What is torn is left of the next row, or of the next stock.
TornPart(r) ==
  /\ r.tornRow # <<>> =>
       /\ Len(r.rows) < Len(Rows) /\ Len(r.tornRow) = 1
       /\ r.tornRow[1].cluster = Rows[Len(r.rows) + 1].cluster
  /\ r.tornStock # <<>> =>
       /\ Len(r.rows) = Len(Rows) /\ Len(r.tornStock) = 1
       /\ r.tornStock[1].base
            \in FirstDigits(AvailableOf(LoadSubscriptions, AggrGroups[Len(r.available) + 1]).base)

IsCutOf(r) == WholePart(r) /\ TornPart(r)

\* What there is before the script was started a second time.
FirstRun ==
  /\ runs = 0 => output = NoFile /\ phase = "idle"
  /\ imported # NoFile => output # NoFile
  /\ runs = 1 /\ phase = "read" => output = NoFile
  /\ runs = 1 /\ output # NoFile => IsCutOf(output) /\ (imported # NoFile => IsCutOf(imported))

LEMMA CutStays ==
  ASSUME UNCHANGED <<case, tables>>
  PROVE  Rows' = Rows /\ LoadSubscriptions' = LoadSubscriptions /\ \A r : IsCutOf(r)' <=> IsCutOf(r)
<1>1. Rows' = Rows /\ LoadSubscriptions' = LoadSubscriptions
  BY RowsStay DEF LoadSubscriptions
<1> QED BY <1>1 DEF IsCutOf, WholePart, TornPart

LEMMA WholeGrows ==
  ASSUME ComplianceIInv, ReportIInv, ComplianceNext, phase = "write", WholePart(output),
         UNCHANGED <<case, phase, tables>>
  PROVE  WholePart(output')
<1>1. output \in Report /\ Rows \in Seq(Row) /\ WritingOK
  BY ReportIs, RowsAre DEF ComplianceIInv, ReportIInv
<1>2. /\ output.rows \in Seq(Row) /\ output.available \in Seq(Balance) /\ output.totals \in Seq(Total)
  BY <1>1 DEF Report
<1>3. CASE output' = output \/ (output'.rows = output.rows /\ output'.available = output.available)
  BY <1>3 DEF WholePart
<1>4. CASE /\ Len(output.rows) < Len(Rows) /\ output'.available = output.available
           /\ output'.rows = Append(output.rows, Rows[Len(output.rows) + 1])
  <2> DEFINE n == Len(output.rows)
  <2>1. /\ n \in Nat /\ Len(Rows) \in Nat /\ Len(output'.rows) = n + 1
        /\ \A i \in DOMAIN output'.rows : i \in DOMAIN output.rows \/ i = n + 1
        /\ \A i \in DOMAIN output.rows : output'.rows[i] = output.rows[i]
        /\ output'.rows[n + 1] = Rows[n + 1]
    BY <1>1, <1>2, <1>4
  <2> HIDE DEF n
  <2>2. output.available = <<>>
    BY <1>4 DEF WholePart
  <2> QED BY <1>4, <2>1, <2>2 DEF WholePart, n
<1>5. CASE /\ Len(output.available) < 4 /\ ~(Len(output.totals) < 4) /\ output'.rows = output.rows
           /\ output'.available = Append(output.available,
                AvailableOf(LoadSubscriptions, AggrGroups[Len(output.available) + 1]))
  <2> DEFINE n == Len(output.available)
             x == AvailableOf(LoadSubscriptions, AggrGroups[n + 1])
  <2>1. Len(output.rows) = Len(Rows)
    <3>1. output.totals # <<>>
      BY <1>2, <1>5
    <3> QED BY <1>1, <3>1 DEF WritingOK
  <2>2. /\ \A k \in DOMAIN output'.available : k \in DOMAIN output.available \/ k = n + 1
        /\ \A k \in DOMAIN output.available : output'.available[k] = output.available[k]
        /\ output'.available[n + 1] = x
    <3>1. output'.available = Append(output.available, x)
      BY <1>5
    <3> HIDE DEF x
    <3> QED BY <1>2, <3>1
  <2> HIDE DEF n
  <2> QED BY <1>5, <2>1, <2>2 DEF WholePart
<1> QED BY <1>3, <1>4, <1>5, FileSteps

LEMMA TornGrows ==
  ASSUME ComplianceIInv, ReportIInv, ComplianceNext, phase = "write", TornPart(output),
         UNCHANGED <<case, phase, tables>>
  PROVE  TornPart(output')
<1>1. output \in Report /\ Rows \in Seq(Row) /\ WritingOK
  BY ReportIs, RowsAre DEF ComplianceIInv, ReportIInv
<1>2. CASE WriteRow \/ WriteTotal \/ WriteAvailable \/ WriteGap
  <2>1. output'.tornRow = <<>> /\ output'.tornStock = <<>>
    BY <1>1, <1>2 DEF WriteRow, WriteTotal, WriteAvailable, WriteGap, WriteTo, Report
  <2> QED BY <2>1 DEF TornPart
<1>3. CASE FlushInRow
  <2> DEFINE n == Len(output.rows)
  <2>1. PICK part \in TornRows(Rows[n + 1]) :
          n < Len(Rows) /\ output' = [output EXCEPT !.tornRow = <<part>>]
    BY <1>3 DEF FlushInRow, Missing
  <2>2. /\ output'.rows = output.rows /\ output'.tornRow = <<part>>
        /\ output'.tornStock = output.tornStock /\ n \in Nat
    BY <1>1, <2>1 DEF Report
  <2> HIDE DEF n
  <2>3. part.cluster = Rows[n + 1].cluster
    <3>1. n + 1 \in 1 .. Len(Rows)
      BY <1>1, <2>1, <2>2
    <3>2. Rows[n + 1] \in Row
      BY <1>1, <3>1
    <3> QED BY <2>1, <3>2, TornRowIs
  <2>4. output.tornStock = <<>>
    BY <1>1, <2>1, <2>2 DEF TornPart, n
  <2>5. Len(output'.tornRow) = 1 /\ output'.tornRow[1] = part
    BY <2>2
  <2> QED BY <2>1, <2>2, <2>3, <2>4, <2>5 DEF TornPart, n
<1>4. CASE FlushInStock
  <2> DEFINE row == AvailableOf(LoadSubscriptions, AggrGroups[Len(output.available) + 1])
  <2>1. PICK part \in FirstDigits(row.base) :
          /\ ~(Len(output.totals) < 4)
          /\ output' = [output EXCEPT !.tornStock = <<[row EXCEPT !.base = part]>>]
    BY <1>4 DEF FlushInStock, Missing, NextGroup
  <2>2. [row EXCEPT !.base = part].base = part
    BY DEF AvailableOf
  <2> DEFINE torn == [row EXCEPT !.base = part]
  <2>3. PICK base : base = row.base
    OBVIOUS
  <2> HIDE DEF row, torn
  <2>4. /\ output'.rows = output.rows /\ output'.available = output.available
        /\ output'.tornRow = output.tornRow
        /\ output'.tornStock = <<torn>>
    BY <1>1, <2>1 DEF Report, torn
  <2>5. output.totals # <<>> /\ Len(output.rows) \in Nat
    BY <1>1, <2>1 DEF Report
  <2>6. Len(output.rows) = Len(Rows)
    BY <1>1, <2>5 DEF WritingOK
  <2>7. output.tornRow = <<>>
    BY <2>5, <2>6 DEF TornPart
  <2>8. Len(output'.tornStock) = 1 /\ output'.tornStock[1] = torn
    BY <2>4
  <2>9. torn.base = part
    BY <2>2 DEF torn
  <2> QED BY <2>1, <2>4, <2>6, <2>7, <2>8, <2>9 DEF TornPart, row
<1>5. \/ WriteRow \/ WriteTotal \/ WriteAvailable \/ WriteGap \/ FlushInRow \/ FlushInStock
  <2>1. phase = "write" /\ phase' = "write"
    OBVIOUS
  <2> QED BY <2>1, Zenon DEF ComplianceNext, StartEvaluation, ReadHeader, ReadNode, ReadVersions,
        SkipLine, ReadLine, OpenReport, CloseReport, KillEvaluation
<1> QED BY <1>2, <1>3, <1>4, <1>5

LEMMA CutGrows ==
  ASSUME ComplianceIInv, ReportIInv, ComplianceNext, phase = "write", IsCutOf(output),
         UNCHANGED <<case, phase, tables>>
  PROVE  IsCutOf(output')
BY WholeGrows, TornGrows DEF IsCutOf

LEMMA FirstRunSteps ==
  ASSUME ComplianceIInv, ReportIInv, FirstRun, ComplianceNext, imported' = imported
  PROVE  FirstRun'
<1>1. runs \in Nat
  BY ComplianceAssumption DEF ComplianceIInv
<1>2. CASE StartEvaluation
  <2>1. runs' = runs + 1 /\ output' = output
    BY <1>2 DEF StartEvaluation
  <2>2. runs' # 0 /\ (runs' = 1 => output' = NoFile)
    BY <1>1, <2>1 DEF FirstRun
  <2> QED BY <2>1, <2>2 DEF FirstRun
<1>3. CASE ReadHeader \/ ReadNode \/ ReadVersions \/ SkipLine
  <2>1. phase = "read" /\ phase' = "read" /\ runs' = runs /\ output' = output
    BY <1>3 DEF ReadHeader, ReadNode, ReadVersions, SkipLine, ReadLine
  <2> QED BY <2>1 DEF FirstRun
<1>4. CASE OpenReport
  <2>1. phase = "read" /\ phase' = "write" /\ runs' = runs /\ output' = EmptyReport
        /\ UNCHANGED <<case, tables>>
    BY <1>4 DEF OpenReport
  <2>2. Rows' = Rows /\ Rows \in Seq(Row)
    BY <2>1, CutStays, RowsAre DEF ComplianceIInv
  <2>3. IsCutOf(output)'
    BY <2>1, <2>2 DEF IsCutOf, WholePart, TornPart, EmptyReport
  <2>4. output' # NoFile
    BY <1>4, Opened, NoFileIsNoReport DEF ComplianceIInv, OpenReport
  <2> QED BY <2>1, <2>3, <2>4 DEF FirstRun
<1>5. CASE \/ WriteRow \/ FlushInRow \/ FlushInStock
           \/ WriteTotal \/ WriteAvailable \/ WriteGap
  <2>1. phase = "write" /\ UNCHANGED <<case, phase, tables, runs>>
    BY <1>5 DEF WriteRow, FlushInRow, FlushInStock, WriteTotal, WriteAvailable, WriteGap, WriteTo
  <2>2. output # NoFile /\ output' # NoFile
    BY <2>1, ComplianceSteps, NoFileIsNoReport DEF ComplianceIInv
  <2>3. runs = 1 => IsCutOf(output) /\ (imported # NoFile => IsCutOf(imported))
    BY <2>2 DEF FirstRun
  <2>4. runs = 1 => IsCutOf(output')
    BY <2>1, <2>3, CutGrows
  <2>5. \A r : IsCutOf(r)' <=> IsCutOf(r)
    BY <2>1, CutStays
  <2>6. Rows' = Rows /\ LoadSubscriptions' = LoadSubscriptions
    BY <2>1, CutStays
  <2>7. runs = 1 => IsCutOf(output)'
    BY <2>4, <2>6 DEF IsCutOf, WholePart, TornPart
  <2> QED BY <2>1, <2>2, <2>3, <2>5, <2>7 DEF FirstRun
<1>6. CASE CloseReport \/ KillEvaluation
  <2>1. phase' = "idle" /\ UNCHANGED <<case, tables, runs, output>>
    BY <1>6 DEF CloseReport, KillEvaluation
  <2>2. \A r : IsCutOf(r)' <=> IsCutOf(r)
    BY <2>1, CutStays
  <2> QED BY <2>1, <2>2 DEF FirstRun
<1> QED BY <1>2, <1>3, <1>4, <1>5, <1>6, Zenon DEF ComplianceNext

LEMMA FirstRunInvariant == ReportingSpec => []FirstRun
<1>1. ReportingInit => FirstRun
  BY DEF ReportingInit, ComplianceInit, FirstRun
<1>2. ASSUME ComplianceIInv, ReportIInv, FirstRun, [ReportingNext]_reportingVars PROVE FirstRun'
  <2>1. CASE ComplianceNext /\ UNCHANGED <<allocationVars, imported, imports>>
    BY <1>2, <2>1, FirstRunSteps
  <2>2. CASE UNCHANGED complianceVars /\ imported' \in {imported, output} /\ (imported' # NoFile => output # NoFile)
    <3>1. UNCHANGED <<case, tables, phase, runs, output>>
      BY <2>2 DEF complianceVars
    <3>2. \A r : IsCutOf(r)' <=> IsCutOf(r)
      BY <3>1, CutStays
    <3> QED BY <1>2, <2>2, <3>1, <3>2 DEF FirstRun
  <2>3. CASE Import
    BY <2>2, <2>3 DEF Import
  <2>4. CASE UNCHANGED complianceVars /\ imported' = imported
    BY <1>2, <2>2, <2>4 DEF FirstRun
  <2> QED BY <1>2, <2>1, <2>3, <2>4, Zenon DEF ReportingNext, ReportingDone, reportingVars
<1> QED BY <1>1, <1>2, ComplianceInvariant, ReportInvariant, PTL DEF ReportingSpec

\* A pool of a sheet that is not empty is one the report has a stock of.
LEMMA StockFrom ==
  ASSUME NEW r \in Report, NEW p \in Pool, StockOf(r)[p] # 0
  PROVE  \E k \in 1 .. 4 : k \in DOMAIN StocksIn(r) /\ p = AggrGroups[k]
<1> DEFINE I == {i \in 1 .. Len(AggrGroups) : AggrGroups[i] = p}
           at == IF I # {} THEN Min(I) ELSE 0
<1>1. Len(AggrGroups) = 4
  BY DEF AggrGroups
<1>2. StockOf(r)[p] = IF at \in DOMAIN StocksIn(r) THEN StocksIn(r)[at].base ELSE 0
  BY DEF StockOf, SelectInSeq
<1>3. at \in DOMAIN StocksIn(r)
  <2> HIDE DEF at
  <2> QED BY <1>2
<1>4. 0 \notin DOMAIN StocksIn(r)
  <2>1. StocksIn(r) \in Seq(Balance)
    BY FileIs
  <2> QED BY <2>1
<1>5. I # {} /\ at = Min(I)
  <2> HIDE DEF I
  <2> QED BY <1>3, <1>4
<1>6. I \subseteq Nat
  OBVIOUS
<1>7. Min(I) \in I
  <2> HIDE DEF I
  <2> QED BY <1>5, <1>6, MinIs
<1> QED BY <1>1, <1>3, <1>5, <1>7

\* The rows of a cluster follow one another.
LEMMA RowsGrouped ==
  ASSUME case \in Cases, TablesOK
  PROVE  \A x, y, z \in 1 .. Len(Rows) :
           x <= y /\ y <= z /\ Rows[x].cluster = Rows[z].cluster => Rows[y].cluster = Rows[x].cluster
<1> DEFINE D == DOMAIN headers
           n == Cardinality(D)
           ids == InOrder(D)
           parts == [i \in DOMAIN ids |-> RowsOf(ids[i])]
           k == Len(Rows)
<1>1. /\ n \in Nat /\ DOMAIN ids = 1 .. n /\ Numbers(ids, n, D)
  BY KeysAre, InOrderIs, InOrderNumbers
<1>2. Rows = FlattenSeq(parts)
  BY DEF Rows
<1>3. \A c \in D : \A j \in 1 .. Len(RowsOf(c)) : RowsOf(c)[j].cluster = c
  <2> SUFFICES ASSUME NEW c \in D, NEW j \in 1 .. Len(RowsOf(c)) PROVE RowsOf(c)[j].cluster = c
    OBVIOUS
  <2> DEFINE B == {i \in DOMAIN nodes[c] : ~Exempt(headers[c].count, nodes[c][i])}
  <2>1. RowsOf(c) = [i \in 1 .. Cardinality(B) |-> RowOf(c, nodes[c][InOrder(B)[i]])]
    BY DEF RowsOf
  <2>2. RowsOf(c) \in Seq(OwnRow)
    BY RowsOfIs DEF D
  <2>3. DOMAIN RowsOf(c) = 1 .. Len(RowsOf(c))
    BY <2>2
  <2> HIDE DEF B
  <2>4. j \in 1 .. Cardinality(B)
    BY <2>1, <2>3
  <2>5. RowsOf(c)[j] = RowOf(c, nodes[c][InOrder(B)[j]])
    BY <2>1, <2>4
  <2> QED BY <2>5 DEF RowOf
<1> HIDE DEF ids, n, D
<1>4. \A i \in 1 .. n : ids[i] \in D
  BY <1>1 DEF Numbers
<1>5. parts \in Seq(Seq(OwnRow)) /\ Len(parts) = n /\ \A i \in 1 .. n : parts[i] = RowsOf(ids[i])
  BY <1>1, <1>4, RowsOfIs DEF D
<1> HIDE DEF parts
<1>6. PICK a, b : ComesFrom(a, b, parts)
  BY <1>5, FlattenPlaces
<1>7. /\ \A m \in 1 .. k : a[m] \in 1 .. n /\ b[m] \in 1 .. Len(parts[a[m]]) /\ Rows[m] = parts[a[m]][b[m]]
      /\ \A m, l \in 1 .. k : m < l => a[m] <= a[l]
  BY <1>2, <1>5, <1>6 DEF ComesFrom
<1>8. k \in Nat
  <2>1. Rows \in Seq(Row)
    BY RowsAre
  <2> QED BY <2>1
<1> HIDE DEF k
<1>9. \A m \in 1 .. k : Rows[m].cluster = ids[a[m]]
  <2> SUFFICES ASSUME NEW m \in 1 .. k PROVE Rows[m].cluster = ids[a[m]]
    OBVIOUS
  <2>1. a[m] \in 1 .. n /\ b[m] \in 1 .. Len(parts[a[m]]) /\ Rows[m] = parts[a[m]][b[m]]
    BY <1>7
  <2>2. PICK c, j : c = ids[a[m]] /\ j = b[m]
    OBVIOUS
  <2>3. c \in D /\ parts[a[m]] = RowsOf(c)
    BY <1>4, <1>5, <2>1, <2>2
  <2>4. j \in 1 .. Len(RowsOf(c)) /\ Rows[m] = RowsOf(c)[j]
    BY <2>1, <2>2, <2>3
  <2> QED BY <1>3, <2>2, <2>3, <2>4
<1> SUFFICES ASSUME NEW x \in 1 .. k, NEW y \in 1 .. k, NEW z \in 1 .. k,
                    x <= y, y <= z, Rows[x].cluster = Rows[z].cluster
             PROVE  Rows[y].cluster = Rows[x].cluster
  BY DEF k
<1>10. a[x] = a[z]
  BY <1>1, <1>7, <1>9 DEF Numbers
<1>11. a[x] <= a[y] /\ a[y] <= a[z]
  <2>1. a[x] \in Int /\ a[y] \in Int /\ a[z] \in Int
    BY <1>7
  <2>2. (x = y \/ x < y) /\ (y = z \/ y < z)
    BY <1>8
  <2> QED BY <1>7, <2>1, <2>2
<1>12. a[y] = a[x]
  <2>1. a[x] \in Int /\ a[y] \in Int
    BY <1>7
  <2> QED BY <1>10, <1>11, <2>1
<1> QED BY <1>9, <1>12

\* w is one sequence after another.
Joined(w, s, t) ==
  /\ Len(s) \in Nat /\ Len(t) \in Nat /\ DOMAIN s = 1 .. Len(s)
  /\ Len(w) = Len(s) + Len(t) /\ DOMAIN w = 1 .. Len(s) + Len(t)
  /\ \A j \in 1 .. Len(s) : w[j] = s[j]
  /\ Len(t) = 1 => w[Len(s) + 1] = t[1]

LEMMA Concatenated ==
  ASSUME NEW S, NEW s \in Seq(S), NEW t \in Seq(S)
  PROVE  Joined(s \o t, s, t)
BY DEF Joined

LEMMA FileParts ==
  ASSUME NEW r \in Report
  PROVE  Joined(RowsIn(r), r.rows, r.tornRow) /\ Joined(StocksIn(r), r.available, r.tornStock)
<1>1. /\ r.rows \in Seq(Row) /\ r.tornRow \in Seq(Row)
      /\ r.available \in Seq(Balance) /\ r.tornStock \in Seq(Balance)
  BY DEF Report
<1>2. \A s, t \in Seq(Row) : Joined(s \o t, s, t)
  BY Concatenated
<1>3. \A s, t \in Seq(Balance) : Joined(s \o t, s, t)
  BY Concatenated
<1> QED BY <1>1, <1>2, <1>3, Zenon DEF RowsIn, StocksIn

\* The rows in the file are the first of the tables' rows, the last one perhaps torn.
LEMMA SeenIs ==
  ASSUME NEW r \in Report, IsCutOf(r), Rows \in Seq(Row)
  PROVE  /\ RowsIn(r) \in Seq(Row) /\ Len(r.rows) \in Nat
         /\ Len(RowsIn(r)) \in {Len(r.rows), Len(r.rows) + 1}
         /\ Len(r.rows) <= Len(RowsIn(r)) /\ Len(RowsIn(r)) <= Len(Rows)
         /\ \A j \in 1 .. Len(r.rows) : RowsIn(r)[j] = Rows[j]
         /\ \A j \in 1 .. Len(RowsIn(r)) : RowsIn(r)[j].cluster = Rows[j].cluster
         /\ Len(r.rows) = Len(Rows) => RowsIn(r) = Rows
<1> DEFINE n == Len(r.rows)
<1>1. r.rows \in Seq(Row) /\ r.tornRow \in Seq(Row) /\ n \in Nat /\ Len(Rows) \in Nat
  BY DEF Report
<1>2. n <= Len(Rows) /\ \A j \in 1 .. n : r.rows[j] = Rows[j]
  BY <1>1 DEF IsCutOf, WholePart
<1>3. CASE r.tornRow = <<>>
  <2>1. RowsIn(r) = r.rows
    BY <1>1, <1>3 DEF RowsIn
  <2>2. n = Len(Rows) => r.rows = Rows
    BY <1>1, <1>2
  <2> QED BY <1>1, <1>2, <2>1, <2>2
<1>4. CASE r.tornRow # <<>>
  <2>1. n < Len(Rows) /\ Len(r.tornRow) = 1 /\ r.tornRow[1].cluster = Rows[n + 1].cluster
    BY <1>4 DEF IsCutOf, TornPart
  <2>2. /\ RowsIn(r) \in Seq(Row) /\ Len(RowsIn(r)) = n + 1
        /\ \A j \in 1 .. n : RowsIn(r)[j] = r.rows[j]
        /\ RowsIn(r)[n + 1] = r.tornRow[1]
    BY <2>1, FileParts, FileIs DEF Joined
  <2> HIDE DEF n
  <2>3. \A j \in 1 .. n + 1 : j \in 1 .. n \/ j = n + 1
    BY <1>1
  <2>4. \A j \in 1 .. n + 1 : RowsIn(r)[j].cluster = Rows[j].cluster
    BY <1>2, <2>1, <2>2, <2>3
  <2>5. n <= n + 1 /\ n + 1 <= Len(Rows) /\ n # Len(Rows)
    BY <1>1, <2>1
  <2> QED BY <1>1, <1>2, <2>2, <2>4, <2>5 DEF n
<1> QED BY <1>3, <1>4

RowsFrom(rows, c) == {j \in DOMAIN rows : rows[j].cluster = c}

\* A cluster none of whose rows is missing or torn needs in the file what it needs.
LEMMA SameNeeds ==
  ASSUME case \in Cases, TablesOK, NEW r \in Report, IsCutOf(r), NEW c \in IdsOf(RowsIn(r)),
         Len(r.rows) = Len(Rows) \/ c # RowsIn(r)[Len(RowsIn(r))].cluster
  PROVE  Needed(Rows, RowsFrom(Rows, c)) = Needed(RowsIn(r), RowsFrom(RowsIn(r), c))
<1> DEFINE seen == RowsIn(r)
           n == Len(r.rows)
           k == Len(seen)
<1>1. Rows \in Seq(Row)
  BY RowsAre
<1>2. /\ seen \in Seq(Row) /\ n \in Nat /\ k \in {n, n + 1} /\ n <= k /\ k <= Len(Rows)
      /\ \A j \in 1 .. n : seen[j] = Rows[j]
      /\ \A j \in 1 .. k : seen[j].cluster = Rows[j].cluster
      /\ n = Len(Rows) => seen = Rows
  BY <1>1, SeenIs
<1>3. CASE n = Len(Rows)
  BY <1>2, <1>3
<1>4. CASE n # Len(Rows)
  <2> HIDE DEF seen, n
  <2>1. DOMAIN seen = 1 .. k /\ DOMAIN Rows = 1 .. Len(Rows) /\ k \in Nat /\ Len(Rows) \in Nat
    BY <1>1, <1>2
  <2>2. PICK x \in 1 .. k : seen[x].cluster = c
    BY <2>1 DEF IdsOf, seen
  <2>3. c # seen[k].cluster /\ k \in 1 .. k
    BY <1>4, <2>1, <2>2 DEF seen, n
  <2> HIDE DEF k
  <2>20. n \in Nat /\ k \in {n, n + 1} /\ n <= k /\ k <= Len(Rows)
    BY <1>2
  <2>4. c # Rows[k].cluster /\ Rows[x].cluster = c
    BY <1>2, <2>2, <2>3
  <2>5. ASSUME NEW j \in 1 .. Len(Rows), Rows[j].cluster = c PROVE j \in 1 .. n
    <3>1. x \in 1 .. Len(Rows) /\ k \in 1 .. Len(Rows) /\ x <= k
      BY <2>20, <2>1, <2>2, <2>3
    <3>2. ~(k <= j)
      BY <2>4, <2>5, <3>1, RowsGrouped
    <3> QED BY <2>20, <2>1, <3>2
  <2>6. RowsFrom(Rows, c) = RowsFrom(seen, c)
    <3>1. ASSUME NEW j \in RowsFrom(Rows, c) PROVE j \in RowsFrom(seen, c)
      <4>1. j \in 1 .. Len(Rows) /\ Rows[j].cluster = c
        BY <2>1 DEF RowsFrom
      <4>2. j \in 1 .. n /\ j \in 1 .. k
        BY <2>20, <2>1, <2>5, <4>1
      <4> QED BY <1>2, <2>1, <4>1, <4>2 DEF RowsFrom
    <3>2. ASSUME NEW j \in RowsFrom(seen, c) PROVE j \in RowsFrom(Rows, c)
      <4>1. j \in 1 .. k /\ seen[j].cluster = c
        BY <2>1 DEF RowsFrom
      <4>2. j \in 1 .. Len(Rows)
        BY <2>20, <2>1, <4>1
      <4> QED BY <1>2, <2>1, <4>1, <4>2 DEF RowsFrom
    <3> QED BY <3>1, <3>2
  <2>7. \A j \in RowsFrom(Rows, c) : Rows[j] = seen[j]
    BY <1>2, <2>1, <2>5 DEF RowsFrom
  <2>8. \A field : [j \in RowsFrom(Rows, c) |-> Rows[j][field]] = [j \in RowsFrom(seen, c) |-> seen[j][field]]
    BY <2>6, <2>7
  <2>9. PICK A : A = RowsFrom(Rows, c) /\ A = RowsFrom(seen, c)
    BY <2>6
  <2>10. \A field : SumOf(Rows, field, A) = SumOf(seen, field, A)
    BY <2>8, <2>9 DEF SumOf
  <2>11. Needed(Rows, A) = Needed(seen, A)
    BY <2>10 DEF Needed
  <2> QED BY <2>9, <2>11 DEF seen
<1> QED BY <1>3, <1>4

\* What a torn stock is worth, it is not worth more than the whole one.
LEMMA StockCovers ==
  ASSUME case \in Cases, NEW r \in Report, IsCutOf(r), NEW p \in Pool, StockOf(r)[p] > 0
  PROVE  /\ Len(r.rows) = Len(Rows)
         /\ LoadSubscriptions[<<p.support, p.arch>>] \in Int
         /\ StockOf(r)[p] <= LoadSubscriptions[<<p.support, p.arch>>]
<1>1. StockOf(r)[p] \in Int /\ StockOf(r)[p] # 0
  BY StockIs
<1>2. PICK k \in 1 .. 4 : k \in DOMAIN StocksIn(r) /\ p = AggrGroups[k]
  BY <1>1, StockFrom
<1>3. StockOf(r)[p] = StocksIn(r)[k].base
  BY <1>2, StockHolds
<1>4. r.available \in Seq(Balance) /\ r.tornStock \in Seq(Balance)
  BY DEF Report
<1>5. AvailableOf(LoadSubscriptions, AggrGroups[k]).base = LoadSubscriptions[<<p.support, p.arch>>]
  BY <1>2 DEF AvailableOf
<1>50. LoadSubscriptions[<<p.support, p.arch>>] \in Int
  <2>1. AvailableOf(LoadSubscriptions, AggrGroups[k]) \in Balance
    BY AvailableIs
  <2> QED BY <1>5, <2>1 DEF Balance
<1>6. CASE k \in DOMAIN r.available
  <2>1. StocksIn(r)[k] = r.available[k] /\ r.available # <<>>
    <3>1. /\ DOMAIN r.available = 1 .. Len(r.available)
          /\ \A j \in 1 .. Len(r.available) : StocksIn(r)[j] = r.available[j]
      BY FileParts DEF Joined
    <3>2. DOMAIN r.available # {}
      BY <1>6
    <3> QED BY <1>4, <1>6, <3>1, <3>2
  <2>2. r.available[k] = AvailableOf(LoadSubscriptions, AggrGroups[k]) /\ Len(r.rows) = Len(Rows)
    BY <1>6, <2>1 DEF IsCutOf, WholePart
  <2> QED BY <1>1, <1>3, <1>5, <1>50, <2>1, <2>2
<1>7. CASE k \notin DOMAIN r.available
  <2>0. /\ DOMAIN StocksIn(r) = 1 .. Len(r.available) + Len(r.tornStock)
        /\ DOMAIN r.available = 1 .. Len(r.available)
        /\ Len(r.available) \in Nat /\ Len(r.tornStock) \in Nat
        /\ Len(r.tornStock) = 1 => StocksIn(r)[Len(r.available) + 1] = r.tornStock[1]
    BY FileParts DEF Joined
  <2>1. r.tornStock # <<>>
    <3>1. k \in 1 .. Len(r.available) + Len(r.tornStock) /\ k \notin 1 .. Len(r.available)
      BY <1>2, <1>7, <2>0
    <3>2. Len(r.tornStock) # 0
      <4>1. \A a, b \in Nat : k \in 1 .. a + b /\ k \notin 1 .. a => b # 0
        OBVIOUS
      <4> QED BY <2>0, <3>1, <4>1
    <3>3. Len(<<>>) = 0
      OBVIOUS
    <3> QED BY <3>2, <3>3
  <2>2. /\ Len(r.rows) = Len(Rows) /\ Len(r.tornStock) = 1
        /\ r.tornStock[1].base
             \in FirstDigits(AvailableOf(LoadSubscriptions, AggrGroups[Len(r.available) + 1]).base)
    BY <2>1 DEF IsCutOf, TornPart
  <2>3. k = Len(r.available) + 1 /\ StocksIn(r)[k] = r.tornStock[1]
    BY <1>2, <1>7, <2>0, <2>2
  <2>4. AvailableOf(LoadSubscriptions, AggrGroups[k]) \in Balance
    BY AvailableIs
  <2>5. AvailableOf(LoadSubscriptions, AggrGroups[k]).base \in Int
    BY <2>4 DEF Balance
  <2>6. StockOf(r)[p] \in FirstDigits(AvailableOf(LoadSubscriptions, AggrGroups[k]).base)
    BY <1>3, <2>2, <2>3
  <2>7. StockOf(r)[p] <= AvailableOf(LoadSubscriptions, AggrGroups[k]).base
    BY <2>5, <2>6, DigitsAre
  <2> QED BY <1>5, <1>50, <2>2, <2>7
<1> QED BY <1>6, <1>7

\* What a sheet's queue tells of one of its clusters.
LEMMA QueueTells ==
  ASSUME case \in Cases, NEW rows \in Seq(Row), NEW i \in DOMAIN QueueOf(rows)
  PROVE  LET c == QueueOf(rows)[i].id IN
         c \in IdsOf(rows) /\ QueueOf(rows)[i].cost = Needed(rows, RowsFrom(rows, c))
<1> DEFINE n == Cardinality(IdsOf(rows))
<1>1. PICK f \in Bijection(1 .. n, IdsOf(rows)) : QueueOf(rows) = [j \in 1 .. n |-> Entry(rows, f[j])]
  BY QueueHolds
<1> HIDE DEF n
<1>2. i \in 1 .. n /\ f[i] \in IdsOf(rows) /\ QueueOf(rows)[i] = Entry(rows, f[i])
  BY <1>1 DEF Bijection, Injection
<1>3. QueueOf(rows)[i].id = f[i] /\ QueueOf(rows)[i].cost = ClusterOf(rows, f[i]).cost
  BY <1>2 DEF Entry
<1> QED BY <1>2, <1>3 DEF ClusterOf, RowsFrom

\* A pool that a cluster draws something from is not empty.
LEMMA DrawsSomething ==
  ASSUME AllocationTypeOK, NEW i \in DOMAIN colours, sheet.queue[i].cost # 0
  PROVE  SumOver(Costs, DrawnUpTo(i)) \in Nat /\ SumOver(Costs, DrawnUpTo(i)) # 0
<1> DEFINE q == sheet.queue
           Client == [id : Id, pool : Key, cost : Nat]
           f == Costs
           D == DrawnUpTo(i)
<1>1. q \in Seq(Client) /\ i \in 1 .. Len(q) /\ i \in Nat
  BY DEF AllocationTypeOK, Sheet
<1>2. f = [j \in DOMAIN q |-> q[j].cost]
  BY DEF Costs
<1>3. D \in SUBSET (1 .. i) /\ i \in D
  BY <1>1 DEF DrawnUpTo
<1>4. \A j \in D : f[j] \in Nat
  <2> HIDE DEF q, Client, f, D
  <2>1. \A j \in D : j \in DOMAIN q /\ q[j] \in Client
    BY <1>1, <1>3
  <2> QED BY <1>2, <2>1 DEF Client
<1>5. f[i] # 0
  BY <1>1, <1>2
<1> HIDE DEF f, D
<1>6. IsFiniteSet(D)
  <2>1. IsFiniteSet(1 .. i)
    BY <1>1, FS_Interval
  <2> QED BY <1>3, <2>1, FS_Subset, Zenon
<1>7. SumOver(f, D) = f[i] + SumOver(f, D \ {i})
  <2>1. PICK g, A : g = f /\ A = D
    OBVIOUS
  <2>2. IsFiniteSet(A) /\ i \in A /\ \A j \in A : g[j] \in Nat
    BY <1>3, <1>4, <1>6, <2>1
  <2>3. SumOver(g, A) = g[i] + SumOver(g, A \ {i})
    BY <2>2, SumWithout
  <2> QED BY <2>1, <2>3
<1>8. SumOver(f, D \ {i}) \in Nat
  <2>1. D \ {i} \in SUBSET D
    OBVIOUS
  <2>2. IsFiniteSet(D \ {i})
    BY <1>6, <2>1, FS_Subset, Zenon
  <2> QED BY <1>4, <2>1, <2>2, SumIsNat
<1>9. SumOver(f, D) \in Nat /\ SumOver(f, D) # 0
  <2>1. \A x, y \in Nat : x # 0 => x + y \in Nat /\ x + y # 0
    OBVIOUS
  <2>2. f[i] \in Nat
    BY <1>3, <1>4
  <2> QED BY <1>5, <1>7, <1>8, <2>1, <2>2
<1> QED BY <1>9 DEF f, D

\* A cluster that needs something in the file is GREEN only if the stocks are
\* there, and then so are all rows: the sheet is that of the whole report.
LEMMA DearCovered ==
  ASSUME case \in Cases, TablesOK, NEW r \in Report, IsCutOf(r), sheet = SheetOf(r),
         AllocationTypeOK, GreenIsCovered,
         NEW i \in DOMAIN colours, colours[i] = "GREEN", sheet.queue[i].cost # 0
  PROVE  LET whole == QueueOf(Rows)
             p == whole[i].pool
             upTo == {j \in 1 .. i : whole[j].pool = p}
         IN  /\ whole = sheet.queue /\ i \in DOMAIN whole
             /\ SumOver([j \in DOMAIN whole |-> whole[j].cost], upTo)
                  <= LoadSubscriptions[<<p.support, p.arch>>]
<1> DEFINE q == sheet.queue
           p == q[i].pool
           sum == SumOver(Costs, DrawnUpTo(i))
<1>1. PoolOf(i) = p /\ p \in Pool /\ sum <= sheet.stock[p] /\ \A j : PoolOf(j) = q[j].pool
  BY DEF GreenIsCovered, Covered, PoolOf
<1>2. sum \in Nat /\ sum # 0
  BY DrawsSomething
<1> HIDE DEF sum
<1>3. sheet.stock = StockOf(r) /\ q = QueueOf(RowsIn(r))
  BY DEF SheetOf
<1>4. StockOf(r)[p] \in Int /\ StockOf(r)[p] > 0
  <2>1. StockOf(r)[p] \in Int
    BY <1>1, StockIs
  <2> QED BY <1>1, <1>2, <1>3, <2>1
<1>5. /\ Len(r.rows) = Len(Rows) /\ LoadSubscriptions[<<p.support, p.arch>>] \in Int
      /\ StockOf(r)[p] <= LoadSubscriptions[<<p.support, p.arch>>]
  <2> HIDE DEF p
  <2> QED BY <1>1, <1>4, StockCovers
<1>6. RowsIn(r) = Rows
  BY <1>5, RowsAre, SeenIs
<1>8. sum <= LoadSubscriptions[<<p.support, p.arch>>]
  BY <1>1, <1>2, <1>3, <1>4, <1>5
<1>9. i \in DOMAIN q
  BY DEF AllocationTypeOK, Sheet
<1>10. sum = SumOver([j \in DOMAIN q |-> q[j].cost], {j \in 1 .. i : q[j].pool = p})
  BY <1>1 DEF sum, Costs, DrawnUpTo
<1> QED BY <1>3, <1>6, <1>8, <1>9, <1>10

LEMMA CutCovers ==
  ASSUME ComplianceIInv, SheetIInv, FirstRun, AllocationTypeOK, GreenIsCovered
  PROVE  CutMisleadsOnlyLast
<1> DEFINE whole == QueueOf(Rows)
           upTo(k) == {j \in 1 .. k : whole[j].pool = whole[k].pool}
           needed(k) == SumOver([j \in DOMAIN whole |-> whole[j].cost], upTo(k))
           seen == RowsIn(imported)
           q == sheet.queue
<1> SUFFICES ASSUME imported # NoFile, runs = 1, NEW i \in DOMAIN colours, colours[i] = "GREEN"
             PROVE  \/ \E k \in DOMAIN whole :
                         /\ whole[k].id = q[i].id
                         /\ needed(k) <= LoadSubscriptions[<<q[i].pool.support, q[i].pool.arch>>]
                    \/ Needed(Rows, {j \in DOMAIN Rows : Rows[j].cluster = q[i].id}) = 0
                    \/ /\ Len(imported.rows) < Len(Rows)
                       /\ q[i].id = seen[Len(seen)].cluster /\ q[i].cost = 0
  BY DEF CutMisleadsOnlyLast
<1>1. /\ imported \in Report /\ sheet = SheetOf(imported) /\ case \in Cases /\ TablesOK
      /\ IsCutOf(imported) /\ Rows \in Seq(Row)
  BY RowsAre DEF SheetIInv, ComplianceIInv, FirstRun
<1>2. CASE q[i].cost # 0
  <2>1. /\ whole = q /\ i \in DOMAIN whole
        /\ needed(i) <= LoadSubscriptions[<<whole[i].pool.support, whole[i].pool.arch>>]
    BY <1>1, <1>2, DearCovered
  <2> QED BY <2>1
<1>3. CASE q[i].cost = 0
  <2>1. q = QueueOf(seen) /\ seen \in Seq(Row)
    BY <1>1, SeenIs DEF SheetOf
  <2>2. i \in DOMAIN q
    BY DEF AllocationTypeOK, Sheet
  <2>3. q[i].id \in IdsOf(seen) /\ q[i].cost = Needed(seen, RowsFrom(seen, q[i].id))
    BY <1>1, <2>1, <2>2, QueueTells
  <2>4. CASE Len(imported.rows) = Len(Rows) \/ q[i].id # seen[Len(seen)].cluster
    <3>1. Needed(Rows, RowsFrom(Rows, q[i].id)) = Needed(seen, RowsFrom(seen, q[i].id))
      BY <1>1, <2>3, <2>4, SameNeeds
    <3> QED BY <1>3, <2>3, <3>1 DEF RowsFrom
  <2>5. CASE Len(imported.rows) # Len(Rows) /\ q[i].id = seen[Len(seen)].cluster
    <3>1. Len(imported.rows) \in Nat /\ Len(Rows) \in Nat /\ Len(imported.rows) <= Len(Rows)
      BY <1>1, SeenIs DEF IsCutOf, WholePart
    <3> QED BY <1>3, <2>5, <3>1
  <2> QED BY <2>4, <2>5
<1> QED BY <1>2, <1>3

\* README.md:1017: what a sheet made from a report that was cut off makes GREEN
\* is covered in the whole report as well, or needs nothing there, but for the
\* cluster of the last row in the file, of whose needs the cut left nothing.
THEOREM CutsMisleadOnlyLast == ReportingSpec => []CutMisleadsOnlyLast
<1>1. AllocationIInv => AllocationTypeOK
  BY DEF AllocationIInv
<1>2. AllocationSpec => []AllocationTypeOK
  BY <1>1, AllocationInitial, AllocationInductive, PTL DEF AllocationSpec
<1>3. ReportingSpec => AllocationSpec
  BY ReportsAreAllocated DEF ColoursAsAllocated
<1> QED BY <1>2, <1>3, ComplianceInvariant, ReportInvariant, FirstRunInvariant, GreenMeansCovered,
           CutCovers, PTL
=============================================================================
