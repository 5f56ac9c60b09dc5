----------------------------- MODULE Allocation -----------------------------
(***************************************************************************)
(* The pool engine of the spreadsheet script (AppScript_...txt, part 4):   *)
(* the clusters of a sheet, oldest first, draw the subscriptions they need *)
(* from the pool of their architecture and support level and are coloured  *)
(* by what is left.                                                        *)
(***************************************************************************)
EXTENDS Integers, Sequences

CONSTANTS
  Pool,  \* the keys of pools and runningTotals
  Key,   \* the keys a sheet may name: those and any other
  Id     \* the clusters

ASSUME AllocationAssumption == Pool \subseteq Key

VARIABLES
  sheet,    \* [queue: the clusters, oldest first; stock: what each pool has]
  running,  \* runningTotals
  colours   \* the colours given so far, in the order of the queue

allocationVars == <<sheet, running, colours>>

Sheet == [queue : Seq([id : Id, pool : Key, cost : Nat]), stock : [Pool -> Int]]
Blank == [queue |-> <<>>, stock |-> [p \in Pool |-> 0]]
Colour == {"GREEN", "YELLOW", "RED"}

AllocationInit ==
  /\ sheet = Blank
  /\ running = [p \in Pool |-> 0]
  /\ colours = <<>>

\* The script is applied to a sheet.
Open ==
  /\ sheet' \in Sheet
  /\ running' = [p \in Pool |-> 0]
  /\ colours' = <<>>

NextCluster == sheet.queue[Len(colours) + 1]

\* Mutants of ColourFor: a cluster that takes the last subscription is not
\* covered, and one that finds an exhausted pool is.
ColourForStrict(start, end, stock) ==
  IF end < stock THEN "GREEN" ELSE IF start < stock THEN "YELLOW" ELSE "RED"
ColourForOwnCost(start, end, stock) ==
  IF end - start <= stock THEN "GREEN" ELSE IF start < stock THEN "YELLOW" ELSE "RED"

ColourFor(start, end, stock) ==
  IF end <= stock THEN "GREEN" ELSE IF start < stock THEN "YELLOW" ELSE "RED"

Draw ==
  LET p == NextCluster.pool
      end == running[p] + NextCluster.cost
  IN
  /\ Len(colours) < Len(sheet.queue)
  /\ p \in Pool
  /\ running' = [running EXCEPT ![p] = end]
  /\ colours' = Append(colours, ColourFor(running[p], end, sheet.stock[p]))
  /\ UNCHANGED sheet

\* A key no pool has: the sums are NaN and every comparison fails.
DrawFromNowhere ==
  /\ Len(colours) < Len(sheet.queue)
  /\ NextCluster.pool \notin Pool
  /\ colours' = Append(colours, "RED")
  /\ UNCHANGED <<sheet, running>>

AllocationNext == Open \/ Draw \/ DrawFromNowhere

AllocationSpec == AllocationInit /\ [][AllocationNext]_allocationVars

-----------------------------------------------------------------------------
\* Properties.

AllocationTypeOK ==
  /\ sheet \in Sheet
  /\ running \in [Pool -> Nat]
  /\ colours \in Seq(Colour) /\ Len(colours) <= Len(sheet.queue)

PoolOf(i) == sheet.queue[i].pool

\* First in, first out: once a pool has not covered a cluster in full, every
\* later one of that pool is RED.  So at most one is YELLOW.
OldestFirst ==
  \A i, j \in DOMAIN colours :
    (i < j /\ PoolOf(i) = PoolOf(j) /\ PoolOf(i) \in Pool /\ colours[i] # "GREEN")
      => colours[j] = "RED"

\* All clusters a pool was drawn by are GREEN exactly if it holds what they need
\* together, so the colours tell the same as a sum would.
GreenIffCovered ==
  \A p \in Pool :
    LET drawn == {i \in DOMAIN colours : PoolOf(i) = p} IN
    drawn # {} => ((\A i \in drawn : colours[i] = "GREEN") <=> running[p] <= sheet.stock[p])
=============================================================================
