----------------------------- MODULE AuditTrail -----------------------------
(***************************************************************************)
(* What the pipeline promises a reader of the daily log: the reports whose *)
(* integrity is OK are snapshots that a cluster took, each of them logged  *)
(* at most once for every time the network delivered it.                   *)
(* A snapshot is named by its cluster and its epoch.                       *)
(***************************************************************************)
EXTENDS Integers, Sequences, FiniteSets

CONSTANTS Cluster, MaxEpoch, MaxRepeats

VARIABLES
  latest,   \* epoch of the newest snapshot of each cluster, 0 for none
  recorded  \* the verified reports, in log order

auditVars == <<latest, recorded>>

Taken(c) == 1 .. latest[c]
Times(c, e) ==
  Cardinality({i \in DOMAIN recorded : recorded[i] = [cluster |-> c, epoch |-> e]})

AuditInit ==
  /\ latest = [c \in Cluster |-> 0]
  /\ recorded = <<>>

TakeSnapshot(c) ==
  /\ latest[c] < MaxEpoch
  /\ latest' = [latest EXCEPT ![c] = @ + 1]
  /\ UNCHANGED recorded

Record(c, e) ==
  /\ e \in Taken(c)
  /\ Times(c, e) <= MaxRepeats
  /\ recorded' = Append(recorded, [cluster |-> c, epoch |-> e])
  /\ UNCHANGED latest

AuditNext ==
  \E c \in Cluster : TakeSnapshot(c) \/ \E e \in 1 .. MaxEpoch : Record(c, e)

AuditSpec == AuditInit /\ [][AuditNext]_auditVars
=============================================================================
