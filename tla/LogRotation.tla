----------------------------- MODULE LogRotation -----------------------------
(***************************************************************************)
(* The collector's local log on clustersize-log-pvc and its archives, as   *)
(* the script rotates them before it appends a frame                       *)
(* (clustersizeconfig_controller.go:459-471).                              *)
(*                                                                         *)
(* Every file is named by the generation it belongs to: generation g is    *)
(* the g-th file LOG_FILE has been.  A rotation is a series of separate rm *)
(* and mv commands, the container may exit between any two of them, and    *)
(* during a rollout two pods may rotate the same files.                    *)
(***************************************************************************)
EXTENDS Integers, FiniteSets

CONSTANTS
  Pod,       \* pods that may mount the volume; at first some do
  Limits,    \* the values logMaxRotations takes over time
  MaxGen,    \* bound: generations of the log
  MaxExits,  \* bound: container exits in the middle of a rotation
  MaxEdits   \* bound: changes of logMaxRotations

ASSUME RotationAssumption ==
  /\ IsFiniteSet(Pod)
  /\ Limits \subseteq Nat \ {0}
  /\ \E m \in Limits : \A k \in Limits : k <= m
  /\ MaxGen \in Nat /\ MaxExits \in Nat /\ MaxEdits \in Nat

VARIABLES
  live,     \* the generation in LOG_FILE, 0 if there is no such file
  archive,  \* archive[i]: the generation in LOG_FILE.i, 0 if there is none
  newest,   \* generations created so far
  pc,       \* where each pod is in its rotation
  i,        \* the loop variable of each pod's rotation
  rots,     \* CFG_MAX_ROTS of each pod
  limit,    \* logMaxRotations in the Deployment
  exits, edits  \* bound variables

files == <<live, archive, newest>>
rotationVars == <<files, pc, i, rots, limit, exits, edits>>

None == 0
\* .k for every k a rotation can name.
Largest == CHOOSE m \in Limits : \A k \in Limits : k <= m
Index == 1 .. Largest

RotationInit ==
  /\ live = None /\ newest = 0
  /\ archive = [k \in Index |-> None]
  /\ pc \in [Pod -> {"run", "absent"}] /\ \E p \in Pod : pc[p] = "run"
  /\ i = [p \in Pod |-> 0]
  /\ limit \in Limits
  /\ rots = [p \in Pod |-> limit]
  /\ exits = 0 /\ edits = 0

\* tee -a, or touch: creates the file when it is missing.
Create ==
  /\ newest < MaxGen
  /\ newest' = newest + 1
  /\ live' = newest + 1

\* tee -a "${LOG_FILE}" of a frame.
AppendFrame(p) ==
  /\ pc[p] = "run"
  /\ live = None
  /\ Create
  /\ UNCHANGED <<archive, pc, i, rots, limit, exits, edits>>

\* Mutant of BeginRotation: the loop starts one archive too low.
BeginRotationTooLow(p) ==
  /\ pc[p] = "run"
  /\ live # None
  /\ archive' = [archive EXCEPT ![rots[p]] = None]
  /\ i' = [i EXCEPT ![p] = IF rots[p] > 1 THEN rots[p] - 2 ELSE 0]
  /\ pc' = [pc EXCEPT ![p] = "shift"]
  /\ UNCHANGED <<live, newest, rots, limit, exits, edits>>

\* LOG_FILE has reached CFG_MAX_SIZE: rm -f the oldest archive, start the loop.
BeginRotation(p) ==
  /\ pc[p] = "run"
  /\ live # None
  /\ archive' = [archive EXCEPT ![rots[p]] = None]
  /\ i' = [i EXCEPT ![p] = rots[p] - 1]
  /\ pc' = [pc EXCEPT ![p] = "shift"]
  /\ UNCHANGED <<live, newest, rots, limit, exits, edits>>

\* Mutants of Shift: cp in the place of mv; i >= 0 in the loop's condition.
ShiftCopies(p) ==
  /\ pc[p] = "shift" /\ i[p] >= 1
  /\ archive' = IF archive[i[p]] = None THEN archive
                ELSE [archive EXCEPT ![i[p] + 1] = archive[i[p]]]
  /\ i' = [i EXCEPT ![p] = @ - 1]
  /\ UNCHANGED <<live, newest, pc, rots, limit, exits, edits>>

ShiftRunsOver(p) ==
  /\ pc[p] = "shift" /\ i[p] >= 0
  /\ archive' = IF i[p] = 0 \/ archive[i[p]] = None THEN archive
                ELSE [archive EXCEPT ![i[p] + 1] = archive[i[p]], ![i[p]] = None]
  /\ i' = [i EXCEPT ![p] = @ - 1]
  /\ UNCHANGED <<live, newest, pc, rots, limit, exits, edits>>

\* if [ -f LOG.i ]; then mv LOG.i LOG.$((i+1)); fi
Shift(p) ==
  /\ pc[p] = "shift" /\ i[p] >= 1
  /\ archive' = IF archive[i[p]] = None THEN archive
                ELSE [archive EXCEPT ![i[p] + 1] = archive[i[p]], ![i[p]] = None]
  /\ i' = [i EXCEPT ![p] = @ - 1]
  /\ UNCHANGED <<live, newest, pc, rots, limit, exits, edits>>

\* mv LOG LOG.1.  If another pod has moved it, mv fails; it stands in an &&
\* list, so set -e does not apply, and touch is skipped.
MoveLive(p) ==
  /\ pc[p] = "shift" /\ i[p] = 0
  /\ IF live = None
     THEN /\ pc' = [pc EXCEPT ![p] = "run"]
          /\ UNCHANGED files
     ELSE /\ pc' = [pc EXCEPT ![p] = "touch"]
          /\ archive' = [archive EXCEPT ![1] = live]
          /\ live' = None
          /\ UNCHANGED newest
  /\ UNCHANGED <<i, rots, limit, exits, edits>>

\* touch LOG: leaves a file that is there alone.
Touch(p) ==
  /\ pc[p] = "touch"
  /\ IF live = None THEN Create ELSE UNCHANGED <<live, newest>>
  /\ pc' = [pc EXCEPT ![p] = "run"]
  /\ UNCHANGED <<archive, i, rots, limit, exits, edits>>

\* The container ends in the middle of a rotation and starts again.
ExitScript(p) ==
  /\ pc[p] \in {"shift", "touch"}
  /\ exits < MaxExits
  /\ exits' = exits + 1
  /\ pc' = [pc EXCEPT ![p] = "run"]
  /\ i' = [i EXCEPT ![p] = 0]
  /\ UNCHANGED <<files, rots, limit, edits>>

\* A reconcile puts another logMaxRotations into the Deployment ...
EditLimit ==
  /\ edits < MaxEdits
  /\ edits' = edits + 1
  /\ limit' \in Limits \ {limit}
  /\ UNCHANGED <<files, pc, i, rots, exits>>

\* ... and a new pod takes the place of an old one.
ReplacePod(p) ==
  /\ pc[p] # "absent" /\ rots[p] # limit
  /\ rots' = [rots EXCEPT ![p] = limit]
  /\ pc' = [pc EXCEPT ![p] = "run"]
  /\ i' = [i EXCEPT ![p] = 0]
  /\ UNCHANGED <<files, limit, exits, edits>>

RotationNext ==
  \/ EditLimit
  \/ \E p \in Pod :
       \/ AppendFrame(p) \/ BeginRotation(p) \/ Shift(p) \/ MoveLive(p)
       \/ Touch(p) \/ ExitScript(p) \/ ReplacePod(p)

\* The bound MaxGen ends every pod's work.
GenExhausted == newest = MaxGen /\ UNCHANGED rotationVars

RotationSpec == RotationInit /\ [][RotationNext \/ GenExhausted]_rotationVars

-----------------------------------------------------------------------------
\* Properties.

RotationTypeOK ==
  /\ live \in 0 .. MaxGen /\ newest \in 0 .. MaxGen
  /\ archive \in [Index -> 0 .. MaxGen]
  /\ pc \in [Pod -> {"absent", "run", "shift", "touch"}]
  /\ i \in [Pod -> {0} \cup Index]
  /\ rots \in [Pod -> Limits] /\ limit \in Limits
  /\ exits \in Nat /\ edits \in Nat

\* A higher suffix is an older file, and LOG_FILE is newer than all of them,
\* in the middle of a rotation too, whoever else rotates, wherever a container
\* exits and however the limit changes.
ArchivesOrdered ==
  /\ \A j, k \in Index :
       (j < k /\ archive[j] # None /\ archive[k] # None) => archive[j] > archive[k]
  /\ \A j \in Index : (live # None /\ archive[j] # None) => live > archive[j]

Kept == {archive[k] : k \in Index} \ {None}
Expired == newest - 1  \* generations that are not the current one
Smaller(m, n) == IF m < n THEN m ELSE n

Mounting == {p \in Pod : pc[p] # "absent"}

\* With one pod and one limit, a rotation removes only what the limit says: all
\* but one of the archives the limit allows are there while it runs, all of
\* them when it is done; every exit in the middle costs at most one file.
KeepsUpToLimit ==
  (Cardinality(Mounting) = 1 /\ edits = 0 /\ newest > 0) =>
    LET inRotation == IF \E p \in Mounting : pc[p] # "run" THEN 1 ELSE 0 IN
    Cardinality(Kept) >= Smaller(limit, Expired) - exits - inRotation
=============================================================================
