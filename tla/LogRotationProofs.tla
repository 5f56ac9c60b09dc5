-------------------------- MODULE LogRotationProofs --------------------------
(***************************************************************************)
(* Proofs about LogRotation, for any pods, any limits that have a largest  *)
(* one, and any bounds.  The order of the archives is inductive together   *)
(* with the types and two bounds: no file is of a generation not created   *)
(* yet, and a rotation never names a suffix above its own limit.           *)
(*                                                                         *)
(* That the limit is used is a fact about one pod and one limit: mv finds  *)
(* its target free (WayIsFree), an archive is no further up than its age   *)
(* and the rotations cut short have brought it (Drift), and so rm removes  *)
(* none of the young ones (Recent).                                        *)
(***************************************************************************)
EXTENDS LogRotation, FiniteSetTheorems, TLAPS

GenerationsExist == live <= newest /\ \A k \in Index : archive[k] <= newest
LoopBelowLimit == \A p \in Pod : i[p] < rots[p]

RotationIInv ==
  /\ RotationTypeOK
  /\ ArchivesOrdered
  /\ GenerationsExist
  /\ LoopBelowLimit

\* The largest limit is a limit, so every suffix a rotation may name is in
\* Index: what rm and mv of the script touch is what the model keeps.
LEMMA LargestLimit ==
  /\ Largest \in Limits
  /\ Largest \in Nat \ {0}
  /\ Limits \subseteq Index
<1>1. Limits \subseteq Nat \ {0} /\ \E m \in Limits : \A k \in Limits : k <= m
  BY RotationAssumption
<1>2. Largest \in Limits /\ \A k \in Limits : k <= Largest
  BY <1>1, Zenon DEF Largest
<1>3. \A k \in Limits : k \in 1 .. Largest
  BY <1>1, <1>2
<1> QED BY <1>1, <1>2, <1>3 DEF Index

\* Creating LOG_FILE keeps the invariant's part about files: the new file is
\* newer than everything there is (tee -a and touch).
LEMMA CreateKeepsOrder ==
  ASSUME RotationIInv, Create, UNCHANGED archive
  PROVE  /\ live' \in 0 .. MaxGen /\ newest' \in 0 .. MaxGen
         /\ ArchivesOrdered' /\ GenerationsExist'
<1>1. /\ live \in 0 .. MaxGen /\ newest \in 0 .. MaxGen /\ MaxGen \in Nat
      /\ archive \in [Index -> 0 .. MaxGen]
  BY RotationAssumption DEF RotationIInv, RotationTypeOK
<1>2. live' = newest + 1 /\ newest' = newest + 1 /\ newest < MaxGen /\ archive' = archive
  BY DEF Create
<1>3. \A k \in Index : archive[k] \in Nat /\ archive[k] <= newest
  BY <1>1 DEF RotationIInv, GenerationsExist
<1>4. GenerationsExist'
  BY <1>1, <1>2, <1>3 DEF GenerationsExist
<1>5. ArchivesOrdered'
  BY <1>1, <1>2, <1>3 DEF RotationIInv, ArchivesOrdered, None
<1> QED BY <1>1, <1>2, <1>4, <1>5

\* At the start there is no file and no rotation.
LEMMA RotationInitEstablishes == RotationInit => RotationIInv
<1> SUFFICES ASSUME RotationInit PROVE RotationIInv
  OBVIOUS
<1>1. /\ live = 0 /\ newest = 0 /\ \A k \in Index : archive[k] = 0
  BY DEF RotationInit, None
<1>2. RotationTypeOK
  BY RotationAssumption, LargestLimit DEF RotationInit, RotationTypeOK, None
<1>3. ArchivesOrdered /\ GenerationsExist
  BY <1>1 DEF ArchivesOrdered, GenerationsExist, None
<1>4. LoopBelowLimit
  BY RotationAssumption DEF RotationInit, LoopBelowLimit
<1> QED BY <1>2, <1>3, <1>4 DEF RotationIInv

\* Every step of a pod, a container exit and a changed limit keep it.
LEMMA RotationStepKeeps ==
  RotationIInv /\ [RotationNext \/ GenExhausted]_rotationVars => RotationIInv'
<1> SUFFICES ASSUME RotationIInv, [RotationNext \/ GenExhausted]_rotationVars
             PROVE  RotationIInv'
  OBVIOUS
<1>t. /\ MaxGen \in Nat /\ Limits \subseteq Nat \ {0} /\ Limits \subseteq Index
      /\ Index \subseteq Nat \ {0} /\ Index = 1 .. Largest /\ Largest \in Nat \ {0}
  BY RotationAssumption, LargestLimit DEF Index
<1>i. /\ live \in 0 .. MaxGen /\ newest \in 0 .. MaxGen
      /\ archive \in [Index -> 0 .. MaxGen]
      /\ pc \in [Pod -> {"absent", "run", "shift", "touch"}]
      /\ i \in [Pod -> {0} \cup Index]
      /\ rots \in [Pod -> Limits] /\ limit \in Limits
      /\ exits \in Nat /\ edits \in Nat
  BY DEF RotationIInv, RotationTypeOK
<1>o. ArchivesOrdered /\ GenerationsExist /\ LoopBelowLimit
  BY DEF RotationIInv
<1>r. \A p \in Pod : /\ rots[p] \in Nat /\ 1 <= rots[p] /\ rots[p] <= Largest
                     /\ i[p] \in Nat /\ i[p] < rots[p]
  <2> TAKE p \in Pod
  <2>1. rots[p] \in Limits /\ i[p] \in {0} \cup Index
    BY <1>i
  <2>2. rots[p] \in Index
    BY <2>1, <1>t, Zenon
  <2>3. rots[p] \in 1 .. Largest /\ i[p] \in Nat
    BY <2>1, <2>2, <1>t
  <2> QED BY <2>3, <1>t, <1>o DEF LoopBelowLimit
<1>a. /\ live \in Nat /\ newest \in Nat
      /\ \A k \in Index : k \in Nat /\ archive[k] \in Nat /\ archive[k] <= newest
      /\ live <= newest
  BY <1>i, <1>o, <1>t DEF GenerationsExist
<1>1. ASSUME NEW p \in Pod, AppendFrame(p) PROVE RotationIInv'
  <2>1. /\ Create /\ archive' = archive
        /\ UNCHANGED <<pc, i, rots, limit, exits, edits>>
    BY <1>1 DEF AppendFrame
  <2> QED
    BY <2>1, <1>i, <1>o, CreateKeepsOrder DEF RotationIInv, RotationTypeOK, LoopBelowLimit
<1>2. ASSUME NEW p \in Pod, BeginRotation(p) PROVE RotationIInv'
  <2>1. /\ archive' = [archive EXCEPT ![rots[p]] = 0]
        /\ i' = [i EXCEPT ![p] = rots[p] - 1]
        /\ pc' = [pc EXCEPT ![p] = "shift"]
        /\ UNCHANGED <<live, newest, rots, limit, exits, edits>>
    BY <1>2 DEF BeginRotation, None
  <2>2. rots[p] \in Index /\ rots[p] - 1 \in {0} \cup Index
    BY <1>r, <1>t
  <2>3. RotationTypeOK'
    BY <2>1, <2>2, <1>i, <1>t DEF RotationTypeOK
  <2>4. \A k \in Index : archive'[k] = 0 \/ archive'[k] = archive[k]
    BY <2>1, <1>i
  <2>5. ArchivesOrdered'
    BY <2>1, <2>4, <1>o DEF ArchivesOrdered, None
  <2>6. GenerationsExist'
    BY <2>1, <2>4, <1>a DEF GenerationsExist
  <2>7. LoopBelowLimit'
    BY <2>1, <1>i, <1>r DEF LoopBelowLimit
  <2> QED BY <2>3, <2>5, <2>6, <2>7 DEF RotationIInv
<1>3. ASSUME NEW p \in Pod, Shift(p) PROVE RotationIInv'
  <2> DEFINE n == i[p]
  <2>1. /\ n >= 1
        /\ archive' = IF archive[n] = 0 THEN archive
                      ELSE [archive EXCEPT ![n + 1] = archive[n], ![n] = 0]
        /\ i' = [i EXCEPT ![p] = n - 1]
        /\ UNCHANGED <<live, newest, pc, rots, limit, exits, edits>>
    BY <1>3 DEF Shift, None
  <2>2. n \in Index /\ n + 1 \in Index /\ n - 1 \in {0} \cup Index
    BY <2>1, <1>r, <1>t
  <2>3. \A k \in Index : archive'[k] =
          IF archive[n] = 0 THEN archive[k]
          ELSE IF k = n THEN 0 ELSE IF k = n + 1 THEN archive[n] ELSE archive[k]
    BY <2>1, <2>2, <1>i
  <2>4. archive' \in [Index -> 0 .. MaxGen]
    BY <2>1, <2>2, <1>i, <1>t
  <2>5. RotationTypeOK'
    BY <2>1, <2>2, <2>4, <1>i DEF RotationTypeOK
  <2>6. ArchivesOrdered'
    <3>1. ASSUME NEW j \in Index, NEW k \in Index, j < k,
                 archive'[j] # 0, archive'[k] # 0
          PROVE  archive'[j] > archive'[k]
      BY <3>1, <2>2, <2>3, <1>o, <1>a DEF ArchivesOrdered, None
    <3>2. ASSUME NEW j \in Index, live' # 0, archive'[j] # 0
          PROVE  live' > archive'[j]
      BY <3>2, <2>1, <2>2, <2>3, <1>o DEF ArchivesOrdered, None
    <3> QED BY <3>1, <3>2 DEF ArchivesOrdered, None
  <2>7. GenerationsExist'
    <3>1. \A k \in Index : archive'[k] <= newest
      BY <2>2, <2>3, <1>a
    <3> QED BY <2>1, <3>1, <1>a DEF GenerationsExist
  <2>8. LoopBelowLimit'
    BY <2>1, <1>i, <1>r DEF LoopBelowLimit
  <2> QED BY <2>5, <2>6, <2>7, <2>8 DEF RotationIInv
<1>4. ASSUME NEW p \in Pod, MoveLive(p) PROVE RotationIInv'
  <2>1. CASE live = 0
    <3>1. /\ pc' = [pc EXCEPT ![p] = "run"]
          /\ UNCHANGED <<live, archive, newest, i, rots, limit, exits, edits>>
      BY <2>1, <1>4 DEF MoveLive, None, files
    <3> QED
      BY <3>1, <1>i, <1>o DEF RotationIInv, RotationTypeOK, ArchivesOrdered,
                              GenerationsExist, LoopBelowLimit
  <2>2. CASE live # 0
    <3>1. /\ pc' = [pc EXCEPT ![p] = "touch"]
          /\ archive' = [archive EXCEPT ![1] = live] /\ live' = 0
          /\ UNCHANGED <<newest, i, rots, limit, exits, edits>>
      BY <2>2, <1>4 DEF MoveLive, None
    <3>2. 1 \in Index
      BY <1>t
    <3>3. \A k \in Index : archive'[k] = IF k = 1 THEN live ELSE archive[k]
      BY <3>1, <1>i
    <3>4. RotationTypeOK'
      <4>1. archive' \in [Index -> 0 .. MaxGen] /\ live' \in 0 .. MaxGen
        BY <3>1, <1>i, <1>t
      <4> QED BY <3>1, <4>1, <1>i DEF RotationTypeOK
    <3>5. ArchivesOrdered'
      <4>1. ASSUME NEW j \in Index, NEW k \in Index, j < k,
                   archive'[j] # 0, archive'[k] # 0
            PROVE  archive'[j] > archive'[k]
        <5>1. k # 1
          BY <4>1, <1>t
        <5> QED BY <2>2, <4>1, <5>1, <3>3, <1>o DEF ArchivesOrdered, None
      <4> QED BY <3>1, <4>1 DEF ArchivesOrdered, None
    <3>6. GenerationsExist' /\ LoopBelowLimit'
      BY <3>1, <3>3, <1>a, <1>o DEF GenerationsExist, LoopBelowLimit
    <3> QED BY <3>4, <3>5, <3>6 DEF RotationIInv
  <2> QED BY <2>1, <2>2
<1>5. ASSUME NEW p \in Pod, Touch(p) PROVE RotationIInv'
  <2>1. /\ pc' = [pc EXCEPT ![p] = "run"]
        /\ UNCHANGED <<archive, i, rots, limit, exits, edits>>
        /\ Create \/ UNCHANGED <<live, newest>>
    BY <1>5 DEF Touch
  <2>2. CASE Create
    BY <2>1, <2>2, <1>i, <1>o, CreateKeepsOrder
       DEF RotationIInv, RotationTypeOK, LoopBelowLimit
  <2>3. CASE UNCHANGED <<live, newest>>
    BY <2>1, <2>3, <1>i, <1>o DEF RotationIInv, RotationTypeOK, ArchivesOrdered,
                                   GenerationsExist, LoopBelowLimit
  <2> QED BY <2>1, <2>2, <2>3
<1>6. ASSUME NEW p \in Pod, ExitScript(p) PROVE RotationIInv'
  <2>1. /\ pc' = [pc EXCEPT ![p] = "run"] /\ i' = [i EXCEPT ![p] = 0]
        /\ exits' = exits + 1
        /\ UNCHANGED <<live, archive, newest, rots, limit, edits>>
    BY <1>6 DEF ExitScript, files
  <2>2. LoopBelowLimit'
    BY <2>1, <1>i, <1>r, <1>t DEF LoopBelowLimit
  <2>3. RotationTypeOK'
    BY <2>1, <1>i DEF RotationTypeOK
  <2> QED BY <2>1, <2>2, <2>3, <1>o DEF RotationIInv, ArchivesOrdered, GenerationsExist
<1>7. ASSUME NEW p \in Pod, ReplacePod(p) PROVE RotationIInv'
  <2>1. /\ pc' = [pc EXCEPT ![p] = "run"] /\ i' = [i EXCEPT ![p] = 0]
        /\ rots' = [rots EXCEPT ![p] = limit]
        /\ UNCHANGED <<live, archive, newest, limit, exits, edits>>
    BY <1>7 DEF ReplacePod, files
  <2>2. LoopBelowLimit'
    BY <2>1, <1>i, <1>r, <1>t DEF LoopBelowLimit
  <2>3. RotationTypeOK'
    BY <2>1, <1>i DEF RotationTypeOK
  <2> QED BY <2>1, <2>2, <2>3, <1>o DEF RotationIInv, ArchivesOrdered, GenerationsExist
<1>8. ASSUME EditLimit PROVE RotationIInv'
  <2>1. /\ limit' \in Limits /\ edits' = edits + 1
        /\ UNCHANGED <<live, archive, newest, pc, i, rots, exits>>
    BY <1>8 DEF EditLimit, files
  <2> QED
    BY <2>1, <1>i, <1>o DEF RotationIInv, RotationTypeOK, ArchivesOrdered,
                            GenerationsExist, LoopBelowLimit
<1>9. ASSUME UNCHANGED rotationVars PROVE RotationIInv'
  BY <1>9, <1>i, <1>o DEF rotationVars, files, RotationIInv, RotationTypeOK, ArchivesOrdered,
                          GenerationsExist, LoopBelowLimit
<1> QED
  BY <1>1, <1>2, <1>3, <1>4, <1>5, <1>6, <1>7, <1>8, <1>9 DEF RotationNext, GenExhausted

\* The strengthened invariant holds of every behaviour of the rotation.
THEOREM RotationInvariant == RotationSpec => []RotationIInv
BY RotationInitEstablishes, RotationStepKeeps, PTL DEF RotationSpec

\* The files, the loop variables and the limits of the rotation stay in range:
\* in particular no mv names a suffix outside the archive.
THEOREM RotationTypeCorrect == RotationSpec => []RotationTypeOK
<1>1. RotationIInv => RotationTypeOK
  BY DEF RotationIInv
<1> QED BY <1>1, RotationInvariant, PTL

\* A higher suffix is an older file, whatever pods rotate at once, wherever
\* they exit and however logMaxRotations changes.
THEOREM ArchivesStayOrdered == RotationSpec => []ArchivesOrdered
<1>1. RotationIInv => ArchivesOrdered
  BY DEF RotationIInv
<1> QED BY <1>1, RotationInvariant, PTL

-----------------------------------------------------------------------------
\* What one pod and one limit lose.

Alone(p) == Mounting = {p} /\ edits = 0

InRotation(p) == IF pc[p] = "run" THEN 0 ELSE 1

\* Generations that are in no LOG_FILE any more.
Archived == IF live = None THEN newest ELSE newest - 1

\* A file the rotation under way has given its new suffix.
Moved(p, k) == IF pc[p] = "touch" \/ (pc[p] = "shift" /\ k > i[p]) THEN 1 ELSE 0

\* mv finds its target free, and LOG_FILE is there exactly until it is moved.
WayIsFree(p) ==
  /\ rots[p] = limit
  /\ live # None => live = newest
  /\ pc[p] = "shift" => live # None /\ archive[i[p] + 1] = None
  /\ pc[p] = "touch" => live = None

\* An archive has the suffix its age gives it, or a higher one: by one for every
\* rotation that was cut short after it had moved the file.
Drift(p) ==
  \A k \in Index : archive[k] # None => k <= newest - archive[k] + exits + Moved(p, k)

\* So rm never removes a generation younger than the limit and the exits account for.
Recent(p) ==
  \A g \in 1 .. Archived :
    g > newest - 1 - limit + exits + InRotation(p) => \E k \in Index : archive[k] = g

KeptIInv == \A p \in Pod : Alone(p) => WayIsFree(p) /\ Drift(p) /\ Recent(p)

\* The values the proofs below calculate with.
LEMMA RotationValues ==
  ASSUME RotationIInv
  PROVE  /\ live \in Nat /\ newest \in Nat /\ live <= newest /\ exits \in Nat /\ edits \in Nat
         /\ DOMAIN archive = Index /\ \A k \in Index : archive[k] \in Nat /\ archive[k] <= newest
         /\ limit \in Index
         /\ \A p \in Pod : /\ rots[p] \in Index /\ i[p] \in Nat /\ i[p] < rots[p]
                           /\ pc[p] \in {"absent", "run", "shift", "touch"}
         /\ Index = 1 .. Largest /\ Largest \in Nat \ {0}
<1>1. Limits \subseteq Index /\ Index = 1 .. Largest /\ Largest \in Nat \ {0}
  BY LargestLimit DEF Index
<1>2. RotationTypeOK /\ GenerationsExist /\ LoopBelowLimit /\ MaxGen \in Nat
  BY RotationAssumption DEF RotationIInv
<1>3. \A p \in Pod : rots[p] \in Limits /\ i[p] \in {0} \cup Index
  BY <1>2 DEF RotationTypeOK
<1>4. \A p \in Pod : rots[p] \in Index /\ i[p] \in Nat /\ i[p] < rots[p]
  BY <1>1, <1>2, <1>3 DEF LoopBelowLimit
<1>5. \A k \in Index : archive[k] \in 0 .. MaxGen
  BY <1>2 DEF RotationTypeOK
<1> QED BY <1>1, <1>2, <1>4, <1>5 DEF RotationTypeOK, GenerationsExist

\* No pod is added: a rollout replaces one.
LEMMA SamePods ==
  ASSUME RotationIInv, [RotationNext \/ GenExhausted]_rotationVars
  PROVE  Mounting' = Mounting /\ (edits' = 0 => edits = 0)
<1>1. pc \in [Pod -> {"absent", "run", "shift", "touch"}] /\ edits \in Nat
  BY DEF RotationIInv, RotationTypeOK
<1>2. ASSUME NEW p \in Pod, NEW s, s # "absent", pc[p] # "absent", pc' = [pc EXCEPT ![p] = s]
      PROVE  Mounting' = Mounting
  BY <1>1, <1>2 DEF Mounting
<1>3. ASSUME NEW p \in Pod,
             \/ AppendFrame(p) \/ BeginRotation(p) \/ Shift(p) \/ MoveLive(p)
             \/ Touch(p) \/ ExitScript(p) \/ ReplacePod(p)
      PROVE  Mounting' = Mounting /\ edits' = edits
  <2>1. CASE AppendFrame(p) \/ Shift(p)
    BY <2>1 DEF AppendFrame, Shift, Mounting
  <2>2. CASE BeginRotation(p) \/ MoveLive(p) \/ Touch(p)
    BY <1>2, <2>2 DEF BeginRotation, MoveLive, Touch
  <2>3. CASE ExitScript(p) \/ ReplacePod(p)
    BY <1>2, <2>3 DEF ExitScript, ReplacePod
  <2> QED BY <1>3, <2>1, <2>2, <2>3
<1>4. CASE EditLimit \/ UNCHANGED rotationVars
  BY <1>1, <1>4 DEF EditLimit, rotationVars, Mounting
<1> QED BY <1>3, <1>4 DEF RotationNext, GenExhausted

\* A step of the one pod keeps what it keeps.
LEMMA StepKeepsRecent ==
  ASSUME RotationIInv, RotationIInv', NEW p \in Pod, Mounting = {p}, edits = 0,
         WayIsFree(p), Drift(p), Recent(p),
         \/ AppendFrame(p) \/ BeginRotation(p) \/ Shift(p) \/ MoveLive(p)
         \/ Touch(p) \/ ExitScript(p)
  PROVE  WayIsFree(p)' /\ Drift(p)' /\ Recent(p)'
<1>v. /\ live \in Nat /\ newest \in Nat /\ live <= newest /\ exits \in Nat
      /\ DOMAIN archive = Index /\ \A k \in Index : archive[k] \in Nat /\ archive[k] <= newest
      /\ limit \in Nat /\ limit \in Index
      /\ rots[p] = limit /\ i[p] \in Nat /\ i[p] < limit
      /\ pc[p] \in {"absent", "run", "shift", "touch"}
      /\ DOMAIN pc = Pod /\ DOMAIN i = Pod
      /\ Index = 1 .. Largest /\ Largest \in Nat \ {0}
  BY RotationValues DEF WayIsFree, RotationIInv, RotationTypeOK
<1>n. live \in Nat /\ newest \in Nat /\ exits \in Nat /\ limit \in Nat
  BY <1>v
<1>g. \A g \in Nat : (1 <= g /\ g <= Archived /\ g > newest - 1 - limit + exits + InRotation(p))
                        => \E k \in Index : archive[k] = g
  <2> SUFFICES ASSUME NEW g \in Nat, 1 <= g, g <= Archived,
                      g > newest - 1 - limit + exits + InRotation(p)
               PROVE  \E k \in Index : archive[k] = g
    OBVIOUS
  <2>1. Archived \in Int
    BY <1>v DEF Archived, None
  <2>2. g \in 1 .. Archived
    BY <2>1
  <2> QED BY <2>2, Zenon DEF Recent
<1>1. CASE AppendFrame(p)
  <2>1. /\ live = 0 /\ live' = newest + 1 /\ newest' = newest + 1 /\ pc[p] = "run"
        /\ UNCHANGED <<archive, pc, i, rots, limit, exits, edits>>
    BY <1>1 DEF AppendFrame, Create, None
  <2>0. newest' = newest + 1 /\ archive' = archive /\ limit' = limit /\ exits' = exits
    BY <2>1
  <2>2. WayIsFree(p)'
    BY <1>v, <2>1 DEF WayIsFree, None
  <2>3. Drift(p)'
    <3>1. \A k \in Index : Moved(p, k) = 0 /\ Moved(p, k)' = 0
      BY <2>1 DEF Moved
    <3> SUFFICES ASSUME NEW k \in Index, archive'[k] # 0
                 PROVE  k <= newest' - archive'[k] + exits' + Moved(p, k)'
      BY DEF Drift, None
    <3>2. k <= newest - archive[k] + exits + 0
      BY <2>0, <3>1 DEF Drift, None
    <3>3. k \in Int /\ archive[k] \in Nat
      BY <1>v
    <3>4. k <= newest + 1 - archive[k] + exits + 0
      BY <1>n, <3>2, <3>3
    <3>5. archive'[k] = archive[k] /\ Moved(p, k)' = 0
      BY <2>0, <3>1
    <3> QED BY <1>n, <2>0, <3>3, <3>4, <3>5, SMTT(30)
  <2>4. Recent(p)'
    <3>1. Archived = newest /\ Archived' = newest /\ InRotation(p) = 0 /\ InRotation(p)' = 0
      BY <1>v, <2>1, SMTT(30) DEF Archived, InRotation, None
    <3> SUFFICES ASSUME NEW g \in 1 .. Archived',
                        g > newest' - 1 - limit' + exits' + InRotation(p)'
                 PROVE  \E k \in Index : archive'[k] = g
      BY DEF Recent
    <3>2. g \in 1 .. newest /\ g > newest + 1 - 1 - limit + exits + 0
      BY <1>n, <2>0, <3>1, SMTT(30)
    <3>3. g \in Nat /\ 1 <= g /\ g <= Archived /\ g > newest - 1 - limit + exits + InRotation(p)
      BY <1>n, <3>1, <3>2
    <3>4. \E k \in Index : archive[k] = g
      BY <1>g, <3>3, Zenon
    <3> QED BY <2>0, <3>4
  <2> QED BY <2>2, <2>3, <2>4
<1>2. CASE BeginRotation(p)
  <2>1. /\ live # 0 /\ pc[p] = "run" /\ pc'[p] = "shift" /\ i'[p] = limit - 1
        /\ \A k \in Index : archive'[k] = IF k = limit THEN 0 ELSE archive[k]
        /\ UNCHANGED <<live, newest, rots, limit, exits, edits>>
    BY <1>v, <1>2 DEF BeginRotation, None
  <2>2. WayIsFree(p)'
    BY <1>v, <2>1 DEF WayIsFree, None
  <2>3. Drift(p)'
    BY <1>v, <2>1, SMTT(30) DEF Drift, Moved, None
  <2>4. Recent(p)'
    <3>0. Archived = newest - 1 /\ Archived' = newest - 1 /\ InRotation(p) = 0
      BY <1>v, <2>1 DEF Archived, InRotation, None
    <3> SUFFICES ASSUME NEW g \in 1 .. Archived', g > newest - 1 - limit + exits + 1
                 PROVE  \E k \in Index : archive'[k] = g
      BY <2>1 DEF Recent, InRotation
    <3>a. g \in Nat /\ 1 <= g /\ g <= Archived /\ g > newest - 1 - limit + exits + InRotation(p)
      BY <1>n, <3>0
    <3>1. PICK k \in Index : archive[k] = g
      BY <1>g, <3>a, Zenon
    <3>2. k # limit
      <4>1. g \in Int /\ g >= 1 /\ g > newest - limit + exits
        BY <1>n, <3>0
      <4>2. Moved(p, k) = 0
        BY <2>1 DEF Moved
      <4>3. k <= newest - archive[k] + exits + Moved(p, k)
        BY <3>1, <4>1, SMTT(30) DEF Drift, None
      <4> QED BY <1>v, <3>1, <4>1, <4>2, <4>3, SMTT(30)
    <3> QED BY <2>1, <3>1, <3>2
  <2> QED BY <2>2, <2>3, <2>4
<1>3. CASE Shift(p)
  <2> DEFINE n == i[p]
  <2>1. /\ n >= 1 /\ pc[p] = "shift" /\ i'[p] = n - 1 /\ n \in Index /\ n + 1 \in Index
        /\ UNCHANGED <<live, newest, pc, rots, limit, exits, edits>>
    BY <1>v, <1>3 DEF Shift
  <2>2. live # 0 /\ archive[n + 1] = 0
    BY <2>1 DEF WayIsFree, None
  <2>3. \A k \in Index : archive'[k] = IF k = n THEN 0 ELSE IF k = n + 1 THEN archive[n]
                                       ELSE archive[k]
    BY <1>v, <1>3, <2>1, <2>2 DEF Shift, None
  <2>4. WayIsFree(p)'
    BY <1>v, <2>1, <2>2, <2>3 DEF WayIsFree, None
  <2>5. Drift(p)'
    <3> SUFFICES ASSUME NEW k \in Index, archive'[k] # 0
                 PROVE  k <= newest - archive'[k] + exits + Moved(p, k)'
      BY <2>1 DEF Drift, None
    <3>1. CASE k = n + 1
      <4>1. n <= newest - archive[n] + exits + Moved(p, n)
        BY <2>1, <2>3, <3>1 DEF Drift, None
      <4> QED BY <1>v, <2>1, <2>3, <3>1, <4>1 DEF Moved
    <3>2. CASE k # n + 1
      <4>1. k <= newest - archive[k] + exits + Moved(p, k) /\ k # n
        BY <2>3, <3>2 DEF Drift, None
      <4>2. archive'[k] = archive[k]
        BY <2>3, <3>2, <4>1
      <4>3. Moved(p, k)' \in 0 .. 1 /\ Moved(p, k) \in 0 .. 1 /\ (Moved(p, k) = 1 => Moved(p, k)' = 1)
        BY <1>v, <2>1, <4>1 DEF Moved
      <4>4. k \in Int /\ archive[k] \in Nat
        BY <1>v
      <4> QED BY <1>n, <4>1, <4>2, <4>3, <4>4, SMTT(30)
    <3> QED BY <3>1, <3>2
  <2>6. Recent(p)'
    <3>1. \A g \in Nat \ {0} : (\E k \in Index : archive[k] = g) => \E k \in Index : archive'[k] = g
      <4> SUFFICES ASSUME NEW g \in Nat \ {0}, NEW k \in Index, archive[k] = g
                   PROVE  \E j \in Index : archive'[j] = g
        OBVIOUS
      <4>1. k # n + 1
        BY <2>2
      <4>2. CASE k = n
        <5>1. archive'[n + 1] = g
          BY <1>v, <2>1, <2>3, <4>2
        <5> QED BY <2>1, <5>1
      <4>3. CASE k # n
        BY <2>3, <4>1, <4>3
      <4> QED BY <4>2, <4>3
    <3>2. Archived = newest - 1 /\ Archived' = newest - 1 /\ InRotation(p) = 1 /\ InRotation(p)' = 1
      BY <1>v, <2>1, <2>2 DEF Archived, InRotation, None
    <3> SUFFICES ASSUME NEW g \in 1 .. newest - 1, g > newest - 1 - limit + exits + 1
                 PROVE  \E k \in Index : archive'[k] = g
      BY <1>v, <2>1, <3>2 DEF Recent
    <3>3. g \in Nat /\ 1 <= g /\ g <= Archived /\ g > newest - 1 - limit + exits + InRotation(p)
      BY <1>n, <3>2
    <3>4. \E k \in Index : archive[k] = g
      BY <1>g, <3>3, Zenon
    <3>5. g \in Nat \ {0}
      BY <3>3
    <3> QED BY <3>1, <3>4, <3>5, Zenon
  <2> QED BY <2>4, <2>5, <2>6
<1>4. CASE MoveLive(p)
  <2>1. /\ pc[p] = "shift" /\ i[p] = 0 /\ live # 0 /\ archive[1] = 0 /\ live = newest
    BY <1>4 DEF MoveLive, WayIsFree, None
  <2>2. /\ pc'[p] = "touch" /\ live' = 0
        /\ \A k \in Index : archive'[k] = IF k = 1 THEN newest ELSE archive[k]
        /\ UNCHANGED <<newest, i, rots, limit, exits, edits>>
    BY <1>v, <1>4, <2>1 DEF MoveLive, None
  <2>3. WayIsFree(p)'
    BY <1>v, <2>1, <2>2 DEF WayIsFree, None
  <2>4. Drift(p)'
    BY <1>v, <2>1, <2>2 DEF Drift, Moved, None
  <2>5. Recent(p)'
    <3>1. /\ Archived = newest - 1 /\ Archived' = newest
          /\ InRotation(p) = 1 /\ InRotation(p)' = 1
      BY <1>v, <2>1, <2>2 DEF Archived, InRotation, None
    <3> SUFFICES ASSUME NEW g \in 1 .. newest, g > newest - 1 - limit + exits + 1
                 PROVE  \E k \in Index : archive'[k] = g
      BY <2>2, <3>1 DEF Recent
    <3>2. CASE g = newest
      <4>1. 1 \in Index
        BY <1>v
      <4>2. archive'[1] = newest
        BY <2>2, <4>1
      <4> QED BY <3>2, <4>1, <4>2
    <3>3. CASE g # newest
      <4>1. g \in Nat /\ 1 <= g /\ g <= Archived /\ g > newest - 1 - limit + exits + InRotation(p)
        BY <1>n, <3>1, <3>3
      <4>2. PICK k \in Index : archive[k] = g
        BY <1>g, <4>1, Zenon
      <4> QED BY <2>1, <2>2, <4>1, <4>2
    <3> QED BY <3>2, <3>3
  <2> QED BY <2>3, <2>4, <2>5
<1>5. CASE Touch(p)
  <2>1. /\ pc[p] = "touch" /\ pc'[p] = "run" /\ live = 0
        /\ live' = newest + 1 /\ newest' = newest + 1
        /\ UNCHANGED <<archive, i, rots, limit, exits, edits>>
    BY <1>v, <1>5 DEF Touch, Create, WayIsFree, None
  <2>2. WayIsFree(p)'
    BY <1>v, <2>1 DEF WayIsFree, None
  <2>3. Drift(p)'
    BY <1>v, <2>1, SMTT(30) DEF Drift, Moved, None
  <2>4. Recent(p)'
    <3>1. /\ Archived = newest /\ Archived' = newest
          /\ InRotation(p) = 1 /\ InRotation(p)' = 0
      BY <1>v, <2>1, SMTT(30) DEF Archived, InRotation, None
    <3>2. newest' = newest + 1 /\ archive' = archive /\ limit' = limit /\ exits' = exits
      BY <2>1
    <3> SUFFICES ASSUME NEW g \in 1 .. Archived',
                        g > newest' - 1 - limit' + exits' + InRotation(p)'
                 PROVE  \E k \in Index : archive'[k] = g
      BY DEF Recent
    <3>3. g \in 1 .. newest /\ g > newest + 1 - 1 - limit + exits + 0
      BY <1>n, <3>1, <3>2, SMTT(30)
    <3>4. g \in Nat /\ 1 <= g /\ g <= Archived /\ g > newest - 1 - limit + exits + InRotation(p)
      BY <1>n, <3>1, <3>3
    <3>5. \E k \in Index : archive[k] = g
      BY <1>g, <3>4, Zenon
    <3> QED BY <3>2, <3>5
  <2> QED BY <2>2, <2>3, <2>4
<1>6. CASE ExitScript(p)
  <2>1. /\ pc[p] \in {"shift", "touch"} /\ pc'[p] = "run" /\ exits' = exits + 1
        /\ UNCHANGED <<archive, live, newest, rots, limit, edits>>
    BY <1>v, <1>6 DEF ExitScript, files
  <2>2. WayIsFree(p)'
    BY <1>v, <2>1 DEF WayIsFree, None
  <2>3. Drift(p)'
    <3> SUFFICES ASSUME NEW k \in Index, archive[k] # 0
                 PROVE  k <= newest - archive[k] + (exits + 1) + 0
      <4>1. \A k \in Index : Moved(p, k)' = 0
        BY <2>1 DEF Moved
      <4> QED BY <1>v, <2>1, <4>1 DEF Drift, None
    <3>1. k <= newest - archive[k] + exits + Moved(p, k)
      BY DEF Drift, None
    <3>2. Moved(p, k) \in 0 .. 1
      BY DEF Moved
    <3> QED BY <1>v, <3>1, <3>2
  <2>4. Recent(p)'
    <3>1. /\ Archived \in Int /\ Archived' = Archived
          /\ InRotation(p) = 1 /\ InRotation(p)' = 0
      BY <1>v, <2>1 DEF Archived, InRotation, None
    <3> SUFFICES ASSUME NEW g \in 1 .. Archived',
                        g > newest' - 1 - limit' + exits' + InRotation(p)'
                 PROVE  \E k \in Index : archive'[k] = g
      BY DEF Recent
    <3>2. g \in 1 .. Archived /\ g > newest - 1 - limit + (exits + 1) + 0
      BY <2>1, <3>1
    <3>3. g \in Nat /\ 1 <= g /\ g <= Archived /\ g > newest - 1 - limit + exits + InRotation(p)
      BY <1>n, <3>1, <3>2
    <3>4. \E k \in Index : archive[k] = g
      BY <1>g, <3>3, Zenon
    <3> QED BY <2>1, <3>4
  <2> QED BY <2>2, <2>3, <2>4
<1> QED BY <1>1, <1>2, <1>3, <1>4, <1>5, <1>6

LEMMA KeptStep ==
  RotationIInv /\ RotationIInv' /\ KeptIInv /\ [RotationNext \/ GenExhausted]_rotationVars => KeptIInv'
<1> SUFFICES ASSUME RotationIInv, RotationIInv', KeptIInv,
                    [RotationNext \/ GenExhausted]_rotationVars, NEW p \in Pod, Alone(p)'
             PROVE  (WayIsFree(p) /\ Drift(p) /\ Recent(p))'
  BY DEF KeptIInv
<1>1. Mounting = {p} /\ edits = 0 /\ edits' = 0
  BY SamePods DEF Alone
<1>2. WayIsFree(p) /\ Drift(p) /\ Recent(p)
  BY <1>1 DEF KeptIInv, Alone
<1>3. CASE UNCHANGED rotationVars
  BY <1>2, <1>3 DEF rotationVars, files, WayIsFree, Drift, Recent, Moved, Archived, InRotation
<1>4. ASSUME NEW q \in Pod,
             \/ AppendFrame(q) \/ BeginRotation(q) \/ Shift(q) \/ MoveLive(q)
             \/ Touch(q) \/ ExitScript(q) \/ ReplacePod(q)
      PROVE  (WayIsFree(p) /\ Drift(p) /\ Recent(p))'
  <2>1. pc[q] # "absent"
    BY <1>4 DEF AppendFrame, BeginRotation, Shift, MoveLive, Touch, ExitScript, ReplacePod
  <2>2. q = p
    BY <1>1, <2>1 DEF Mounting
  <2>3. ~ReplacePod(p)
    BY <1>2 DEF ReplacePod, WayIsFree
  <2> QED BY <1>1, <1>2, <1>4, <2>2, <2>3, StepKeepsRecent
<1>5. ~EditLimit
  BY <1>1, RotationValues DEF EditLimit
<1> QED BY <1>3, <1>4, <1>5 DEF RotationNext, GenExhausted

\* The archives the limit allows are there, as many as generations exist for
\* them, less one for every exit in the middle of a rotation and one for the
\* rotation under way (clustersizeconfig_controller.go 459-471).
THEOREM LimitIsUsed == RotationSpec => []KeepsUpToLimit
<1>1. RotationInit => KeptIInv
  <2> SUFFICES ASSUME RotationInit, NEW p \in Pod, Alone(p) PROVE WayIsFree(p) /\ Drift(p) /\ Recent(p)
    BY DEF KeptIInv
  <2>1. pc[p] = "run" /\ rots[p] = limit /\ live = 0 /\ newest = 0
        /\ \A k \in Index : archive[k] = 0
    BY DEF RotationInit, Alone, Mounting, None
  <2> QED BY <2>1 DEF WayIsFree, Drift, Recent, Archived, None
<1>2. RotationIInv /\ KeptIInv => KeepsUpToLimit
  <2> SUFFICES ASSUME RotationIInv, KeptIInv, Cardinality(Mounting) = 1, edits = 0, newest > 0
               PROVE  LET inRotation == IF \E p \in Mounting : pc[p] # "run" THEN 1 ELSE 0 IN
                      Cardinality(Kept) >= Smaller(limit, Expired) - exits - inRotation
    BY DEF KeepsUpToLimit
  <2>1. PICK p : Mounting = {p}
    <3>1. Mounting \in SUBSET Pod
      BY DEF Mounting
    <3>2. IsFiniteSet(Mounting)
      BY <3>1, RotationAssumption, FS_Subset
    <3> QED BY <3>2, FS_Singleton
  <2>2. p \in Pod /\ Recent(p) /\ WayIsFree(p)
    BY <2>1 DEF KeptIInv, Alone, Mounting
  <2> DEFINE r == InRotation(p)
             first == newest - limit + exits + r
             from == IF first > 1 THEN first ELSE 1
             inRotation == IF \E q \in Mounting : pc[q] # "run" THEN 1 ELSE 0
  <2>3. inRotation = r
    BY <2>1 DEF InRotation
  <2>4. /\ newest \in Nat /\ limit \in Nat /\ exits \in Nat /\ r \in 0 .. 1
        /\ first \in Int /\ from \in Nat
        /\ Archived \in Int /\ Archived >= newest - 1
        /\ DOMAIN archive = Index /\ Index = 1 .. Largest /\ Largest \in Nat
    BY RotationValues DEF InRotation, Archived
  <2>5. from .. newest - 1 \subseteq Kept
    BY <2>2, <2>4 DEF Recent, Kept, None
  <2>6. IsFiniteSet(Kept)
    <3>1. Kept \in SUBSET (0 .. newest)
      BY RotationValues DEF Kept
    <3>2. IsFiniteSet(0 .. newest)
      BY <2>4, FS_Interval
    <3> QED BY <3>1, <3>2, FS_Subset
  <2>7. Cardinality(from .. newest - 1) <= Cardinality(Kept)
    BY <2>5, <2>6, FS_Subset
  <2> HIDE DEF from
  <2>8. Cardinality(from .. newest - 1) = IF from > newest - 1 THEN 0 ELSE newest - 1 - from + 1
    BY <2>4, FS_Interval
  <2>9. Cardinality(Kept) \in Nat
    BY <2>6, FS_CardinalityType
  <2> HIDE DEF r
  <2>10. Smaller(limit, Expired) - exits - r <= Cardinality(from .. newest - 1)
    BY <2>4, <2>8 DEF Smaller, Expired, from
  <2>11. Cardinality(Kept) >= Smaller(limit, Expired) - exits - r
    BY <2>4, <2>7, <2>8, <2>9, <2>10 DEF Smaller, Expired
  <2> QED BY <2>3, <2>11
<1> QED BY <1>1, <1>2, RotationInvariant, KeptStep, PTL DEF RotationSpec
=============================================================================
