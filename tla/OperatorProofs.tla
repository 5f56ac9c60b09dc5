---------------------------- MODULE OperatorProofs ----------------------------
(***************************************************************************)
(* Proofs about Operator, for any number of changes, failures and restarts *)
(* and for both kinds of owner: the types, that a Deployment is only there *)
(* with a salt, and that no salt is replaced by the default one.           *)
(*                                                                         *)
(* A salt, once set, stays.  So what a reconcile has seen or done about    *)
(* the secret remains true while it goes on (SaltKnown), although its view *)
(* of the secret is old and others write to it.                            *)
(***************************************************************************)
EXTENDS Operator, TLAPS

\* The UID and the inputs advance with the changes that are counted.
Counted == uid <= edits /\ inputs <= edits + 1

\* A salt that the cache shows, or that a reconcile has ensured, is there.
SaltKnown ==
  (cached.secret \in Salted \/ step \in {"cm", "dep"} \/ dep # 0) => secret \in Salted

OperatorIInv == OperatorTypeOK /\ Counted /\ SaltKnown

CachedType ==
  [cr : {"none", "active", "suspended"}, uid : 0 .. MaxEdits,
   inputs : Inputs, secret : {"none", "noKey"} \cup Salted,
   cm : Payloads, dep : Payloads]

Steps == {"idle", "compile", "sa", "pvc", "secret", "cm", "dep",
          "deleteDep", "deletePVC", "deleteCM", "deleteSA"}

-----------------------------------------------------------------------------
\* The initial states satisfy the invariant.
LEMMA OperatorInitEstablishes == OperatorInit => OperatorIInv
<1> SUFFICES ASSUME OperatorInit PROVE OperatorIInv
  OBVIOUS
<1>1. MaxEdits \in Nat /\ MaxMishaps \in Nat
  BY OperatorAssumption
<1>2. 0 \in Payloads /\ 1 \in Inputs /\ 0 \in 0 .. MaxEdits /\ 0 \in 0 .. MaxMishaps
  BY <1>1 DEF Payloads, Inputs
<1>3. cached \in CachedType
  BY <1>2 DEF OperatorInit, Live, CachedType, Salted
<1>4. owner \in [Workload -> 0 .. MaxEdits]
  BY <1>2 DEF OperatorInit
<1>5. OperatorTypeOK
  BY <1>2, <1>3, <1>4 DEF OperatorInit, OperatorTypeOK, CachedType, Salted
<1>6. Counted
  BY DEF OperatorInit, Counted
<1>7. SaltKnown
  BY DEF OperatorInit, SaltKnown, Live
<1> QED BY <1>5, <1>6, <1>7 DEF OperatorIInv

\* What a step of the reconciler has to respect.
LEMMA ReconcileFrame ==
  ASSUME OperatorIInv,
         UNCHANGED <<ownedBy, cr, uid, inputs, cached, edits>>,
         sa' \in {"none", "present"}, pvc' \in {"none", "present", "terminating"},
         secret' \in {"none", "noKey"} \cup Salted, cm' \in Payloads, dep' \in Payloads,
         owner' \in [Workload -> 0 .. MaxEdits], pod' \in {"none", "running", "ending"},
         queued' \in BOOLEAN, step' \in Steps, payload' \in Payloads,
         config' \in 0 .. MaxEdits, mishaps' \in 0 .. MaxMishaps,
         secret \in Salted => secret' \in Salted,
         (step' \in {"cm", "dep"} \/ dep' # 0) => secret' \in Salted
  PROVE  OperatorIInv'
<1>1. OperatorTypeOK'
  BY DEF OperatorIInv, OperatorTypeOK, Steps
<1>2. Counted'
  BY DEF OperatorIInv, Counted
<1>3. SaltKnown'
  BY DEF OperatorIInv, SaltKnown
<1> QED BY <1>1, <1>2, <1>3 DEF OperatorIInv

\* A step of the reconciler keeps the invariant.
LEMMA ReconcileKeeps ==
  ASSUME OperatorIInv, ReconcileStep
  PROVE  OperatorIInv'
<1>n. MaxEdits \in Nat /\ MaxMishaps \in Nat
  BY OperatorAssumption
<1>t. /\ sa \in {"none", "present"} /\ pvc \in {"none", "present", "terminating"}
      /\ secret \in {"none", "noKey"} \cup Salted /\ cm \in Payloads /\ dep \in Payloads
      /\ owner \in [Workload -> 0 .. MaxEdits] /\ pod \in {"none", "running", "ending"}
      /\ queued \in BOOLEAN /\ step \in Steps /\ payload \in Payloads
      /\ config \in 0 .. MaxEdits /\ mishaps \in 0 .. MaxMishaps
      /\ cached.uid \in 0 .. MaxEdits /\ cached.inputs \in Inputs
  BY DEF OperatorIInv, OperatorTypeOK, Steps
<1>s. (cached.secret \in Salted \/ step \in {"cm", "dep"} \/ dep # 0) => secret \in Salted
  BY DEF OperatorIInv, SaltKnown
<1>z. /\ 0 \in Payloads /\ 0 \in 0 .. MaxEdits /\ cached.inputs \in Payloads
      /\ TRUE \in BOOLEAN /\ FALSE \in BOOLEAN
  BY <1>n, <1>t DEF Payloads, Inputs
<1>m. Fail => mishaps' \in 0 .. MaxMishaps
  BY <1>n, <1>t DEF Fail
<1>o. \A w \in Workload : Own(w) => owner' \in [Workload -> 0 .. MaxEdits]
  BY <1>t, <1>z DEF Own
<1>1. CASE StartReconcile
  BY <1>1, <1>t, <1>s, <1>z, <1>m, ReconcileFrame
     DEF StartReconcile, Retry, Return, server, resource, Steps
<1>2. CASE Compile
  BY <1>2, <1>t, <1>s, <1>z, <1>m, ReconcileFrame
     DEF Compile, Retry, Return, server, resource, Steps
<1>3. CASE CreateServiceAccount
  BY <1>3, <1>t, <1>s, <1>z, <1>m, <1>o, ReconcileFrame
     DEF CreateServiceAccount, Goto, Locals, Retry, Return, resource, Steps, Workload
<1>4. CASE CreatePVC
  BY <1>4, <1>t, <1>s, <1>z, <1>m, <1>o, ReconcileFrame
     DEF CreatePVC, Goto, Locals, Retry, Return, resource, Steps, Workload
<1>5. CASE EnsureSecret
  BY <1>5, <1>t, <1>s, <1>z, <1>m, ReconcileFrame
     DEF EnsureSecret, WriteDefaultSalt, Goto, Locals, Retry, Return, resource, Steps, Salted
<1>6. CASE PutPayload
  BY <1>6, <1>t, <1>s, <1>z, <1>m, <1>o, ReconcileFrame
     DEF PutPayload, Lands, Goto, Locals, Retry, Return, resource, Steps, Workload
<1>7. CASE PutDeployment
  BY <1>7, <1>t, <1>s, <1>z, <1>m, <1>o, ReconcileFrame
     DEF PutDeployment, Lands, Retry, Return, resource, Steps, Workload
<1>8. CASE TeardownStep
  <2>1. \E now \in {"deleteDep", "deletePVC", "deleteCM", "deleteSA"}, w \in Workload,
           next \in {"deletePVC", "deleteCM", "deleteSA", "idle"} : Teardown(now, w, next)
    BY <1>8 DEF TeardownStep, Workload
  <2>2. PICK w \in Workload, next \in {"deletePVC", "deleteCM", "deleteSA", "idle"} :
          /\ IF next = "idle" THEN Return ELSE Goto(next)
          /\ \/ Delete(w) /\ UNCHANGED mishaps
             \/ Fail /\ UNCHANGED <<dep, pvc, cm, sa, pod>>
          /\ UNCHANGED <<ownedBy, resource, inputs, secret, owner, cached, queued, edits>>
    BY <2>1 DEF Teardown
  <2>3. /\ dep' \in Payloads /\ cm' \in Payloads /\ sa' \in {"none", "present"}
        /\ pvc' \in {"none", "present", "terminating"} /\ pod' \in {"none", "running", "ending"}
        /\ dep' # 0 => dep # 0
    BY <2>2, <1>t, <1>z DEF Delete, DropPVC
  <2>4. /\ step' \in Steps \ {"cm", "dep"} /\ payload' \in Payloads /\ config' \in 0 .. MaxEdits
        /\ mishaps' \in 0 .. MaxMishaps
    BY <2>2, <1>t, <1>z, <1>m DEF Return, Goto, Locals, Steps
  <2> QED BY <2>2, <2>3, <2>4, <1>t, <1>s, ReconcileFrame DEF resource
<1> QED
  BY <1>1, <1>2, <1>3, <1>4, <1>5, <1>6, <1>7, <1>8 DEF ReconcileStep

\* The informers, the resync and a restart keep the invariant.
LEMMA RuntimeKeeps ==
  ASSUME OperatorIInv,
         SyncConfig \/ SyncDeployment \/ SyncPayload \/ SyncSecret \/ SyncInputs \/ Resync \/ Restart
  PROVE  OperatorIInv'
<1>t. /\ OperatorTypeOK /\ Counted /\ SaltKnown
      /\ MaxEdits \in Nat /\ MaxMishaps \in Nat
  BY OperatorAssumption DEF OperatorIInv
<1>c. cached \in CachedType /\ Live \in CachedType
  BY <1>t DEF OperatorTypeOK, CachedType, Live
<1> USE DEF server, resource, bounds
<1>1. ASSUME UNCHANGED server, queued' \in BOOLEAN, cached' \in CachedType,
             cached'.secret \in {cached.secret, secret},
             \/ UNCHANGED <<step, payload, config, bounds>>
             \/ /\ step' = "idle" /\ payload' = 0 /\ config' = 0
                /\ edits' = edits /\ mishaps' \in 0 .. MaxMishaps
      PROVE  OperatorIInv'
  <2>1. OperatorTypeOK'
    BY <1>1, <1>t DEF OperatorTypeOK, CachedType, Inputs, Payloads
  <2>2. Counted'
    BY <1>1, <1>t DEF Counted
  <2>3. SaltKnown'
    BY <1>1, <1>t DEF SaltKnown
  <2> QED BY <2>1, <2>2, <2>3 DEF OperatorIInv
<1>2. CASE SyncConfig
  BY <1>2, <1>1, <1>t, <1>c DEF SyncConfig, CachedType, OperatorTypeOK
<1>3. CASE SyncDeployment
  BY <1>3, <1>1, <1>t, <1>c DEF SyncDeployment, CachedType, OperatorTypeOK
<1>4. CASE SyncPayload
  BY <1>4, <1>1, <1>t, <1>c DEF SyncPayload, Sync, CachedType, OperatorTypeOK
<1>5. CASE SyncSecret
  BY <1>5, <1>1, <1>t, <1>c DEF SyncSecret, Sync, CachedType, OperatorTypeOK
<1>6. CASE SyncInputs
  BY <1>6, <1>1, <1>t, <1>c DEF SyncInputs, Sync, CachedType, OperatorTypeOK
<1>7. CASE Resync
  BY <1>7, <1>1, <1>t, <1>c DEF Resync
<1>8. CASE Restart
  <2>1. mishaps' \in 0 .. MaxMishaps
    BY <1>8, <1>t DEF Restart, OperatorTypeOK
  <2>2. cached' = Live /\ Live.secret = secret
    BY <1>8 DEF Restart, Live
  <2>3. queued' \in BOOLEAN
    BY <1>8 DEF Restart
  <2>4. UNCHANGED <<server, edits>> /\ step' = "idle" /\ payload' = 0 /\ config' = 0
    BY <1>8 DEF Restart, Return
  <2> QED BY <2>1, <2>2, <2>3, <2>4, <1>1, <1>c
<1> QED BY <1>2, <1>3, <1>4, <1>5, <1>6, <1>7, <1>8

\* Users, the kubelet and the garbage collector keep the invariant.
LEMMA EnvironmentKeeps ==
  ASSUME OperatorIInv, Environment
  PROVE  OperatorIInv'
<1>t. /\ OperatorTypeOK /\ Counted /\ SaltKnown
      /\ MaxEdits \in Nat /\ MaxMishaps \in Nat
  BY OperatorAssumption DEF OperatorIInv
<1> USE DEF manager, bounds, resource
<1>1. CASE EditConfig
  BY <1>1, <1>t DEF EditConfig, OperatorIInv, OperatorTypeOK, Counted, SaltKnown, Inputs, Payloads
<1>2. CASE SetSalt
  <2>1. secret' \in Salted /\ edits' \in 0 .. MaxEdits /\ edits' = edits + 1
        /\ UNCHANGED <<ownedBy, cr, uid, inputs, sa, pvc, cm, dep, owner, pod>>
        /\ UNCHANGED <<cached, queued, step, payload, config, mishaps>>
    BY <1>2, <1>t DEF SetSalt, OperatorTypeOK, Salted
  <2>2. OperatorTypeOK'
    BY <2>1, <1>t DEF OperatorTypeOK
  <2>3. Counted'
    BY <2>1, <1>t DEF Counted, OperatorTypeOK, Inputs
  <2> QED BY <2>1, <2>2, <2>3 DEF OperatorIInv, SaltKnown
<1>3. CASE ChangeInputs
  BY <1>3, <1>t DEF ChangeInputs, OperatorIInv, OperatorTypeOK, Counted, SaltKnown, Inputs
<1>4. CASE StartPod
  BY <1>4, <1>t DEF StartPod, OperatorIInv, OperatorTypeOK, Counted, SaltKnown
<1>5. CASE EndPod
  BY <1>5, <1>t DEF EndPod, OperatorIInv, OperatorTypeOK, Counted, SaltKnown
<1>6. ASSUME NEW w \in Workload, Collect(w) PROVE OperatorIInv'
  BY <1>6, <1>t DEF Collect, Delete, DropPVC, OperatorIInv, OperatorTypeOK, Counted, SaltKnown, Payloads
<1> QED BY <1>1, <1>2, <1>3, <1>4, <1>5, <1>6 DEF Environment

\* Every step keeps the invariant.
LEMMA OperatorStepKeeps ==
  OperatorIInv /\ [OperatorNext \/ AtRest]_operatorVars => OperatorIInv'
<1> SUFFICES ASSUME OperatorIInv, [OperatorNext \/ AtRest]_operatorVars PROVE OperatorIInv'
  OBVIOUS
<1>1. CASE UNCHANGED operatorVars
  BY <1>1 DEF operatorVars, server, manager, bounds, resource, OperatorIInv,
              OperatorTypeOK, Counted, SaltKnown
<1>2. CASE AtRest
  BY <1>1, <1>2 DEF AtRest
<1>3. CASE OperatorNext
  BY <1>3, ReconcileKeeps, RuntimeKeeps, EnvironmentKeeps DEF OperatorNext
<1> QED BY <1>1, <1>2, <1>3

\* A step that changes a salt is an administrator's.
LEMMA StepKeepsSalt ==
  ASSUME [OperatorNext \/ AtRest]_operatorVars, secret \in Salted
  PROVE  secret' \in {secret, "admin"}
<1> USE DEF server, resource, manager, bounds, operatorVars
<1>1. CASE EnsureSecret
  BY <1>1 DEF EnsureSecret, WriteDefaultSalt
<1>2. CASE ReconcileStep
  BY <1>1, <1>2 DEF ReconcileStep, StartReconcile, Compile, CreateServiceAccount, CreatePVC,
                    PutPayload, PutDeployment, TeardownStep, Teardown
<1>3. CASE SyncConfig \/ SyncDeployment \/ SyncPayload \/ SyncSecret \/ SyncInputs \/ Resync \/ Restart
  BY <1>3 DEF SyncConfig, SyncDeployment, SyncPayload, SyncSecret, SyncInputs, Sync, Resync, Restart
<1>4. CASE Environment
  BY <1>4 DEF Environment, EditConfig, SetSalt, ChangeInputs, StartPod, EndPod, Collect
<1>5. CASE AtRest \/ UNCHANGED operatorVars
  BY <1>5 DEF AtRest
<1> QED BY <1>2, <1>3, <1>4, <1>5 DEF OperatorNext

-----------------------------------------------------------------------------
\* The strengthened invariant holds of every behaviour of the operator.
THEOREM OperatorInvariant == OperatorSpec => []OperatorIInv
BY OperatorInitEstablishes, OperatorStepKeeps, PTL DEF OperatorSpec

\* The objects, the caches and the reconciler's position keep their types.
THEOREM OperatorTypeCorrect == OperatorSpec => []OperatorTypeOK
<1>1. OperatorIInv => OperatorTypeOK
  BY DEF OperatorIInv
<1> QED BY <1>1, OperatorInvariant, PTL

\* There is no Deployment without a HASH_SALT, however old the reconciler's
\* view of the secret is and whatever calls fail.
THEOREM DeploymentsHaveSalt == OperatorSpec => []DeploymentHasSalt
<1>1. OperatorIInv => DeploymentHasSalt
  BY DEF OperatorIInv, SaltKnown, DeploymentHasSalt
<1> QED BY <1>1, OperatorInvariant, PTL

\* A HASH_SALT that is set is only ever replaced by an administrator.
THEOREM SaltIsKept == OperatorSpec => SaltKept
<1>1. [OperatorNext \/ AtRest]_operatorVars =>
        [(secret \in Salted) => (secret' \in {secret, "admin"})]_operatorVars
  BY StepKeepsSalt
<1> QED BY <1>1, PTL DEF OperatorSpec, SaltKept
=============================================================================
