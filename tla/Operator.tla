------------------------------- MODULE Operator -------------------------------
(***************************************************************************)
(* The operator's reconciler in one namespace with one ClusterSizeConfig:  *)
(* Reconcile, deployWorkloads and teardownWorkloads of                     *)
(* clustersizeconfig_controller.go, one API call per step, between the     *)
(* user who edits the resource, the API server, the manager's informer     *)
(* caches, the garbage collector and the pod.                              *)
(*                                                                         *)
(* Get and List of typed objects answer from a cache that lags behind the  *)
(* API server; Create, Update and Delete go to the server and can fail.    *)
(* An Update made from an old copy fails with a conflict.                  *)
(***************************************************************************)
EXTENDS Integers

CONSTANTS
  Owners,      \* which owner references installations give the workloads:
               \* those of the CSV, as the operator lifecycle manager does, or,
               \* where controller-manager has none, the ClusterSizeConfig itself
  MaxEdits,    \* bound: changes of the ClusterSizeConfig, of the secret and of
               \* what the payload is compiled from
  MaxMishaps   \* bound: API calls that fail and restarts of the manager

ASSUME OperatorAssumption ==
  /\ Owners \in (SUBSET {"CSV", "Config"}) \ {{}}
  /\ MaxEdits \in Nat /\ MaxMishaps \in Nat

VARIABLES
  ownedBy,  \* a member of Owners, fixed by the installation
  \* the API server
  cr,       \* the ClusterSizeConfig: "none", "active" or "suspended"
  uid,      \* the UID of the ClusterSizeConfig, or of the last one
  inputs,   \* version of what the payload is compiled from
  sa, pvc,  \* "none", "present"; a PVC in use is "terminating" once deleted
  secret,   \* "none", "noKey", or who set HASH_SALT: "default", "admin"
  cm, dep,  \* payload version in the ConfigMap / hashed in the Deployment, 0: none
  owner,    \* per workload the UID of the resource that owns it, 0: not ours
  pod,      \* the collector pod: "none", "running", or "ending", its
            \* Deployment gone
  \* the manager
  cached,   \* the informers' copies
  queued,   \* the resource is in the work queue
  step,     \* where Reconcile is
  payload,  \* the payload Reconcile has compiled
  config,   \* the UID of the resource Reconcile works for
  \* bound variables
  edits, mishaps

resource == <<cr, uid>>
server == <<ownedBy, resource, inputs, sa, pvc, secret, cm, dep, owner, pod>>
manager == <<cached, queued, step, payload, config>>
bounds == <<edits, mishaps>>
operatorVars == <<server, manager, bounds>>

Salted == {"default", "admin"}

Workload == {"sa", "pvc", "cm", "dep"}

\* What the informers hold when they have caught up.
Live == [cr |-> cr, uid |-> uid, inputs |-> inputs, secret |-> secret, cm |-> cm, dep |-> dep]

OperatorInit ==
  /\ ownedBy \in Owners
  /\ cr = "none" /\ uid = 0 /\ inputs = 1
  /\ sa = "none" /\ pvc = "none" /\ cm = 0 /\ dep = 0 /\ pod = "none"
  /\ owner = [w \in Workload |-> 0]
  /\ secret \in {"none", "noKey", "admin"}
  /\ cached = Live
  /\ queued = FALSE /\ step = "idle" /\ payload = 0 /\ config = 0
  /\ edits = 0 /\ mishaps = 0

-----------------------------------------------------------------------------
\* Reconcile.

Locals == <<payload, config>>
Goto(s) == step' = s /\ UNCHANGED Locals
Return == step' = "idle" /\ payload' = 0 /\ config' = 0
\* return err: controller-runtime puts the request back.
Retry == Return /\ queued' = TRUE
Fail == mishaps < MaxMishaps /\ mishaps' = mishaps + 1

\* finalOwnerReferences.
Own(w) == owner' = [owner EXCEPT ![w] = IF ownedBy = "CSV" THEN 0 ELSE config]

\* The worker takes the request and reads the ClusterSizeConfig.
StartReconcile ==
  /\ step = "idle" /\ queued
  /\ \/ /\ queued' = FALSE
        /\ config' = cached.uid
        /\ step' = IF cached.cr = "active" THEN "compile" ELSE "deleteDep"
        /\ UNCHANGED <<payload, mishaps>>
     \/ Fail /\ Retry
  /\ UNCHANGED <<server, cached, edits>>

\* compileTelemetryBasePayload.  A failed List of the nodes is an error; the
\* other reads fall back to "unknown" and "none".
Compile ==
  /\ step = "compile"
  /\ \/ payload' = cached.inputs /\ step' = "sa" /\ UNCHANGED <<config, queued, mishaps>>
     \/ Fail /\ Retry
  /\ UNCHANGED <<server, cached, edits>>

\* AlreadyExists counts as success, whoever owns what exists, and for a PVC
\* that is being deleted too.
CreateServiceAccount ==
  /\ step = "sa"
  /\ \/ sa = "none" /\ sa' = "present" /\ Own("sa") /\ Goto("pvc") /\ UNCHANGED <<queued, mishaps>>
     \/ sa # "none" /\ Goto("pvc") /\ UNCHANGED <<sa, owner, queued, mishaps>>
     \/ Fail /\ Retry /\ UNCHANGED <<sa, owner>>
  /\ UNCHANGED <<ownedBy, resource, inputs, pvc, secret, cm, dep, pod, cached, edits>>

CreatePVC ==
  /\ step = "pvc"
  /\ \/ pvc = "none" /\ pvc' = "present" /\ Own("pvc") /\ Goto("secret") /\ UNCHANGED <<queued, mishaps>>
     \/ pvc # "none" /\ Goto("secret") /\ UNCHANGED <<pvc, owner, queued, mishaps>>
     \/ Fail /\ Retry /\ UNCHANGED <<pvc, owner>>
  /\ UNCHANGED <<ownedBy, resource, inputs, sa, secret, cm, dep, pod, cached, edits>>

\* Mutants of WriteDefaultSalt: the Update does not conflict with what changed
\* since the copy was read; the key is written with nothing in it.
WriteDefaultSaltAnyway ==
  /\ secret' = "default"
  /\ Goto("cm") /\ UNCHANGED <<queued, mishaps>>

WriteEmptySalt ==
  /\ cached.secret = secret
  /\ secret' = "empty"
  /\ Goto("cm") /\ UNCHANGED <<queued, mishaps>>

\* Create the secret if the cache has none, add HASH_SALT if the cached copy
\* has no such key; AlreadyExists and conflicts are errors here.
WriteDefaultSalt ==
  /\ cached.secret = secret
  /\ secret' = "default"
  /\ Goto("cm") /\ UNCHANGED <<queued, mishaps>>

\* Mutant of EnsureSecret: its errors are thrown away as those of PutPayload are.
EnsureSecretIgnoresErrors ==
  /\ step = "secret"
  /\ \/ cached.secret \in Salted /\ Goto("cm") /\ UNCHANGED <<secret, queued, mishaps>>
     \/ cached.secret \notin Salted /\ WriteDefaultSalt
     \/ cached.secret \notin Salted /\ cached.secret # secret /\ Goto("cm")
                                    /\ UNCHANGED <<secret, queued, mishaps>>
     \/ Fail /\ Goto("cm") /\ UNCHANGED <<secret, queued>>
  /\ UNCHANGED <<ownedBy, resource, inputs, sa, pvc, cm, dep, owner, pod, cached, edits>>

EnsureSecret ==
  /\ step = "secret"
  /\ \/ cached.secret \in Salted /\ Goto("cm") /\ UNCHANGED <<secret, queued, mishaps>>
     \/ cached.secret \notin Salted /\ WriteDefaultSalt
     \/ cached.secret \notin Salted /\ cached.secret # secret /\ Retry
                                    /\ UNCHANGED <<secret, mishaps>>
     \/ Fail /\ Retry /\ UNCHANGED secret
  /\ UNCHANGED <<ownedBy, resource, inputs, sa, pvc, cm, dep, owner, pod, cached, edits>>

\* A Create of what the cache lacks or an Update of the copy it holds, the
\* result thrown away: the write takes effect only if the copy is current.
Lands(w, copy, current) ==
  IF copy = current THEN Own(w) ELSE UNCHANGED owner

\* Mutant of PutPayload: an existing ConfigMap is left as it is.
PutPayloadOnce ==
  /\ step = "cm"
  /\ \/ /\ cm' = IF cm = 0 THEN payload ELSE cm
        /\ IF cm = 0 THEN Own("cm") ELSE UNCHANGED owner
        /\ Goto("dep") /\ UNCHANGED <<queued, mishaps>>
     \/ Fail /\ Goto("dep") /\ UNCHANGED <<cm, owner, queued>>
     \/ Fail /\ Retry /\ UNCHANGED <<cm, owner>>
  /\ UNCHANGED <<ownedBy, resource, inputs, sa, pvc, secret, dep, pod, cached, edits>>

PutPayload ==
  /\ step = "cm"
  /\ \/ /\ cm' = IF cached.cm = cm THEN payload ELSE cm
        /\ Lands("cm", cached.cm, cm)
        /\ Goto("dep") /\ UNCHANGED <<queued, mishaps>>
     \/ Fail /\ Goto("dep") /\ UNCHANGED <<cm, owner, queued>>   \* write fails: ignored
     \/ Fail /\ Retry /\ UNCHANGED <<cm, owner>>                 \* Get fails
  /\ UNCHANGED <<ownedBy, resource, inputs, sa, pvc, secret, dep, pod, cached, edits>>

PutDeployment ==
  /\ step = "dep"
  /\ \/ /\ dep' = IF cached.dep = dep THEN payload ELSE dep
        /\ Lands("dep", cached.dep, dep)
        /\ Return /\ UNCHANGED <<queued, mishaps>>
     \/ Fail /\ Return /\ UNCHANGED <<dep, owner, queued>>
     \/ Fail /\ Retry /\ UNCHANGED <<dep, owner>>
  /\ UNCHANGED <<ownedBy, resource, inputs, sa, pvc, secret, cm, pod, cached, edits>>

\* teardownWorkloads: four Deletes, every error ignored.
DropPVC == pvc' = IF pod # "none" /\ pvc # "none" THEN "terminating" ELSE "none"

Delete(w) ==
  /\ dep' = IF w = "dep" THEN 0 ELSE dep
  /\ pod' = IF w = "dep" /\ pod = "running" THEN "ending" ELSE pod
  /\ IF w = "pvc" THEN DropPVC ELSE UNCHANGED pvc
  /\ cm' = IF w = "cm" THEN 0 ELSE cm
  /\ sa' = IF w = "sa" THEN "none" ELSE sa

Teardown(now, w, next) ==
  /\ step = now
  /\ IF next = "idle" THEN Return ELSE Goto(next)
  /\ \/ Delete(w) /\ UNCHANGED mishaps
     \/ Fail /\ UNCHANGED <<dep, pvc, cm, sa, pod>>
  /\ UNCHANGED <<ownedBy, resource, inputs, secret, owner, cached, queued, edits>>

TeardownStep ==
  \/ Teardown("deleteDep", "dep", "deletePVC")
  \/ Teardown("deletePVC", "pvc", "deleteCM")
  \/ Teardown("deleteCM", "cm", "deleteSA")
  \/ Teardown("deleteSA", "sa", "idle")

ReconcileStep ==
  \/ StartReconcile \/ Compile \/ CreateServiceAccount \/ CreatePVC \/ EnsureSecret
  \/ PutPayload \/ PutDeployment \/ TeardownStep

-----------------------------------------------------------------------------
\* controller-runtime.

\* Informers catch up.  For(ClusterSizeConfig) enqueues its own events,
\* Owns(Deployment) those of a Deployment whose controller is the resource;
\* no event of a Node, a ConfigMap or a Secret enqueues anything.
SyncConfig ==
  /\ <<cached.cr, cached.uid>> # resource
  /\ cached' = [cached EXCEPT !.cr = cr, !.uid = uid]
  /\ queued' = TRUE
  /\ UNCHANGED <<server, step, payload, config, bounds>>

SyncDeployment ==
  /\ cached.dep # dep
  /\ cached' = [cached EXCEPT !.dep = dep]
  /\ queued' = (queued \/ ownedBy = "Config")
  /\ UNCHANGED <<server, step, payload, config, bounds>>

Sync(seen) ==
  /\ cached # seen /\ cached' = seen
  /\ UNCHANGED <<server, queued, step, payload, config, bounds>>

SyncPayload == Sync([cached EXCEPT !.cm = cm])
SyncSecret == Sync([cached EXCEPT !.secret = secret])
SyncInputs == Sync([cached EXCEPT !.inputs = inputs])

\* The informers' periodic resync enqueues the resources that exist.
Resync ==
  /\ cached.cr # "none"
  /\ ~queued
  /\ queued' = TRUE
  /\ UNCHANGED <<server, cached, step, payload, config, bounds>>

\* The controller-manager restarts: caches are listed anew, and what exists is
\* enqueued.
Restart ==
  /\ mishaps < MaxMishaps
  /\ mishaps' = mishaps + 1
  /\ cached' = Live
  /\ queued' = (cr # "none" \/ (dep # 0 /\ owner["dep"] # 0))
  /\ Return
  /\ UNCHANGED <<server, edits>>

-----------------------------------------------------------------------------
\* The rest of the cluster.

EditConfig ==
  /\ edits < MaxEdits
  /\ edits' = edits + 1
  /\ cr' \in {"none", "active", "suspended"} \ {cr}
  /\ uid' = IF cr = "none" THEN uid + 1 ELSE uid
  /\ UNCHANGED <<ownedBy, inputs, sa, pvc, secret, cm, dep, owner, pod, manager, mishaps>>

\* An administrator sets HASH_SALT in the secret, creating it if need be.
SetSalt ==
  /\ edits < MaxEdits
  /\ edits' = edits + 1
  /\ secret' = "admin" /\ secret # "admin"
  /\ UNCHANGED <<ownedBy, resource, inputs, sa, pvc, cm, dep, owner, pod, manager, mishaps>>

\* A node joins or leaves, the cluster is upgraded.
ChangeInputs ==
  /\ edits < MaxEdits
  /\ edits' = edits + 1
  /\ inputs' = inputs + 1
  /\ UNCHANGED <<ownedBy, resource, sa, pvc, secret, cm, dep, owner, pod, manager, mishaps>>

\* A pod needs all that its template names; it ends after its Deployment, even
\* if there is a new one, and a PVC in deletion goes when no pod mounts it.
StartPod ==
  /\ pod = "none" /\ dep # 0 /\ sa = "present" /\ pvc = "present" /\ cm # 0 /\ secret \in Salted
  /\ pod' = "running"
  /\ UNCHANGED <<ownedBy, resource, inputs, sa, pvc, secret, cm, dep, owner, manager, bounds>>

EndPod ==
  /\ pod = "ending"
  /\ pod' = "none"
  /\ pvc' = IF pvc = "terminating" THEN "none" ELSE pvc
  /\ UNCHANGED <<ownedBy, resource, inputs, sa, secret, cm, dep, owner, manager, bounds>>

\* The garbage collector deletes a workload whose owner is gone.
Exists(w) ==
  CASE w = "sa" -> sa = "present"
    [] w = "pvc" -> pvc = "present"
    [] w = "cm" -> cm # 0
    [] w = "dep" -> dep # 0

Orphan(w) == Exists(w) /\ owner[w] # 0 /\ (cr = "none" \/ owner[w] # uid)

Collect(w) ==
  /\ Orphan(w)
  /\ Delete(w)
  /\ UNCHANGED <<ownedBy, resource, inputs, secret, owner, manager, bounds>>

Environment ==
  \/ EditConfig \/ SetSalt \/ ChangeInputs \/ StartPod \/ EndPod
  \/ \E w \in Workload : Collect(w)

OperatorNext ==
  \/ ReconcileStep
  \/ SyncConfig \/ SyncDeployment \/ SyncPayload \/ SyncSecret \/ SyncInputs
  \/ Resync \/ Restart
  \/ Environment

\* Nothing to do and no resource to resync.
AtRest ==
  /\ cached.cr = "none" /\ cr = "none" /\ ~queued /\ step = "idle"
  /\ UNCHANGED operatorVars

\* The manager's worker runs, informers catch up and resync, and the kubelet
\* and the garbage collector do their part.  Users, failures and restarts are
\* never obliged to happen.
OperatorFairness ==
  /\ WF_operatorVars(ReconcileStep)
  /\ WF_operatorVars(SyncConfig) /\ WF_operatorVars(SyncDeployment)
  /\ WF_operatorVars(Resync)
  /\ WF_operatorVars(SyncPayload) /\ WF_operatorVars(SyncSecret) /\ WF_operatorVars(SyncInputs)
  /\ WF_operatorVars(StartPod) /\ WF_operatorVars(EndPod)
  /\ \A w \in Workload : WF_operatorVars(Collect(w))

OperatorSpec ==
  OperatorInit /\ [][OperatorNext \/ AtRest]_operatorVars /\ OperatorFairness

-----------------------------------------------------------------------------
\* Properties.

\* The caches and the work of the reconciler stay within the states of the
\* objects the code creates, and nothing is owned by a resource never seen.
Inputs == 1 .. MaxEdits + 1
Payloads == 0 .. MaxEdits + 1

OperatorTypeOK ==
  /\ ownedBy \in Owners
  /\ cr \in {"none", "active", "suspended"} /\ uid \in 0 .. MaxEdits
  /\ inputs \in Inputs
  /\ sa \in {"none", "present"} /\ pvc \in {"none", "present", "terminating"}
  /\ secret \in {"none", "noKey"} \cup Salted
  /\ cm \in Payloads /\ dep \in Payloads
  /\ owner \in [Workload -> 0 .. MaxEdits]
  /\ pod \in {"none", "running", "ending"} /\ queued \in BOOLEAN
  /\ cached \in [cr : {"none", "active", "suspended"}, uid : 0 .. MaxEdits,
                 inputs : Inputs, secret : {"none", "noKey"} \cup Salted,
                 cm : Payloads, dep : Payloads]
  /\ step \in {"idle", "compile", "sa", "pvc", "secret", "cm", "dep",
               "deleteDep", "deletePVC", "deleteCM", "deleteSA"}
  /\ payload \in Payloads /\ config \in 0 .. MaxEdits
  /\ edits \in 0 .. MaxEdits /\ mishaps \in 0 .. MaxMishaps

\* No reconcile, however old its view of the secret, replaces a HASH_SALT an
\* administrator has set (two clusters would stop deriving the same MAC), and
\* no teardown removes one.
SaltKept == [][(secret \in Salted) => (secret' \in {secret, "admin"})]_operatorVars

\* A Deployment is only ever written once the secret its pod reads the salt
\* from has a HASH_SALT, whatever calls fail on the way.
DeploymentHasSalt == dep # 0 => secret \in Salted

\* The pod runs with the payload of the present nodes.
Collecting ==
  /\ sa = "present" /\ pvc # "none" /\ secret \in Salted
  /\ cm = inputs /\ dep = inputs /\ pod = "running"
TornDown == sa = "none" /\ pvc = "none" /\ cm = 0 /\ dep = 0 /\ pod = "none"

\* Failed calls whose errors are dropped, lost updates from an old cache, node
\* changes nobody watches, restarts and resources created anew are all repaired
\* in the end: the cluster comes to be what the resource asks for.
Converges ==
  /\ <>[](cr = "active" => Collecting)
  /\ <>[](cr = "suspended" => TornDown)
  /\ <>[](cr = "none" /\ ownedBy = "Config" => TornDown)

\* clustersize-operator/README.md:51: resources are synchronised until the
\* desired state is reached; that state has a PVC which is not being deleted.
DesiredStateReached == <>[](cr = "active" => pvc = "present")

=============================================================================
