# A TLA+ model of the Jaeger operator

The Jaeger operator is a Kubernetes controller written in Go. It watches `Jaeger`
custom resources (CRs) and creates the deployments, services, secrets, jobs... that
make up a Jaeger installation; it upgrades instances written for older versions,
injects agent sidecars into the deployments of other people, and waits for the
storage (Elasticsearch, Kafka, Cassandra jobs) an instance needs. This directory
holds TLA+ modules of its control logic, TLC configurations that check them on small
instances, and TLAPS proofs for every value of the constants.

`PROJECT.json` gives, for every definition, the lines of the source it models, and
lists the hazards of the code with the properties that cover them.

## 1. Inventory

| Component | State it keeps | Operations | Interacts with |
|---|---|---|---|
| Jaeger reconciler (`pkg/controller/jaeger/jaeger_controller.go`) | none between calls; reads and writes the CR (labels, spec, status) | `Reconcile`, `apply`, `syncOnJaegerChanges` | API server, strategies, stages, upgrade, sidecar injection |
| Upgrade (`pkg/upgrade`, `controller/jaeger/upgrade.go`) | `Status.Version` of the CR | `ManagedInstances` at start-up, `applyUpgrades` while reconciling, seven routines that rewrite flags | the CR |
| Inventories (`pkg/inventory`) | none | one `For...` function per kind: create / update / delete sets | stages |
| Stages of apply (`controller/jaeger/*.go`) | the objects in the cluster | one `apply...` per kind: list, inventory, create, update, delete | API server; autoscalers and other controllers write the same objects |
| Waiting stages (`elasticsearch.go`, `kafka.go`, `kafkauser.go`, `dependencies.go`, `deployment.go`) | `seen` flag of a poll | polls with a time-out | the controllers of Elasticsearch, Strimzi, jobs and deployments |
| Sidecar injection (`pkg/inject`, `controllers/appsv1`, `pkg/controller/namespace`) | label, annotations and agent container of a deployment | admission webhook, namespace reconciler, `syncOnJaegerChanges` | CRs, namespaces, deployments of users |
| Clean-up (`pkg/autoclean`) | none; a timer | `cleanDeployments` | deployments, CRs |
| Autodetection (`pkg/autodetect`) | the global operator configuration | `detect...` on a timer | all readers of the configuration |
| Strategies (`pkg/strategy`), CR webhook (`apis/v1/jaeger_webhook.go`) | none | `For`, normalisation, defaulting, validation | reconciler |
| Elasticsearch storage (`pkg/storage`) | certificates in files and secrets | node and shard arithmetic, certificate creation | reconciler, Elasticsearch controller |
| Rendering (`pkg/deployment`, `pkg/service`, ...) | none | builds objects from a CR | strategies |
| Start (`pkg/cmd/start`) | none | permissions, upgrade, manager, controllers | all |

What is hard, and what would make each part correct:

* **Reconciler.** Every API call is a point where the user, another pod or another
  operator can act, where the call can fail and where the pod can stop. A CR is worked
  on by one operator at a time; an operator never takes a CR of another; what is
  stored back (a copy read minutes before) never undoes an edit; the recorded version
  and the format of the spec agree; `Running` means that the objects are there; and
  there is no lost wake-up, since the controller watches nothing but the CR.
* **Stages.** A kind is reconciled by a list and a number of separate writes. Objects of
  other instances are left alone; what others have written into an object stays;
  conflicts and failures in the middle end in the desired objects all the same.
* **Waits.** A time-out and a retry must not skip what is waited for; the flag that tells
  a removed object from a new one must not leak from one wait to another; an old
  deployment goes only after its replacement is there.
* **Sidecars.** A deployment is changed by its owner, by the webhook, by the reconcilers
  and by the clean-up, each from its own cache. A sidecar belongs to a live instance,
  one that was asked for is eventually there, and a container of the user is never
  taken for one.
* **Configuration.** A background goroutine writes what it detects, key by key, while a
  pass reads it several times; what a pass makes of it is stored into the CR, where the
  next pass cannot tell it from the choice of the user. `normalize`, the strategies, the
  upgrade routines and the webhook all rewrite the CR: they must come to an end, at a CR
  that is migrated, normalised and as the user asked.
* **Elasticsearch.** Certificates live in the container and in four secrets; all must
  come from one authority, across restarts, losses and expiries. The number of nodes is
  written by two controllers, a webhook and users.

## 2. Modules

| Module | Models | Extends |
|---|---|---|
| `Upgrade` | which upgrade routines run, and what they record | |
| `JaegerReconcile` | `Reconcile`, `apply`, `ManagedInstances`, pods, the API server | `Upgrade` |
| `JaegerReconcileProofs` | ownership, lost edits, the refinement of `Management` | `JaegerReconcile` |
| `JaegerVersionProofs` | the version and the routines | `JaegerReconcileProofs` |
| `JaegerConvergenceProofs` | `Running`, and no lost wake-up | `JaegerVersionProofs` |
| `Inventory` | the `For...` functions of `pkg/inventory` | |
| `ApplyResources` | the `apply...` functions of the fifteen kinds | `Inventory` |
| `ApplyResourcesProofs` | its theorems | `ApplyResources` |
| `Rollout` | the stages that wait, in the order of `apply` | |
| `RolloutProofs` | its theorems | `Rollout` |
| `SidecarInjection` | the webhook of deployments, `syncOnJaegerChanges`, the namespace reconciler, the clean-up | |
| `SidecarInjectionProofs` | its theorems | `SidecarInjection` |
| `Management` | abstract: what the operators promise about a CR | |
| `UpgradeRoutines` | the seven upgrade routines, on the options of a CR | |
| `Autodetect` | the detection of the cluster and the shared configuration | |
| `Strategy` | `normalize` and the three strategies | `UpgradeRoutines` |
| `Configuration` | start, detection, a pass, the webhook and the user on one CR | `Autodetect`, `Strategy` |
| `ConfigurationProofs` | its theorems | `Configuration` |
| `Certificates` | files, secrets and the script of the certificates | |
| `ElasticsearchStorage` | secrets, Elasticsearch object, node counts, the Elasticsearch controller | `Certificates` |
| `ElasticsearchStorageProofs` | its theorems | `ElasticsearchStorage` |
| `MCJaegerReconcile`, `MCApplyResources`, `MCSidecarInjection`, `MCConfiguration`, `MCElasticsearchStorage` | constants for TLC | |

`JaegerReconcile` and `Configuration` are two views of the same loop. The first has
every interleaving of several pods and abstracts what is written to the CR; the second
has one pod and one user, and the content. `ApplyResources`, `Rollout` and
`ElasticsearchStorage` open up the stages that are one step in both.

### Upgrade and JaegerReconcile

A version is its position in the semver order, 0 the empty version of a CR no operator
has processed. The spec of a CR is the number of the user's edit (`edit`), whether the
normalisation of the strategy has been stored (`norm`), and `mig`: for every upgrade
routine, how often it rewrote the flags. `res[k]` is what the objects of kind `k` were
rendered from.

`pc[p]` is the place of a pod in `bootstrap` / `Reconcile` / `apply`. Each API call is
one action, so everybody else can act between two of them:

| Action | Code |
|---|---|
| `StartupList`, `StartupPatch`, `StartupStatusPatch` | `upgrade.ManagedInstances`: list, patch, status patch (no resource version) |
| `ReconcileGet`, `ReconcileCheck` | the `Get`, `syncOnJaegerChanges`, `validate`, the operated-by label |
| `ReconcileAdopt`, `ReconcileAdoptFailed` | the `Update` that sets the label, and the status written when it fails |
| `ApplyUpgrade`, `ApplyCerts`, `ApplyCertsFailed` | `applyUpgrades` on the copy, the secrets of Elasticsearch |
| `ApplyStage` | one kind; `OnError` says what its error does: `fail`, `log` (console links), `finish` (autoscalers end `apply` with no error) |
| `StoreFailed`, `StoreInstance`, `StoreStatus` | the three writes after `apply` |

The API server is modelled by what the code relies on. An `Update` is refused unless
the copy is the latest (`fresh[p]`); a status update stores the status and nothing
else; an update stores everything else; a write that changes nothing sends no event;
any other queues the request in every watching pod (`pending`). A fault is any failure
of a call. Crashes lose the queue and the local variables; the informer of a restarted
pod lists the CR. Owner references are the `uid`: objects of a CR that is gone are
collected. What is rendered is rendered *before* `applyUpgrades` runs, as in the code:
the objects follow only because the write of the upgraded CR queues another pass.

### Management

The promise, without pods, queues, copies and resource versions: the user creates,
edits and deletes a CR; it gets a manager once and keeps it; only its manager works on
it. `JaegerReconcile` implements it (`ImplementsManagement`): `uid`, `owner` and `edit`
are those of the stored CR, and `working` is the set of operators that have a pod past
the owner check with a copy of this CR (`Working`). The mapping makes the interesting
part a safety property of the steps: a pod that goes on with a copy of a deleted CR, or
of one it lost the race for, is no step of `Management`.

### UpgradeRoutines, Autodetect, Strategy and Configuration

The options of a section are a set of records, one for each flag (`OneEach`, a part of
the type): the flag, the text of the user and the number of colons written in front of
it, which is all a routine adds (values are texts: `NewOptions` turns numbers into them
and keeps lists, which no renamed flag takes). `nested` has the flags of a section that
the user wrote in a nested object; `Flat` is what `NewOptions` leaves of it, and
`Rewritten` the sections that the routines write anew, changed or not. `Put` sets flags
over those of the same name. A table of
renamed flags is a set of pairs; the empty name that means "no new flag" is `NoFlag`, and
a field that is empty in the code is `"unset"`. `migrateDeprecatedOptions` and the
routines are operators on these sets; `ManagedInstance` composes those that are due. The
routine of 1.31 deletes the Elasticsearch object and is the only one that can fail: when
the call does, and whenever the cluster does not know the kind, since only NotFound is
ignored (`CanRemoveElasticsearch`, `RemovalFails`).

`Autodetect` has the `Background`: a discovery, the steps of the first run (platform,
versions of cron jobs and autoscalers, ingress class), the steps of every cycle (image
stream, Elasticsearch, Kafka, cluster roles). Every setter of the configuration takes
the lock for itself, so every one is a step. A discovery that fails leaves all as it
was; a failed call of the first run is never made again.

`Strategy` has `normalize` in the order of the code, split where it reads the platform,
and the three strategies as the manifest they build: exposure, proxy, Elasticsearch,
Kafka, deployments.

`Configuration` puts them together. `op.pc` is the place of the operator: the first
detection, `ManagedInstances`, then passes. A step of a pass runs from one read of the
shared configuration, or one call that others can see, to the next.

| Action | Code |
|---|---|
| `StartupList`, `StartupPatch`, `StartupStatusPatch` | `ManagedInstances` on the content: list, merge patch through the webhook, status patch |
| `ReconcileGet`, `NormalizeRest`, `newStrategy` | the first, second and third read of the platform |
| `CreateCronJob`, `autoProvisionElasticsearch`, `applyCronJobs` | the reads of the version of cron jobs; a job of another version is a panic (`Exit`) |
| `applyUpgrades`, `applyElasticsearches`, `applyKafkas`, `applyDeployments`, `applyExposure` | the stages that depend on the configuration |
| `StoreInstance`, `StoreStatus` | the two writes at the end of `Reconcile` |
| `Background` | a step of the detection or its ticker |
| `Environment`, `UserEdit`, `Crash` | operators installed and removed, the user, a restart |

`Default` is the mutating webhook: the set of CRs it may answer with, since it iterates
over a map. The patch at start-up may be refused without a fault, because the webhook has
`failurePolicy: Fail` and this process serves it only after the upgrade. `Patched` is the
JSON merge patch: a difference of two objects by their keys (`Key`), where a flag of a
nested object has the key of that object (`Group`). The upgraded copy is flat, so the
patch removes the nested objects it has listed with all that is in them by then. `Merged`
is the reference, a merge flag by flag, and `astray` the history of a patch that came out
otherwise. `TLSFlags` lists what the regular expressions of the webhook find among the
flags that the modules know. `fresh` says that nothing a pass reads has changed since the
last one began. `given` and `asked` are history: the CR found at the start and the CR as
the user last wrote it.

### Certificates and ElasticsearchStorage

A file is the authority it comes from and whether it is due for renewal.
`extractSecretsToFile`, `cert_generation` and `ExtractSecrets` are the three operators a
pass applies. `ElasticsearchStorage` runs them between the calls of a pass (`ListSecrets`,
`applySecrets` one secret at a time, `ListElasticsearches`, `applyElasticsearches`,
`applyDeployments`, `StoreInstance`), beside the Elasticsearch controller (`EsGet`,
`EsList`, `EsUpdate`) and the webhook, which reads `cached`. `stale` holds the copies
somebody has written over: an update from such a copy is a conflict. `torn` is history:
the operator stopped while the secrets of two authorities were mixed.

### Inventory and ApplyResources

An object is `spec` (what the strategy renders: the generation of the CR), `assigned` (a
value the cluster may have chosen: replicas, ClusterIP), `labels` (of the pod template,
from the CR), `selector` (of a workload) and `notes` (annotations of others). The API
server accepts a deployment or a daemon set only with the selector it was created with,
and only if the labels of the pods match it (`Accepts`). `Inventory` is the three-way
split all kinds share; the merge functions are what differs. `ApplyResources` runs the
stage of one kind for several instances at once. A behaviour is about one kind, chosen
initially. `queued[i]` is the request of an instance in the work queue: an edit puts it
there, and so does an error that `apply` returns; the errors of the kinds in `Logged`
(autoscalers, console links) do not. `Meddle` is another controller writing to an object.
`current[i]` are the listed objects nobody has written since: the update of any other is a
conflict. Each kind has an action of its own, with the list its function makes:
`ExistingIn` (in the namespace of the instance) or `ExistingAnywhere`.

### Rollout

The stages that wait, for one instance whose deployments change name (a change of
strategy). `Poll` is one evaluation of the poll's condition, `Timeout` its deadline:
allowed at any time the condition does not hold, since no wait is shorter than the
slowest controller. Deployments, Elasticsearch, Strimzi and jobs are controllers of
their own; the status of a new deployment counts zero replicas until its controller
has seen it.

### SidecarInjection

A deployment is its inject annotation, the label that says which instance it is
assigned to, and its container `jaeger-agent`: none, one of the user's own, or that of
an instance, made from some generation of its CR. `Handle` is the webhook as a function
from the deployment it is shown to the set of its answers (the list of instances it
picks from has no order); `Needed`, `Select`, `getJaeger`, `Sidecar` and `CleanSidecar`
are the functions of `pkg/inject`. It reads the caches `jcache` and `nscache`.

`SyncList` is the list of `syncOnJaegerChanges`, `NamespaceList` that of the namespace
reconciler, `CleanList` that of `cleanDeployments`; they read the server, not a cache.
`Write` is one `Update` of such a list. It goes through the webhook like any other write
and is refused when the deployment changed since the list. The reconcilers stop at the
first error and queue their request again, the clean-up logs it and goes on. The write
of a user (`UserDeployment`, then `UserStore`) is two steps, so that an instance or a
namespace can change between the answer of the webhook and the arrival of a new
deployment. A fault is a failed call, a webhook that does not answer (its
failurePolicy is Ignore) or a restart of the operator. `bare` is a deployment without
any annotation: `decorate` panics on it, so it gets no sidecar until the controller of
deployments has noted a revision on it.

The module is about an operator that watches all namespaces, with the namespace
reconciler switched on (it is off when the operator may not list namespaces). A deleted
CR goes at once: the operator sets no finalizers.

## 3. Runs

| Run | Question | Bounds |
|---|---|---|
| `reconcile_single` | does one operator pod converge, through failures, a crash and a change of its binary? `TypeOK`, `RunningMeansDeployed`, `QuietMeansConverged`, `EventuallySettled` | one pod, two binaries, one routine, four stages (one per kind of error handling, a failing one after the others), two edits (one invalid), two CRs in a row, two faults, one crash |
| `reconcile_operators` | do two operators, or two pods of one operator, of different versions, keep off each other, lose edits or skip a routine, and are they together what `Management` promises? `SingleManager`, `VersionImpliesMigrated`, `OwnerNeverStolen`, `EditNeverLost`, `ImplementsManagement` | three pods, two of one operator and one of another, of which any two are at work (`TwoAtWork`); one stage; two CRs in a row; up to two edits, failures and crashes, at most one failure and one crash; no Elasticsearch certificates |
| `reconcile_lost_upgrade` | *violation* of `VersionImpliesMigrated` when the list of secrets fails | as `reconcile_single` |
| `resources` | does every kind reach what the CR asks for, keeping what others wrote and leaving namesakes alone? `TypeOK`, `AppliedMeansDesired`, `ForeignUntouched`, `AssignedKept`, `EventuallyApplied` | all fifteen kinds for one instance with two edits, of the labels of the pods too; console links and secrets for two instances of one name with one edit; two objects, one foreign write, one fault |
| `resources_same_name` | *violation* of `ForeignUntouched` for cluster role bindings | the same two instances, no fault |
| `rollout` | is the order of the waits kept across time-outs and retries, and does the rollout end? `TypeOK`, `DeployedAfterDependencies`, `SomeDeployment`, `EventuallyRolledOut` | two faults, two removals, one more pass |
| `rollout_stability` | *violation* of `RemovedAfterStable`: the old deployment goes before the new one has a pod | no fault, no removal, one pass |
| `sidecar` | does every deployment end with the sidecar it should have, and is an agent of the user's own safe? `TypeOK`, `OwnAgentUntouched`, `SidecarKept`, `EventuallyClean`, `EventuallyHandled` | one instance, one deployment in another namespace, annotations absent, false or the name, two changes of anything, one fault, on top of any combination of instance, annotations and deployment |
| `configuration` | do detection, upgrade, normalisation and webhook end, at a migrated, normalised CR with the choices of its user? `TypeOK`, `QuietMeansNormalized`, `FlagsMigrated`, `ChoicesKept`, `EventuallyDetected`, `EventuallyQuiet` | an old OpenShift with Elasticsearch and a Kubernetes with Kafka; four CRs, the old one on both clusters, the one with explicit choices on OpenShift, the others on Kubernetes (streaming, 1.11 with deprecated flags, those of the storage nested, 1.20, one with explicit choices); edits of the storage nested, of the brokers flat; one fault, one event |
| `configuration_security` | *violation* of `ExposedMeansProtected` when the first discovery fails | the same, no event |
| `configuration_lost_edit` | *violation* of `StorageKept`: the patch of the start loses an edit | one CR of 1.11 with a nested deprecated flag, no fault, one event |
| `elasticsearch` | do secrets come from one authority, and do CR, object and deployments agree on the nodes? `TypeOK`, `SecretsAgree`, `NodeCountsAgree`, `AuthorityKept` | three scenarios (certificates; a cluster of its own; a shared one), counts 1 and 5, two events, one fault |

Why the bounds are enough to see the interesting cases. Ownership needs two writers and
one CR that is created, deleted and created again: two pods, two creations; the pods at
work are of one operator or of two (a pod that stays in `startup` does as good as not
exist, and the two of one operator are symmetric), and what may hit a pass, an edit, a
failed call or a crash, comes up to twice. Lost edits need a read, an edit and a write:
two edits give one in each order with a second write. A version can be skipped or recorded
twice with two versions and one routine. A fault followed by a fault while reporting it
needs two. Stages differ only in the handling of their error, hence one of each, and a
`fail` stage before and after the others. For a kind, one object to keep and one to
remove, created and updated across two edits, with a fault and a foreign write between
list and update. The bounds do not appear in the theorems, which hold for all values. The
races of sidecars are between one deployment on its way and one change of an instance or a
namespace, so two changes give both orders (that a write never hands a deployment to
another instance needs two: this half of `SidecarKept` is shown by its proof alone). In
`Configuration` the hazard is one change, of the cluster, the CR or the process, that
meets the many reads of a pass, and one failed call before the first pass; every CR of the
run starts another path (every routine, both provisionings, the three cron jobs). The
storage is edited in its nested form, the brokers flat, so that the merge patch meets both.
Certificates need an expiry or a loss and a restart after it; one and five nodes
take the two paths of `getNodes`, and differ from the default of three.

The violations are disagreements between the code and what it says of itself:

* **`reconcile_lost_upgrade`.** When the list of the secrets fails, `apply` writes the
  status of a copy whose version has already been moved, and the upgraded spec is
  dropped; the next pass finds its own version recorded and never upgrades.
* **`resources_same_name`.** Cluster role bindings are selected by the name of the
  instance without its namespace: an instance removes the binding of its namesake.
* **`configuration_security`.** A platform that is not detected reads as Kubernetes, so
  a pass after a failed first discovery stores security `none`; on OpenShift later passes
  take that for the choice of the user and expose the query without the proxy.
* **`rollout_stability`.** `applyDeployments` says that it waits for the new pods to
  stabilise before it removes old deployments. The wait compares the ready replicas with
  the replicas of the status, and 0 equals 0 in a deployment its controller has not seen:
  the old deployment is removed while the new one has no pod. What the code does keep is
  `SomeDeployment`: one of the two objects exists.
* **`configuration_lost_edit`.** The start lists a CR with options in a nested object `es`;
  the user adds `es.server-urls` to it; the patch of the start, which knows the options in
  their flat form, sets `es` to null. The Elasticsearch the user named is gone from the CR,
  and the instance counts as one the operator provisions Elasticsearch for.

`VersionImpliesMigrated` is checked in `reconcile_operators` without certificates, where it
holds.

Other behaviours of the code that the models contain and the properties leave room for:

* an older operator records its version over that of a newer one;
* the retry after a time-out of Elasticsearch goes on without it;
* a CR and its Elasticsearch object that got different counts at once swap them for ever,
  or a count the user just set is put back;
* setting `doNotProvision` on an instance deletes the cluster it has provisioned;
* stopping between the secrets of two authorities leaves a leaf of the old one for good;
* `detectElasticsearch` overrides an explicit `es-provision` (`detectKafka` does not);
* the routine of 1.28 sets a blank SAR so that `normalize` does not fill in the default
  one, but in a pass `normalize` comes first: when the patch at start-up is refused, an
  old instance gets the default SAR;
* `transformCollectorPorts` prefixes a port once more when the routines run again;
* the ingress of a platform that turned out to be OpenShift stays;
* the same patch, when an edit has made the webhook flatten the options between list and
  patch, removes a nested object that is not there any more and leaves the deprecated flags
  (`FlagsMigrated` and `ChoicesKept` except what follows such a patch: `astray`);
* a daemon set whose CR gets other labels, and a deployment whose CR loses a label it was
  created with, are refused by the API server for ever, and every pass fails (`Refused`);
* errors of the autoscalers and of the console links are logged and not retried;
* a self-provisioned instance older than 1.31 on a cluster without the kind Elasticsearch
  fails at every pass, because the routine of 1.31 has nothing it could call. (A client that
  has the kind cached after it was removed would see NotFound; this is left out.)

## 4. Fairness

`JaegerReconcile`: weak fairness of the reconciler and of the start-up upgrade of each
pod (a goroutine of the manager runs whenever its queue is not empty), of `Restart`
(the kubelet restarts a crashed container) and of the garbage collector. Each is
continuously enabled until taken. The user is not fair. Faults and crashes are bounded:
the liveness properties say what happens once they stop.

`ApplyResources`: weak fairness of the stage of each instance (one that failed with an
error that `apply` returns is queued again with back-off). `EventuallyApplied` excepts
what the API server refuses, and of the kinds whose errors are logged says that the stage
ends. `Rollout`: the same for the reconciler, and for the controllers it waits for;
without the latter nothing can be promised, as the code waits for them.
`SidecarInjection`: weak fairness of the informers, of the lists and writes of the three
writers, of the server and of the controller of deployments. `Resync` is the resync of the
informers (ten hours unless configured). It is fair, and it only happens when the
reconcilers are idle and the clean-up, which ticks every five seconds, has had a pass
during which nobody else wrote. Without it a deployment that was created while its
instance was could stay without a sidecar until the next change of the CR.

`Configuration`: weak fairness of the goroutine of the operator (its main goroutine, then
the worker of the controller) and of that of the detection, whose ticker fires for ever.
Users, clusters and crashes are not fair. `EventuallyQuiet` excepts a configuration that
ends up naming a kind the cluster does not serve: a failed detection of the cron job
version is never repaired, and the passes then fail for ever; so they do with an old
self-provisioned instance where the kind Elasticsearch is unknown. `ElasticsearchStorage` has
no fairness: its liveness is not promised by the code (two counts may be swapped for ever).

A time-out is always possible while a wait is not satisfied, so fairness of the
reconciler alone does not force progress: the liveness property holds because the
controllers get there in the end and retries find their work.

CHECK_DEADLOCK is off: when the bounds are used up and all is reconciled, the system
is at rest.

## 5. Proofs

**`JaegerReconcileProofs`**, for any set of pods, any list of stages and any bounds,
from `UpgradeAssumption` and `ReconcileAssumption`:
`TypeCorrect`, `SingleManagerHolds`, `OwnerNeverStolenHolds`, `EditNeverLostHolds` and
`ManagementImplemented`.

None of the last four is inductive. The inductive invariant `IInv` adds to the type
invariant: `NumbersInv` (the uid and the edit number of the CR have been given out, so a
new CR has a new uid and an edit a new number); `CopyInv` (the working copy keeps the
uid, owner and edit of what was read, and a pod past the owner check holds a copy that
names it); `FreshInv` (a copy that is still the latest agrees with the stored CR on these
fields, which is what the resource version promises) and `LabelInv` (a label once read is
the label of that CR for ever). `Write` is the only way the CR changes, so each action
has a lemma of its own that rests on a few facts about `Write`, `Return` and `Goto`. The
two action properties follow from `IInv` step by step.

`ManagementImplemented` is the refinement `Spec => ImplementsManagement`. `RefinesInit` maps the
initial states; `RefinesNext` maps a step. From `IInv`, the operators that work
are at most the owner of the CR (`WorkingOwner`), and nobody works when there is none
(`NobodyWorking`); `NextSplit` says that a step creates, edits or deletes the CR, or
leaves its existence and its content alone and at most gives it its first owner.

**`RolloutProofs`**, for any number of failures, removals and passes, from
`RolloutAssumption`: `TypeCorrect`, `DeployedAfterDependenciesHolds`,
`SomeDeploymentHolds`. The strengthening says, for every step of `apply`, what must
already be ready when it is reached and nothing has been removed, and that the old
deployment is removed only from the step after the wait. `SomeDeployment` is about the
objects; that one of them has a pod is what `rollout_stability` refutes.

**`JaegerVersionProofs`**: `VersionImpliesMigratedHolds`, for any pods and binaries, under
`Supported`: the instance needs no certificates, and no binary is older than the first
routine (`StartUpdates`). Both are needed. The first is the run `reconcile_lost_upgrade`;
without the second an instance older than all routines is stamped with the new version as
it is. The invariant compares, in every copy a pod holds, the version with the routines
that ran on that copy, and follows the two writes of a status: a pass writes the version
only after the spec it belongs to, or over a copy that was read with it.

**`JaegerConvergenceProofs`**: `RunningMeansDeployedHolds` and `QuietMeansConvergedHolds`,
for one pod (`Alone`) and any stages, edits, failures, crashes and changes of the binary.
Two pods of one operator write over each other's phase, so one pod is what the properties
are about. The invariant says of a pod at work that it saw the last write of the CR or has
its request queued again, that the stages it has been through are as it rendered them as
long as the CR it read exists, and that a CR re-created meanwhile cannot be taken for it.

**`ApplyResourcesProofs`**, for any instances, objects, edits and faults, from
`ResourcesAssumption` and `ObjectsAssumption`: `ResourcesTypeCorrect`, `AssignedKeptHolds`,
and under `Separate` `AppliedMeansDesiredHolds` and `ForeignUntouchedHolds`. `Separate`
says that no two instances whose cluster role bindings are looked at share a name;
`resources_same_name` is what happens otherwise. `ResourceInv` relates the plan of a stage
(what is still to be created, updated, deleted) to what is stored, and a request in the
queue to a generation that is not applied yet; `CompleteInv` says that
at every point what is stored, corrected by the rest of the plan, is what the CR asks for.

**`SidecarInjectionProofs`**, for any instances, deployments, changes and faults, from
`SidecarAssumption`: `SidecarTypeCorrect`, `OwnAgentUntouchedHolds`, `SidecarKeptHolds`.
`SidecarInv` says that label and container belong together in every deployment, also in
one on its way to the server, that a list holds what it read, and that a copy to be
cleaned that nobody has written over since is the deployment itself. The last is all that
protects a container of the user's own from the clean-up.

**`ElasticsearchStorageProofs`**, for any scenario, counts, failures, losses, expiries and
crashes, from `StorageAssumption` (sections and objects are well-formed; an object has at
most two groups of nodes, the number the operator makes): `StorageTypeCorrect`,
`SecretsAgreeHolds`, `AuthorityKeptHolds`, `NodeCountsAgreeHolds`. Two inductive invariants:

* `CertInv` for the certificates. `AgreeOK`: the files are complete and of one authority, or
  files and secrets together are, unless an operator stopped between two secrets (`torn`).
  `MasterOK`: a valid authority in its secret is the one in the files, if there are any, so
  the script has no reason for another one. `FilesOK`, `WritesOK`, `DoneOK` follow a pass
  from complete files, over secrets written one by one in any order, to four that agree;
  `KeyOK` is there because a key does not expire and is never renewed for that.
* `CountInv` for the nodes. CR and object agree, or somebody will look again: the cache is
  behind, a request of the Elasticsearch controller is queued, or it is at work (`Agree`).
  `EcOK` says that the count it carries is that of the object, or that it will run again;
  `PassOK` that a pass works on the stored CR or is queued again. A write that the webhook
  turns back into what is stored sends no event: `ArgumentsOK` holds all the same, because
  such a write can only undo the default of an empty count.

The total of the nodes is a recursive function; what it is for no, one and two groups is
proved by unfolding, which is why objects of more groups are left to TLC.

**`ConfigurationProofs`**, for any CRs the operator may find, any clusters, command lines,
failures and events, from `LatestAssumption` (the operator is newer than the last routine),
`AutodetectAssumption` and `ConfigurationAssumption` (clusters, command lines and CRs are
well-formed) and `StringsAssumption` (the flags the code writes are strings, which the prover
has no rule for): `ConfigurationTypeCorrect`, `ChoicesKeptHolds`, `FlagsMigratedHolds` and
`QuietMeansNormalizedHolds`. Most of the module are lemmas on the operators: what `Put`,
`migrateDeprecatedOptions`, each routine, `normalize`, `autoProvisionKafka`, the merge patch
and the webhook do to the type, to the flags a property watches and to the choices of the
user. Each theorem then has an inductive invariant of its own:

* `ConfigurationTypeCorrect`: `TypeOK` itself. That every section has each flag once is the
  part that takes lemmas: a routine renames, a patch puts differences on top of a newer CR
  and the webhook adds a flag, each of which could leave a flag twice.
* `ChoicesKept` is not inductive: "what is asked for is in the CR" does not go through a copy
  that is written back later. `ChoicesInv` uses `Keeps`, the same relation made transitive (a
  CR with brokers of the user is not provisioned, and stays so): from what is asked to the
  CR, and from the copy a pass has read to the one it works on. The store is refused unless
  the CR is what was read, so the two compose. The patch at start-up has no such
  protection. For the fields (`KeepsFields`) what saves it is that it only holds what the
  routines changed, and these touch none of the choices but an unset SAR. For the options
  (`KeepsOptions`) nothing does, as `configuration_lost_edit` shows: they are kept by a patch
  that comes out as `Merged` (`MergedOptions`), and nothing is claimed after one that does
  not (`astray`, which is never taken back).
* `FlagsMigrated` is about the final version, while the flags get there one routine and
  one write at a time. The invariant is `astray \/ FlagsInv`. `FlagsInv` says of every
  copy that each flag is migrated, or as it was and then the version is the old one
  (`Progress`); after the routines all are migrated (`AllNew`). An instance may be
  migrated twice, since the version is a write of its own: the second run finds no
  deprecated flag and keeps the values. The CR the patch is applied to may have been
  completed by the webhook or edited since; `Completes` says that it still has the flags
  the patch is relative to.
* `QuietMeansNormalized` needs to know where a pass is. `QuietInv` says that a pass whose
  request is not queued again has read the stored CR, and of one under which nothing has
  changed (`Steady`) that its copy is what `normalize` and the strategy make of what it read
  (`Prepared`), that its manifest is that of the copy (`Rendered`), and which stages have
  brought the objects in line with it. The end of the pass rests on two lemmas:
  `SameNormalized` (a pass whose copy came out as it was read, but for labels, has rendered
  what is stored) and `DefaultOfPrepared` (the webhook cannot turn what a pass changed back
  into what it had read, so a store that changes anything queues the request again).

**Only model-checked.** The liveness properties `EventuallySettled`, `EventuallyApplied`,
`EventuallyRolledOut`, `EventuallyClean`, `EventuallyHandled`, `EventuallyDetected` and
`EventuallyQuiet`: they need fairness and ENABLED, which are out of the prover's reach.
Every invariant and every action property of the runs that pass is proved, some under the
conditions named above (`Supported`, `Alone`, `Separate`).

## 6. Not modelled

* Rendering: it builds objects from the CR, and has no state. Accounts, config maps,
  services, autoscalers and daemon sets are kinds of `ApplyResources`, not of `Strategy`.
* Metrics, tracing, the command line and generated code.
* Leader election (off by default, `pkg/cmd/start`); two pods of one operator are
  therefore possible and modelled.
* The switch that leaves out the entry to log out of the menu, and entries of the UI
  options other than the archive button, the dependencies and the menu.
* A command that fails inside `cert_generation.sh`: a run of the script is one step.
* Truncation of names to 63 characters; instances of one namespace that share the secret
  `elasticsearch`; an operator that watches some namespaces only; an Elasticsearch
  operator installed after the start, whose counts the controller does not follow.
* The error of the autoscaler stage is swallowed by the code on purpose; the
  properties of `JaegerReconcile` are stated for the stages before it (`Reported`).
* Secrets of certificates that are not desired any more: an instance keeps its kind of
  certificates in a behaviour, so `ElasticsearchStorage` never has one to delete.

## 7. Plan

1. *(done)* `Upgrade`, `JaegerReconcile`: the control loop on the CR. Type correctness,
   ownership and lost edits proved.
2. *(done)* `Inventory`, `ApplyResources`: the stages. *(done)* `Rollout`: the waits,
   proved.
3. *(done)* `SidecarInjection`: webhook, namespace reconciler, `syncOnJaegerChanges`
   and clean-up on the deployments of users. Left: instances of the same name in two
   namespaces, an operator that watches some namespaces only, config maps copied beside
   a deployment, and deployments of the operator itself (`KindOf` other than `user`).
4. *(done)* `UpgradeRoutines`, `Autodetect`, `Strategy`, `Configuration`.
5. *(done)* `Certificates`, `ElasticsearchStorage`.
6. *(done)* `Management`, and the proof that `JaegerReconcile` implements it.
7. *(done)* Proofs of the safety properties of `JaegerReconcile`, `Rollout`,
   `ApplyResources`, `SidecarInjection` and `ElasticsearchStorage`.
8. *(done)* Proofs about `Configuration`: types, `ChoicesKept`, `FlagsMigrated` and
   `QuietMeansNormalized`.
