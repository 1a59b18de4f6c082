# A TLA+ model of the OGX operator

This directory holds TLA+ specifications of the OGX Kubernetes operator (the
root operator under `controllers/`, `pkg/` and `api/`, and the ODH-facing module
controller under `ogx-module/`), the TLC configurations that model-check them on
small instances, and proofs checked by TLAPS. `PROJECT.json` is the index: which
definition models which lines, what each run checks, what was found.

Paths below are relative to the repository's root.

## 1. The system

Two controllers, both built on controller-runtime, each a *level-triggered*
loop: read the custom resource (CR) from an informer cache, bring the cluster
closer to what it asks for, write back a status. What makes them hard is the same
in both: every read through the cache may be old, every call may fail, the
process may die between two calls, users and other controllers act in between,
and nothing but a requeue or a watched event runs the loop again.

### Components

| Component | State it keeps | Operations | Interacts with | Correct when |
|---|---|---|---|---|
| **OGXServer reconcile loop** (`ogxserver_controller.go`, `status.go`) | the CR's `status`; the work queue and requeue timers | `Reconcile`, `reconcileResources`, `handleSentinelErrors`, `updateStatus` | calls every other component in order, and stores the status they computed | a pass that failed half way is made good by a later one; status follows the world |
| **Praxis migration** (`migration_job.go`) | `status.migration`, five conditions, one `Job` | preflight, attempt key, create / observe / replace / delete the Job, opt out | Secrets, Job controller, users | the cutover gate opens only for an attempt that completed; no attempt is run twice; a requested migration ends |
| **Legacy adoption** (`legacy_adoption.go`) | owner references and labels of legacy PVC, Service, Ingress; three conditions; replicas of the legacy Deployment | adopt storage (scale down, wait, detach), adopt networking, clean up, choose the volume | garbage collector, legacy operator, the filtered cache of `main.go` | no data is lost, no volume is mounted twice, nobody else's object is touched, adoption and its undoing end |
| **Generated config** (`configmap_reconciler.go`) | hash-named ConfigMaps, `status.configGeneration` | create, mount, retain, delete | Deployment, its ReplicaSets and Pods | nothing in use is deleted; old ones go; the wanted one ends up mounted |
| **OGX module controller** (`ogx-module/internal/controller/ogx`) | the OGX CR with its finalizer and status; the root operator's manifests | add / clear the finalizer, deploy, clean up, check readiness, report | ODH platform, Deployment controller, OGXServers | deletion leaves nothing behind; it converges; it reports what is so |
| **Manifest rendering and apply** (`pkg/deploy`) | the server's objects | render, patch, create, update, delete excluded kinds | owners of existing objects | nobody else's object is overwritten; immutable fields stay |
| **Network exposure** (`network_resources.go`) | Ingress, NetworkPolicy | create, update, delete, tear down when unsafe | manifests, adoption | never exposed without what the spec asks for |
| **CA bundle** (`reconcileManagedCABundle` and its helpers in `ogxserver_controller.go`) | the managed CA ConfigMap | collect, validate, merge, hash | ODH's bundle, Deployment annotations | the mounted bundle has the present certificates, and Pods are rolled out for them |
| Praxis reachability (`praxis_preflight.go`) | two conditions | list the Praxis Pods, check the TLS Secret | status | the conditions follow the last pass |
| **Event routing** (predicates and map functions of `ogxserver_controller.go`) | none | which CRs an event wakes | informers | no relevant event is lost |
| **Config generation** (`pkg/config`, `controllers/configmap_reconciler.go`) | none (pure) | merge providers, assign identifiers, bind secrets, hash | generated config | what is written is served; references to Secrets resolve; identifiers do not collide |
| **Admission webhook, API types** (`api/v1beta1`) | none (pure) | validate | API server | what is admitted can be generated; edits let nothing unsafe in |
| TLS profile, start-up, `configgen`, `v1alpha1` types | none | wiring and I/O | | |

Components in bold have a module. They share three things: the CR's status, which each changes on the
pass's copy and `updateStatus` stores as a whole; the server's Deployment, whose
volume adoption chooses and whose config the generator names; and the cache,
which `main.go` restricts by label for several kinds.

### Where it is hard

`PROJECT.json` lists each hazard at its line. In short:

* **stale reads decide writes**: the cached status says whether to migrate
  again, the cached Pod list whether a volume is free, the cached ReplicaSets
  which ConfigMaps are in use, a re-read CR whether its finalizer may go;
* **last writer wins on the status**: `updateStatus` re-reads the CR and puts
  the pass's whole status on it, so a conflict is retried away and conditions of
  another pass can be lost;
* **several steps, any of which may fail**: scale down, wait, detach, label,
  mount; deploy object by object; delete oldest first;
* **other controllers in between**: the garbage collector while an object is
  adopted, the Job controller while a Job is replaced, the Deployment controller
  while ConfigMaps are cleaned up;
* **ownership known only from copies**: a manifest is checked live and patched a
  call later, an excluded kind or an Ingress is deleted by name because a cached
  copy said it was ours;
* **the order of steps matters when one fails for good**: an unsafe Ingress has to
  go although a missing ConfigMap ends every pass early;
* **two tables to be kept in sync**: the environment variables that carry Secrets
  and the references the generated config makes to them are computed apart, from
  names that normalise and may meet;
* **things that must eventually happen with few wake-ups**: the module
  controller is not requeued once ready, the OGXServer loop not after a terminal
  error.

## 2. The modules

| Module | Models | Lines of TLA+ |
|---|---|---|
| `Migration` | `controllers/migration_job.go`, framed by `Reconcile` and `updateStatus` | 560 |
| `MigrationGate` | abstract specification of the cutover gate | 30 |
| `MigrationProofs` | inductive invariants and theorems about `Migration` | 1320 |
| `Adoption` | `controllers/legacy_adoption.go`, the cache options of `main.go`, the choice of the volume | 580 |
| `AdoptionProofs` | inductive invariants and theorems about `Adoption` | 1340 |
| `GeneratedConfig` | the life of generated ConfigMaps and the rollouts that use them, the Deployment's part of `pkg/deploy/kustomizer.go` | 320 |
| `GeneratedConfigProofs` | inductive invariant and theorems about `GeneratedConfig` | 440 |
| `OgxModule` | `ogx-module/internal/controller/ogx/reconciler.go` | 360 |
| `OgxModuleProofs` | inductive invariant and theorems about `OgxModule` | 730 |
| `ServerPass` | a pass of the OGXServer loop: manifests, Ingress, CA bundle, hashes, events (`ogxserver_controller.go`, `network_resources.go`, `resource_helper.go`, `pkg/deploy/kustomizer.go`) | 560 |
| `ServerPassProofs` | inductive invariant and theorems about `ServerPass` | 830 |
| `ConfigGen` | `pkg/config`, the binding of Secrets in `controllers/configmap_reconciler.go`, the CEL rules and webhook of `api/v1beta1` | 670 |
| `ConfigGenProofs` | lemmas about the functions of `pkg/config`, theorems about admission and generation | 1130 |
| `MC*` | the small instances TLC checks | |

Conventions, the same in every module:

* **A pass is a sequence of actions**, one per point where another actor can
  intervene, that is one per read from or write to the API server whose outcome
  is used later. `pc` is where the pass is, `pass` its local variables. Two
  passes over one CR never overlap (controller-runtime guarantees it; there is
  one worker), a pass and everything else do.
* **The cache**: an object is either a sequence of versions, of which the first
  is what a cached read returns and the last what the API server stores, or a
  record `[api, seen]` where it does not matter which versions were skipped. An
  informer step moves the cache forward. A write based on an old copy conflicts.
* **Failures**: `CallFails`, `WriteStatusFails`, `StatusLost`, `Crash` and the
  failure branches of calls that work on several objects. They, and users' edits,
  are possible until `CalmDown`; liveness properties say what happens after it,
  if it ever comes.
* **History variables** (`completed`, `optedIn` and `owed` in `Migration`, `unguarded` in
  `OgxModule`, `fresh` in `GeneratedConfig`) are only written by the actions and only read by properties.
* `Mutant_*` definitions are the plausible bugs each property is known to catch;
  they are not used by the specification.

### Migration

`versions` holds the CR (`spec.praxisMode`, `status.migration` and its
conditions), `inputs` what the two connection Secrets hold, `job` the Job in the
API server, which the operator reads uncached. One pass: `Begin` (read the CR) →
`Dispatch` (is migration requested?) → `Preflight` → `migrationAttemptKey` (reads
the Secrets again) → `getMigrationJob` → one of `ActNotRequested`,
`ActExistingJob`, `ActNoJob` → `WriteStatus`. `observeMigrationJob`,
`markMigrationWaiting`, `clearMigrationState` and the other status helpers are
operators from status to status with the source's names.

*Abstracted*: a connection string is a model value and the attempt key the pair
of them (the hash is taken as free of collisions). The preflight's checks of
storage, runtime config, CA bundle and image fail either in the way a Secret does
that lacks its key (`Keyless`, when the attempt key does not repeat the check) or
that is absent (`Missing`, when it does), and a Get that fails during the
preflight is a preflight that fails. Events are left out. A Job deleted by the
operator stays, terminating, until its Pods are gone (foreground deletion); the
Pods themselves are not modelled. `owed` counts what justifies a Job: one at
first, one more for every opt-out, edit of a Secret and deletion of the Job by a
user, one less for every Job the operator creates.

`MigrationGate` is what somebody waiting for `PraxisCutoverReady` relies on:
attempts complete, and the gate is open only for an attempt that did. `Migration`
implements it with the refinement mapping `gate <- the stored attempt key while
the condition is True`, checked by TLC (`GateRefinement`) and proved.

### Adoption

`cr[o]` are the versions of OGXServer `o` (its two annotations and three
conditions), `objs[k, l]` the legacy PVC, Service and Ingress of LLSD `l`, `dep`
and `pods` its Deployment, `claim[o]` the volume that `o`'s own Deployment
mounts. One pass: `adoptLegacyResources` → `adoptStorage` →
`scaleDownLegacyDeployment` → `listLegacyPods` → `DetachPVC` →
`adoptLegacyService` → `adoptLegacyIngress` → `reconcileAllManifestResources` →
`cleanupAdoptedServices` → `cleanupAdoptedIngresses` → `updateStatus`, with the
early returns of the source: invalid annotations skip both adoptions, running
Pods end the pass with a requeue, an unexpected owner ends it with an error,
several labelled volumes with a terminal error.

*Abstracted*: an object is its owner, the adopted-from and instance labels,
whether it is being deleted, and whether it carries the label the cache selects
by (`SeenObject`). An annotation is an LLSD's name, absent, not a DNS label, or
the OGXServer's own name. Storage is taken as configured, and the server's
Deployment as its own: that of `MCServerPassOwner` would not be given the volume. The Service's selector
is left out.

### GeneratedConfig

A content stands for the ConfigMap named after its hash. `cms` holds the
ConfigMaps oldest first, `dep` what the Deployment's template mounts (a generated
content, the user's own ConfigMap or nothing), `owned` whether the Deployment
still has its owner reference, `rs` the contents of its ReplicaSets, `running` what Pods were started with. One pass:
`Begin` → `ensureGeneratedConfigMap` → `getGeneratedConfigMapHashByName` →
`ApplyDeployment` → `cleanupOldGeneratedConfigMaps` → `DeleteOld`, once for each
ConfigMap → `WriteStatus`. Clean-up lists the ConfigMaps and what refers to them in
one step and decides what to delete (`doomed`); the Deletes follow one at a time,
with everybody else in between. `Deletions` is what the loop deletes: the oldest
ones that are not protected and whose Delete does not fail, until enough are gone.
`ApplyDeployment` is what `patchResource` and `applyResourcePatch` do: a Deployment
that is not the OGXServer's is skipped without an error; one that mounts a config
and is to mount none is replaced by an Update that names no owner, and is skipped
from then on.
`fresh` records that clean-up saw the Deployment and its ReplicaSets as they were.
The Deployment controller rolls out (`RollOut`, `PodStarts`,
`OldPodsStop`, `HistoryPruned`); a Pod whose ConfigMap is missing cannot start.
The caches of the ConfigMaps and of the workload move independently of each
other, so clean-up may decide on any mixture of old and new.

### OgxModule

`versions` holds the OGX CR with its finalizer and status, `deployed` the
manifests that exist, `world` whether the Deployment is available and the
webhook's Secret there. `queue` is the work queue and the
ten-second timer: this controller is not run periodically, so what wakes it (a
new version of the CR, an owned object, an error, the timer) is modelled. One
pass: `Begin` → `ensureFinalizer` → `Deploy` → `CheckReadiness` or
`cleanupRootOperatorResources` → `updateStatus`, which re-reads the CR *into the
pass's copy* → `clearFinalizer`.

*Abstracted*: manifests are a set of objects; a run of the garbage collector that
succeeds counts as everything gone, although it only requests the deletions and
the objects' own finalizers may take time; the cache of Deployments is taken
as current; a CR that is gone is not created again; the health of OGXServers,
which the status also reports, is left out. `unguarded` records that a removing
pass cleared the finalizer of a CR that had been switched back to Managed.

### ServerPass

`spec` is what the CR asks for, `world` what users and the cluster provide (the
config and CA ConfigMaps, ODH's bundle, a provider's Secret, the monitoring CRDs,
the SCC ClusterRole), `store` the objects in the API server and `seen` the
cache's copies of those kinds that passes read as typed objects. `queue` is the
work queue's key and the requeue timer. One pass: `Start` →
`cleanupUnsafeOwnedIngress` → `reconcileOverrideAndCABundleConfigMaps` →
`reconcileGeneratedConfig` → `reconcileManagedCABundle` →
`reconcileAllManifestResources` (the context and what to exclude) →
`deleteExcludedResources`, kind by kind → `manageResource` and then
`createResource`, `replaceOwnedRoleBinding` or `applyResourcePatch`, kind by kind
in the kustomization's order → `reconcileIngress` → `updateStatus`. An error goes
straight to `updateStatus`; it is retried, a terminal one is not.

Two kinds of reads matter. Typed reads (`Visible`) come from a cache that lags
and, by `newCacheOptions`, holds only labelled objects: an object without the
label does not exist for them. Manifests are unstructured and are read live, but
are changed one call later, so anybody may act in between. A deletion goes by
name and deletes what is there; a replacement carries the resource version (or
the preconditions) of what was read; a server-side apply carries none, creates
what is gone and cannot remove what `Create` owns (`pinned`).

*Abstracted*: an object is its owner, a content (for a Deployment the hash
annotations of its template), its volumes and strategy. An apply sets the content
as a whole, although a hash annotation that `Create` wrote and that is not wanted
any more stays. Kinds that are handled
alike are represented by one, named in the module. A NetworkPolicy's rules are
the posture of the mode, the certificates of a ConfigMap one value that is
usable, absent or bad. Adoption, generated ConfigMaps and migration are steps of
the same pass with modules of their own. `pass.foreign` is a history variable:
what belonged to others, and was known, when the pass began.

### ConfigGen

`cr` is the stored OGXServer, `base` the config that the image's label or a
ConfigMap gives (usable, of an unsupported version, without parts, or absent),
`dep` what the last pass deployed: config and environment. `ValidateCreate` and
`ValidateUpdate` admit a submitted spec by the CEL rules (`SpecRules` and its
parts) and the webhook (`collectErrors`); `Reconcile` is a whole pass, which
generates (`GenerateConfig` with expansion, merging, storage, models, the list of
APIs and the Praxis changes) and renders the environment
(`collectProviderSecrets`); `ValidateDelete` removes the object and `EditBase`
changes the base. Everything but the five actions is pure: operators
with the source's names, over specs enumerated by the instance.

*Abstracted*: a name is the sequence of its words and separators, enough to tell
which names normalise to the same variable; settings are the keys of the group
they are in, since their values are passed on unchanged; the tables of provider
kinds have their default IDs and Secret fields. Patterns, lengths and numeric
bounds of single fields are left out. That the API server does not evaluate a CEL
rule again on an unchanged part of an update (validation ratcheting) is an
assumption about the cluster. `Init` allows an object that an older release
stored, which checked the schema, provider IDs and model references but neither
volumes nor external access (`AdmittedBefore`).

What specs look like is assumed of the constants (`IsSpec`): they have the schema's
fields and API types. Of a base config, which may be a ConfigMap that a user wrote,
nothing is assumed but that its names are among those the instance orders
(`IsBase`): `ParseBaseConfig` checks only its version and that it is a YAML file of
the right shape. It may have API types of its own, lack `kv_default`, and name
backends it does not have, in stores and in providers, as in the cases of
`pkg/config/config_test.go`.

## 3. What is model-checked

`tlc -config <cfg> <module>` in this directory; all runs end within five minutes
with two workers.

| Run | Checks | Shows |
|---|---|---|
| `MCMigration` | `TypeOK`, `CutoverImpliesCompleted`, `NeverOptedInUntouched`, `AttemptsNotDuplicated`, `ForeignJobUntouched`, `GateRefinement` | stale cache, failing calls, a crash anywhere and edits of the CR, Secrets and Job never open the gate for an attempt that did not complete, never make the operator create a Job that no act of a user calls for, never touch a CR that did not opt in; a Job of another owner that the pass has seen, or that appears where it saw none, is left alone |
| `MCMigrationLive` | `RequestedMigrationSettles`, `OptOutCleansUp` | once calm a requested migration becomes Validated or Failed, also past a stale or terminating Job; an opt-out ends without Job and with the gate closed for good |
| `MCAdoption` | `TypeOK`, `AdoptedSurvivesLegacyRemoval`, `UnexpectedOwnerUntouched`, `ScaledDownBeforeMount` | deleting the LLSD at any point of a pass takes no adopted object along that was not terminating already; other owners' objects are never changed; with valid annotations and Pods that stay down, the new Deployment never mounts the volume while legacy Pods run |
| `MCAdoptionLive` | `VolumeGetsAdopted`, `AdoptedVolumeKept`, `ReportedNetworkingCleanedUp` | with restarting Pods and failing calls the volume is adopted and reported in the end, is kept after its annotation is removed or damaged, and a reported adoption of networking is undone when its annotation goes |
| `MCGeneratedConfig` | `TypeOK`, `InUseConfigKept`, `RolloutConverges`, `StaleConfigsCollected` | clean-up that saw the workload as it was deletes nothing that is mounted, although rollouts go on between its Deletes; whatever the caches show, and with switches to the user's own config or to none, the wanted content ends up there and reported, running if the Deployment is still the server's, and what exceeds the retention is in use |
| `MCOgxModule` | `TypeOK`, `GoneMeansCleaned`, `ManagedConverges`, `RemovalCompletes` | the CR goes only after everything was removed, unless its finalizer was cleared after it had been switched back on; the event-driven loop ends where the CR asks it to |
| `MCServerPass` | `TypeOK`, `ForeignObjectsUntouched`, `ReplacedRoleBindingIsOwn`, `UnsafeIngressGoes`, `InternalServerNotExposed`, `ManifestsConverge`, `PresentInputsServed` | stale copies, failing calls and crashes at any step never make a pass touch somebody else's object that was known when it began; once calm the manifests, the exposure, the bundle and the Deployment's hashes are those of the present spec and inputs, and an unsafe Ingress goes even if every pass fails |
| `MCConfigGen` | `TypeOK`, `ServedAsWritten`, `ModelsHaveProviders`, `StorageHoldsTogether`, `DefaultConfigNotWidened`, `GrandfatheredStaysEditable`, `SafeStaysSafe` | for every kind of provider and choice of its Secrets, colliding custom names, and providers, models, storage and disabled APIs merged with twelve base configs, of which three do not fit together: what is admitted and generated has what was written, its references resolve to the right Secrets, and what the operator puts into its storage holds together; edits keep a safe object safe and an old one editable |

### Where the code and its documentation disagree

These runs state what a document, comment, message or test says, and TLC finds a
behaviour of the code that contradicts it. `PROJECT.json` quotes the lines.

| Run | Property | The behaviour |
|---|---|---|
| `MCMigrationReopen` | `ValidatedOpensCutover` | opt-out and opt-in after Validated leaves the phase Validated with the gate closed, for good |
| `MCAdoptionUnlabelled` | `ScaledDownBeforeMount` | legacy objects with the legacy operator's `managed-by` label are invisible to the filtered cache: nothing is scaled down, and the volume is mounted |
| `MCOgxModuleReport` | `RemovedReportIsTrue` | "resources were removed" is reported after a failed clean-up |
| `MCServerPassOwner` | `DeploymentKeepsItsOwner` | a full replacement (the user-config volume went, or storage was added) updates the Deployment without an owner reference: it is never patched again, and stays when the OGXServer is deleted |

### What the properties leave out on purpose

The models also show behaviours a reader might not expect. Where a property
would be false because of one, it names the case it excludes, and the hazard in
`PROJECT.json` says so:

* *Migration.* The Delete of a Job names it and carries no UID precondition: a
  foreign Job put in the place of an owned one between the read and the Delete is
  deleted (`ForeignJobUntouched` speaks of passes that did not read an owned
  Job). A pass on a cached status older than Validated, with the Job deleted by a
  user, runs the migration again, which `AttemptsNotDuplicated` counts to the
  deletion; the gate stays honest. Pods that outlive a Job a user deleted in the
  background may run beside the next Job's.
* *Adoption.* `adoptStorage` does not look at the deletion timestamp: a volume that
  is terminating when it is adopted, because its LLSD was deleted while Pods used
  it, is reported as adopted and goes once the Pods are gone
  (`AdoptedSurvivesLegacyRemoval` and `AdoptedVolumeKept` ask for one that is not
  terminating). An invalid networking annotation skips storage adoption while the
  volume is still chosen by the storage annotation (`ScaledDownBeforeMount` asks
  for valid ones). The Pod list is cached and may miss a Pod that has just
  started (the run has `Restarts = FALSE`). A stale pass may overwrite the
  condition that the clean-up of networking depends on
  (`ReportedNetworkingCleanedUp` asks for an operator that had caught up). A
  volume that does not exist is mounted all the same, and a second OGXServer that
  names the same LLSD mounts the volume labelled with the first.
* *Generated config.* When the workload's caches lag behind that of the
  ConfigMaps, a mounted ConfigMap can be deleted (`fresh` in
  `InUseConfigKept`); `RolloutConverges` shows that the wanted one is created again. A
  Deployment that went from a config to none has lost its owner: what the spec asks
  for later is generated, reported and never mounted (`owned` in `RolloutConverges`;
  the finding of `MCServerPassOwner`). The
  contents of old ReplicaSets are protected, so more than `Retention` may stay.
* *OGX module.* A module switched back on while it is removed loses its finalizer
  and is then deployed; deleting it later leaves everything to the cluster's
  collector (`unguarded` in `GoneMeansCleaned`).
* *Server pass.* The managed CA ConfigMap has no ownership check: it is updated and
  deleted whoever has it (`ForeignObjectsUntouched` leaves it out), and one
  without the operator's label, which the cache cannot see, makes every pass fail
  (`InputsUsable`). An object that took the name after the pass began may be
  deleted or patched: deletions carry no precondition and a server-side apply no
  UID, so the property speaks of what was known at the start; `replaceOwnedRoleBinding`
  does carry them (`ReplacedRoleBindingIsOwn`). A change of ODH's bundle alone
  rolls out nothing (`resolveCABundleHash` is empty without explicit
  certificates), only the mounted ConfigMap follows (`PresentInputsServed` says
  so); the `ca-bundle` volume that `Create` put there is never removed by an
  apply (hence `\subseteq` there); the order of ODH's keys is that of a Go map.
  A failed pass keeps the URL of the last good one. A Deployment without its
  owner (`MCServerPassOwner`) is not the server's any more and out of
  `PresentInputsServed`.
* *Config generation.* `status` reports Praxis's APIs as filtered also when a
  declarative spec disables all of them, and the list of APIs is then left out of
  the config altogether (`DefaultConfigNotWidened` asks for a spec without
  declarative parts). A pgvector provider without an ID and one with the ID
  `pgvector` have different IDs and the same persistence namespace. A generated
  variable may have the name of one that the Deployment sets for itself, such as
  `OGX_METRICS_PORT`. A pgvector provider of the spec asks for `kv_default` although
  the base config may not have it, `spec.storage` takes away the backends a base
  config's providers may use, and what dangles in a base config is passed on
  (`StorageHoldsTogether` excludes these three and nothing else). Without `spec.providers` the webhook checks no
  model (`ModelsHaveProviders`). The check of the distribution's name is not
  limited to what changed, so an object whose distribution was dropped cannot be
  edited (`GrandfatheredStaysEditable` asks for an update that would be allowed
  without the two newer checks).

### Bounds

* `MaxLag = 2`: the cache is at most one version behind before another edit (the
  operator's own write may add one more). One version is enough for a pass to
  start before, and write after, an edit or an earlier pass's write; two passes
  can still follow each other on old copies.
* `MaxEdits` = 1 to 3: how often users act. Each property says what it takes:
  opting out and in again is two, switching off, on and deleting three.
* Sets: one source and two or three destination connection strings (one of them
  equal to the source, which the preflight refuses; two usable ones make two
  attempts, needed where a stale Job is replaced); one OGXServer and one
  LLSD, objects that belong to the LLSD, to nobody or to somebody else; two
  contents with a retention and a ReplicaSet history of one, so that the second
  content is already beyond both (the code has two and the cluster's default); two
  manifests, of which one may fail while the other is applied.
* `ServerPass` is checked per scenario, each about inputs that interact: exposure
  with a config that may be missing for good; optional kinds with foreign objects
  of their names; CRDs and storage that come and go; the RoleBinding and its
  ClusterRole; config, CA and Secret inputs that appear, change, break and go;
  the bundle that others delete or whose name they take. Two edits, any number of
  failing calls and crashes before `CalmDown`, and a cache that lags by any
  number of the operator's own writes: an edit during the pass that follows
  another edit is the longest the properties need, since a pass reads everything
  anew.
* `ConfigGen` has no depth: its bound is the set of specs (every kind of provider
  with every subset of its optional Secrets; all pairs of custom providers over
  five IDs and five keys, chosen so that names meet; 576 combinations for merging
  with twelve bases) and one object that is edited.
* Deadlock is not checked: after `CalmDown` a system that has reached its goal
  may stop, and before it the bounds on edits stop the environment.

### Fairness

Weak fairness of a pass's steps and of beginning the next one. `Reconcile` of
the OGXServer asks to be requeued after 10 seconds, 15 seconds or 5 minutes, or
returns an error, which is retried with backoff; after a terminal error there is
no requeue, but the status it writes is an event. `Adoption` needs strong
fairness for `Begin(o)` because all OGXServers share one worker: the work queue
is first-in first-out, so none is passed over for ever. `OgxModule` and
`ServerPass` assume only that a queued request is worked off, that its timer
fires and that a pass runs to its end: in `ServerPass` a terminal error leaves no
timer, so only a modelled event starts the next pass. Informers catch up, the Job, ReplicaSet and
Deployment controllers and the garbage collector do their work. Nothing is
assumed of users, crashes or failing calls.

## 4. What is proved

Every invariant and every safety property of every passing run is a theorem, for
every value of the constants that meets the modules' `ASSUME`s, which TLC evaluates
on its instances. The theorems have the same shape: an inductive invariant
`IndInv`, one lemma per action that it is preserved (`InitOK`, `NextOK`), and from
it the property. TLC found no reachable state outside these invariants on the
instances of section 3 (for `ConfigGen` without the membership in `Submitted` and
`Bases`, which is slow to evaluate).

`MigrationProofs`, for every set of connection strings, every choice of specs and
every bound, from the assumptions on the constants in `Migration` (the special
values `Missing`, `Keyless`, `NoKey` and `ForeignKey` are different from the
ordinary ones, the bounds are natural numbers, users choose existing specs):

* `TypeCorrect == Spec => []TypeOK`
* `CutoverSafe == Spec => []CutoverImpliesCompleted`
* `ImplementsGate == Spec => GateRefinement`
* `NeverOptedInSafe == Spec => []NeverOptedInUntouched`
* `NotDuplicated == Spec => []AttemptsNotDuplicated`
* `ForeignJobSafe == Spec => ForeignJobUntouched`

`CutoverImpliesCompleted` speaks of the stored status only and is not inductive:
the next stored status is the copy a pass has carried since it read the cache,
changed according to a Job it read since. The inductive invariant `IndInv`
therefore says the same of every place a status can come from: each version the
cache has still to deliver (`VersionsOK`) and the copy of the running pass
(`PassOK`); and it says of the Job in the API server, and of the pass's copy of
it, that an owned Job's key is a real attempt key and that an owned Job that is
Complete is recorded in `completed` (`JobOK`). A pass that is about to act on a
request has a real key, because `migrationAttemptKey` fails when a Secret is
missing. Since `completed` only grows, what held of an old copy still holds
(`StableOK`). One lemma per status helper shows that it maps honest statuses to
honest statuses; one step per action combines them (`NextOK`). The refinement
follows from the invariant and the lemma that completions come one at a time and
leave the CR alone (`CompletionSteps`).

`NeverOptedInUntouched` needs a second invariant beside it (`OptInOK`): as long as
nobody opted in, no version the cache has to deliver and no copy of a pass asks for
a migration or has a status of one, no pass is about to act on a request, and no
Job is the OGXServer's. Then every step of `handleMigrationNotRequested` is one
that changes nothing. `ForeignJobUntouched` follows from what a pass remembers of the
Job it read.

`AttemptsNotDuplicated` is a counting argument (`OwedOK`): what is owed covers, at
any time, the Jobs the operator may still create if users do nothing more. That
number (`Need`) is 0 when the Job is there, owned, not being deleted, and current or
Complete, and the running pass knows nothing older (`Settled`); 2 when a pass is
about to create a Job for Secrets that have changed since, which the next one
replaces (`Outdated`); and 1 otherwise. An opt-out that a cached copy has not shown
yet makes the operator delete a Job later, so each one in the versions still to be
delivered (`OptOuts`), and the one a running pass has missed (`MissedOptOut`), counts
one more. A crash between creating the Job and storing Running changes nothing in
this, because the next pass finds the Job itself.

`ServerPassProofs`, for every set of scenarios whose specs, worlds and objects
have their types and every bound on edits:

* `TypeCorrect == Spec => []TypeOK`
* `ForeignUntouched == Spec => ForeignObjectsUntouched`
* `ReplacedOwn == Spec => ReplacedRoleBindingIsOwn`

`TypeOK` alone says that a pass has a kind at hand when it applies one, which
needs to know that the Deployment is never excluded while the excluded kinds are
deleted (`TodoOK`). That no step writes a foreign object needs both sources of a
decision to be right about ownership: what is marked foreign stays foreign and
known to the cache until somebody else changes it, when the mark goes
(`ForeignOK`), so a cached copy that says "ours" is not of a marked object; and
the kind that is about to be created, replaced or patched is not a marked one,
since the live read before said that it is ours or absent (`TodoOK`). The three
ends steps share (`Goto`, `Error`, `Done`) have a lemma each, then each action
one, and `NextOK` combines them.

`OgxModuleProofs`, for every set of manifests and every bound:

* `TypeCorrect == Spec => []TypeOK`
* `GoneGuarded == Spec => []GoneMeansCleaned`

A CR can only go when its finalizer is cleared, so what has to be inductive is that
the stored CR has its finalizer while anything is deployed (`DeployedGuarded`).
That rests on the running pass: from the moment it may deploy, the finalizer is in
the stored CR (`PassGuarded`), which it knows from its own write or from a cached
version, hence the same of every version still in the cache (`VersionsGuarded`);
and it clears the finalizer only after it removed everything (`CleanedUp`), when no
version from which a later pass could deploy is still to come
(`ClearsWhatItRead`). Each part says `~unguarded`, the case
the property leaves out.

`AdoptionProofs`, for any number of OGXServers and LLSDs and every bound, assuming
that the special owners of the model are no OGXServers (`ServerAssumption`):

* `TypeCorrect == Spec => []TypeOK`
* `AdoptedSurvives == Spec => AdoptedSurvivesLegacyRemoval`
* `UnexpectedOwnerSafe == Spec => UnexpectedOwnerUntouched`
* `ScaledDownSafe == ASSUME Labelled, ~Restarts PROVE Spec => ScaledDownBeforeMount`

The second and third rest on `OwnersOK`: an adopted object has lost its legacy
owner, and what the cache has seen in the hands of an OGXServer still is, or is
gone; so a Delete by name, decided on a cached copy, hits nobody else's object. The
last one needs to know, across passes, where the wait for the Pods was: the legacy
workload only goes down and the cache lags behind it (`WorkloadQuiet`), a volume
that is adopted or gone, live or in the cache, has no Pods on it (`VolumeQuiet`),
nor has the one a pass is about to detach or to mount (`PassQuiet`). Its two hypotheses are the settings of
the run: without the cache's label the property is false (`MCAdoptionUnlabelled`),
and with somebody who restarts the legacy Pods nothing the operator does can
establish it, since the list of Pods is cached.

`GeneratedConfigProofs`, for every set of contents, retention, history limit and
bound:

* `TypeCorrect == Spec => []TypeOK`
* `InUseKept == Spec => InUseConfigKept`

The Deletes come after the read that decided on them, so the invariant has to say
why what was not in use then is not in use now: only the pass itself changes the
Deployment's template, rollouts can only lead to what that has, and what is doomed
is neither this, nor what the pass wants, nor the content of any ReplicaSet
(`Spared`), to which all running Pods belong (`PodsOwned`). Four lemmas say what removing, appending and cutting do to sequences
of different elements.

`ConfigGenProofs`, for every set of specs and of base configs, on what section 2
assumes of them:

* `SafeForGood == Spec => SafeStaysSafe`
* `TypeCorrect == Spec => []TypeOK`
* `Grandfathered == Spec => []GrandfatheredStaysEditable`
* `NotWidened == Spec => []DefaultConfigNotWidened`
* `ModelsServed == Spec => []ModelsHaveProviders`
* `StorageTogether == Spec => []StorageHoldsTogether`
* `AsWritten == Spec => []ServedAsWritten`

`Safe` is not an invariant, since an older release may have stored something
unsafe; `SafeForGood` says that no admitted request makes a safe object unsafe,
although the webhook and ratcheting look only at what changed. For the others the
invariant only has to remember where things came from: what is stored was admitted,
now or before, and what is deployed is `Deployed(s, b)` of such a spec and of a base
config (`Stored`, `WellDeployed`). The rest are lemmas about functions. A config
comes about in two ways, generated or taken over (`ConfigFrom`). An entry of the
merged config is the base's or the spec's, and the spec's are all there
(`MergedFrom`, `MergedHas`). Storage made from the spec has both default backends and
no other, its stores and the spec's providers use only these (`AppliedStorage`,
`SpecBackend`), and Praxis mode adds at most one store, on a SQL backend that is
there, to whatever it is given (`SQLBackend`, `PraxisStorage`). For every kind of provider the tables of the
API types, of `IDs()`, of the expanders and of the collectors agree
(`TablesInSync`), so that each reference has a variable (`SecretsReferred`), and the
check for collisions makes each variable's Secret the one it was collected with
(`Bound`).

Only model-checked, because fairness and `ENABLED` are out of the prover's reach,
is liveness: `RequestedMigrationSettles`, `OptOutCleansUp`; `VolumeGetsAdopted`,
`AdoptedVolumeKept`, `ReportedNetworkingCleanedUp`; `RolloutConverges`,
`StaleConfigsCollected`; `ManagedConverges`, `RemovalCompletes`;
`UnsafeIngressGoes`, `InternalServerNotExposed`, `ManifestsConverge`,
`PresentInputsServed`.

## 5. Not modelled, and the plan

Left out for good, and why:

* the kustomize transformers, image parameter overrides and releases list, which
  are text processing; PEM parsing; the `configgen` command, which runs the same
  validation and generation as `ConfigGen` on files; the `v1alpha1` types;
* `resolver.go` and `oci_fetcher.go`, which fetch an image's label from its
  registry: what they return is a base config or none. The reconciler keeps one
  resolver, whose cache only holds references pinned by digest, so that nothing in
  it gets stale;
* `ApplyDeployment`, `ApplyNetworkPolicy` and `HandleDisabledNetworkPolicy` of
  `pkg/deploy`, which the operator does not call;
* the TLS profile, which is read at start-up and ends the process on a change;
* Praxis reachability and the server's health, providers and version: they are
  read at the end of a pass and reported, and nothing else reads the report;
* generated code (`zz_generated.deepcopy.go`).

Owner-reference garbage collection, the Job and Deployment controllers and the
informers are external: modelled as the code relies on them.

A migration Job mounts a generated ConfigMap that clean-up does not protect. The
attempt key contains that ConfigMap's name and fingerprint, so a Job that waits
for a superseded one is no longer current and is replaced
(`RequestedMigrationSettles`); the two modules are not composed for it.

Still to come:

1. Safety facts behind the liveness properties, stated and proved: that a pass of
   `ServerPass` without failures leaves the objects the spec asks for, and that a
   settled state of `GeneratedConfig` or `OgxModule` stays settled.
2. An abstract "set of objects of ours" that `ServerPass` implements once calm.
3. The selector and endpoints of an adopted Service.
