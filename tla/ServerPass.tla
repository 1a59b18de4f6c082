------------------------------- MODULE ServerPass -------------------------------
(***************************************************************************)
(* One OGXServer and the passes of its reconcile loop                      *)
(* (controllers/ogxserver_controller.go, network_resources.go,             *)
(* resource_helper.go and pkg/deploy/kustomizer.go): which objects a pass  *)
(* creates, patches, replaces and deletes, from which copies of them, and  *)
(* what it does when a call fails.                                         *)
(*                                                                         *)
(* A pass is split at its calls to the API server.  Reads of typed objects *)
(* come from a cache that only holds labelled objects and lags behind;     *)
(* manifests are read as unstructured objects, which bypass the cache.     *)
(* Adoption, generated ConfigMaps and migration are steps of the same pass *)
(* and have modules of their own (Adoption, GeneratedConfig, Migration).   *)
(***************************************************************************)
EXTENDS Naturals, Sequences

CONSTANTS
    Scenarios,  \* what may happen in one behaviour: [specs, worlds, stores, touched]
    MaxEdits    \* bound: things users and other controllers do

ASSUME EditsAssumption == MaxEdits \in Nat

VARIABLES
    scenario,  \* the member of Scenarios this behaviour is about
    spec,      \* the stored spec of the OGXServer
    world,     \* what users and the cluster provide: ConfigMaps, CRDs, ClusterRole
    store,     \* the objects as the API server has them
    seen,      \* the objects as the cache has them
    status,    \* [phase, url] as last written
    queue,     \* [key, timer]: is the CR in the work queue, is a requeue pending
    pc,        \* where the pass is
    pass,      \* its local variables
    edits      \* things that happened so far; more than MaxEdits once all is calm

vars == <<scenario, spec, world, store, seen, status, queue, pc, pass, edits>>

Calm == edits > MaxEdits

(* The kustomization's order.  Kinds handled alike are represented by one: *)
(* ServiceAccount and Service by NetworkPolicy when it is enabled, the     *)
(* HorizontalPodAutoscaler by the PodDisruptionBudget, the PrometheusRule  *)
(* by the ServiceMonitor.                                                  *)
Order == [PersistentVolumeClaim |-> 1, NetworkPolicy |-> 2, Deployment |-> 3,
          PodDisruptionBudget |-> 4, RoleBinding |-> 5, ServiceMonitor |-> 6]
Manifests == DOMAIN Order
First(kinds) == CHOOSE k \in kinds : \A j \in kinds : Order[k] <= Order[j]
Optional == {"NetworkPolicy", "PodDisruptionBudget", "ServiceMonitor"}
(* "Bundle" is the managed CA bundle ConfigMap.                            *)
Kinds == Manifests \cup {"Ingress", "Bundle"}
(* The kinds passes read from the cache.                                   *)
Cached == Optional \cup {"Ingress", "Bundle"}
(* Owns() of SetupWithManager: an event on one of ours queues the CR.      *)
(* (Events on the kinds that are not in Cached only start passes sooner.)  *)
Owned == Cached \ {"ServiceMonitor"}

Specs == [praxis: BOOLEAN, expose: {"off", "unsafe", "safe"}, wants: SUBSET Optional,
          config: {"none", "override", "base"}, ca: BOOLEAN, storage: BOOLEAN]
(* A ConfigMap or Secret without the watch label is not in the cache: it   *)
(* is missing.  The Secret is one that the providers of a base config use. *)
Worlds == [cm: {"missing", "keyless", "invalid", "v1", "v2"},
           ca: {"missing", "keyless", "bad", "c1", "c2"},
           odh: {"missing", "empty", "bad", "x1"}, secret: {"missing", "s1", "s2"},
           crds: BOOLEAN, role: BOOLEAN]

(* self: controlled by this OGXServer; peer: by another one, labelled too; *)
(* stranger: without the operator's label; nobody: labelled, no controller.*)
Owners == {"none", "self", "peer", "stranger", "nobody"}
Volumes == {"user-config", "ca-bundle", "ca-bundle-source"}
(* ver stands for the content (for a Deployment, its hash annotations),    *)
(* pinned for the volumes whose field manager is the one of Create.        *)
Plain(ver) == [owner |-> "none", ver |-> ver, vols |-> {}, pinned |-> {}, recreate |-> FALSE]
Absent == Plain(<<>>)
Texts == {"missing", "keyless", "invalid", "v1", "v2", "bad", "c1", "c2", "x1", "s1", "s2",
          "none", "default", "current", "older", "praxis", "open", "safe", "theirs"}
Objects == {o \in [owner: Owners, ver: Seq(Texts), vols: SUBSET Volumes,
                   pinned: SUBSET Volumes, recreate: BOOLEAN] : o.pinned \subseteq o.vols}
Owner(o, who) == [o EXCEPT !.owner = who]
Exists(o) == o.owner # "none"
Mine(o) == o.owner = "self"

(* What a typed read returns: the cache's label selector hides strangers.  *)
(* The monitoring types have no selector.                                  *)
Visible(k) ==
    IF seen[k].owner = "stranger" /\ k # "ServiceMonitor" THEN Absent ELSE seen[k]

NoPass == [spec |-> [praxis |-> FALSE, expose |-> "off", wants |-> {}, config |-> "none",
                     ca |-> FALSE, storage |-> FALSE],
           excluded |-> {}, todo |-> {}, deployment |-> Absent, found |-> Absent,
           result |-> "ok", foreign |-> {}]
Passes == [spec: Specs, excluded: SUBSET Kinds, todo: SUBSET Manifests, deployment: Objects,
           found: Objects, result: {"ok", "failed", "terminal"}, foreign: SUBSET Kinds]

ASSUME ScenariosAssumption ==
    \A s \in Scenarios : /\ s.specs \subseteq Specs /\ s.worlds \subseteq Worlds
                         /\ s.stores \subseteq [Kinds -> Objects] /\ s.touched \subseteq Kinds

----------------------------------------------------------------------------
(* The steps of a pass.                                                    *)

At(step) == pc = step
Put(k, o) == store' = [store EXCEPT ![k] = o]
UnchangedOutside == UNCHANGED <<scenario, spec, world, seen, edits>>
(* To the next step of the pass, with the objects left as they are or not. *)
Goto(step) == pc' = step /\ UNCHANGED <<pass, status, queue>> /\ UnchangedOutside
(* An error ends the pass: the status is written, then the CR is requeued. *)
Error(result) ==
    /\ pc' = "status"
    /\ pass' = [pass EXCEPT !.result = result, !.todo = {}]
    /\ UNCHANGED <<store, status, queue>> /\ UnchangedOutside

Start ==
    /\ At("idle")
    /\ queue.key \/ queue.timer
    /\ queue' = [key |-> FALSE, timer |-> FALSE]
    /\ pass' = [NoPass EXCEPT !.spec = spec,
                !.foreign = {k \in Kinds \ {"Bundle"} :
                    /\ store[k].owner \in {"peer", "stranger"}
                    /\ k \in Cached => seen[k] = store[k]}]
    /\ pc' = "unsafe"
    /\ UNCHANGED <<store, status>> /\ UnchangedOutside

externalAccessRequested(s) == s.expose # "off"
externalAccessIsSafeToExpose(s) == s.expose = "safe"

Mutant_handleDisabledIngress(next) ==
    /\ IF Exists(Visible("Ingress")) THEN Put("Ingress", Absent) ELSE UNCHANGED store
    /\ Goto(next)

(* Deletes go by name: what is there is deleted, whatever the cache showed.*)
handleDisabledIngress(next) ==
    /\ IF Mine(Visible("Ingress")) THEN Put("Ingress", Absent) ELSE UNCHANGED store
    /\ Goto(next)

Mutant_cleanupUnsafeOwnedIngress ==
    /\ At("unsafe")
    /\ UNCHANGED store
    /\ Goto("config")

cleanupUnsafeOwnedIngress ==
    /\ At("unsafe")
    /\ IF \/ pass.spec.praxis
          \/ ~externalAccessRequested(pass.spec)
          \/ externalAccessIsSafeToExpose(pass.spec)
       THEN UNCHANGED store /\ Goto("config")
       ELSE handleDisabledIngress("config")

(* Base, override and CA ConfigMaps must be there with their keys.         *)
Unreadable(input) == input \in {"missing", "keyless"}
reconcileOverrideAndCABundleConfigMaps ==
    /\ At("config")
    /\ IF \/ pass.spec.config # "none" /\ Unreadable(world.cm)
          \/ pass.spec.ca /\ Unreadable(world.ca)
       THEN Error("failed")
       ELSE UNCHANGED store /\ Goto("generate")

(* The base is read again.  If it has gone meanwhile, the error is         *)
(* terminal; if it does not parse, an ordinary one.                        *)
reconcileGeneratedConfig ==
    /\ At("generate")
    /\ IF pass.spec.config # "base" THEN UNCHANGED store /\ Goto("bundle")
       ELSE IF Unreadable(world.cm) THEN Error("terminal")
       ELSE IF world.cm = "invalid" THEN Error("failed")
       ELSE UNCHANGED store /\ Goto("bundle")

(* A bad ODH key is skipped, a bad explicit one is an error.               *)
hasODHTrustedCABundle == world.odh # "missing"
hasAnyCABundle(s) == s.ca \/ hasODHTrustedCABundle
gatherCABundleData(s) ==
    (IF s.ca /\ world.ca \in {"c1", "c2"} THEN <<world.ca>> ELSE <<>>)
        \o (IF world.odh = "x1" THEN <<"x1">> ELSE <<>>)
BundleError(s) ==
    \/ s.ca /\ world.ca \in {"missing", "keyless", "bad"}
    \/ gatherCABundleData(s) = <<>>

reconcileManagedCABundleConfigMap ==
    LET data == Plain(gatherCABundleData(pass.spec))
        cached == Visible("Bundle")
        now == store["Bundle"] IN
    IF BundleError(pass.spec) THEN Error("failed")
    ELSE IF ~Exists(cached)
    THEN IF Exists(now) THEN Error("failed")
         ELSE Put("Bundle", Owner(data, "self")) /\ Goto("render")
    ELSE IF cached.ver = data.ver THEN UNCHANGED store /\ Goto("render")
    ELSE IF ~Exists(now) THEN Error("failed")
         ELSE Put("Bundle", Owner(data, now.owner)) /\ Goto("render")

reconcileManagedCABundle ==
    /\ At("bundle")
    /\ IF hasAnyCABundle(pass.spec) THEN reconcileManagedCABundleConfigMap
       ELSE /\ IF Exists(Visible("Bundle")) THEN Put("Bundle", Absent) ELSE UNCHANGED store
            /\ Goto("render")

(* Praxis mode generates a config of its own when there is no override.    *)
HasRuntimeConfig(s) == s.config # "none" \/ s.praxis
resolveConfigMapHash(s) ==
    <<IF s.config # "none" THEN world.cm ELSE IF s.praxis THEN "default" ELSE "none">>
(* The hash of the cached bundle, only for explicit CA certificates.       *)
resolveCABundleHash(s) == IF s.ca THEN Visible("Bundle").ver ELSE <<>>
resolveSecretRefsHash(s) == IF s.config = "base" THEN <<world.secret>> ELSE <<>>

addConfigMapAnnotations(s) ==
    resolveConfigMapHash(s) \o resolveCABundleHash(s) \o resolveSecretRefsHash(s)

configurePodStorage(s) ==
    (IF HasRuntimeConfig(s) THEN {"user-config"} ELSE {})
        \cup (IF hasAnyCABundle(s) THEN {"ca-bundle"} ELSE {})

(* The Deployment as it is to be; a single writer of a volume is recreated.*)
buildManifestContext(s) ==
    [owner |-> "none", ver |-> addConfigMapAnnotations(s), vols |-> configurePodStorage(s),
     pinned |-> {}, recreate |-> s.storage]

determineKindsToExclude(s) ==
    (Optional \ s.wants)
        \cup (IF s.storage THEN {} ELSE {"PersistentVolumeClaim"})
        \cup (IF world.crds THEN {} ELSE {"ServiceMonitor"})

reconcileAllManifestResources ==
    LET out == determineKindsToExclude(pass.spec) IN
    /\ At("render")
    /\ IF pass.spec.config = "base" /\ world.secret = "missing" THEN Error("failed")
       ELSE /\ pc' = "delete"
            /\ pass' = [pass EXCEPT
                   !.excluded = out, !.deployment = buildManifestContext(pass.spec),
                   !.todo = out \cap Optional]
            /\ UNCHANGED <<store, status, queue>> /\ UnchangedOutside

Mutant_Done ==
    /\ pc' = "apply"
    /\ pass' = [pass EXCEPT !.todo = @ \ {First(@)}]
    /\ UNCHANGED <<status, queue>> /\ UnchangedOutside

(* The first of the kinds left to delete or apply is done with.            *)
Done ==
    /\ pc' = IF pass.todo = {First(pass.todo)} THEN "ingress" ELSE "apply"
    /\ pass' = [pass EXCEPT !.todo = @ \ {First(@)}]
    /\ UNCHANGED <<status, queue>> /\ UnchangedOutside

Mutant_deleteExcludedResources ==
    /\ At("delete")
    /\ pc' = "apply"
    /\ pass' = [pass EXCEPT !.todo = Manifests \ pass.excluded]
    /\ UNCHANGED <<store, status, queue>> /\ UnchangedOutside

deleteExcludedResources ==
    LET k == First(pass.todo) IN
    /\ At("delete")
    /\ IF pass.todo = {}
       THEN /\ pc' = "apply"
            /\ pass' = [pass EXCEPT !.todo = Manifests \ pass.excluded]
            /\ UNCHANGED <<store, status, queue>> /\ UnchangedOutside
       ELSE IF Mine(Visible(k)) /\ (k = "ServiceMonitor" => world.crds)
       THEN IF Exists(store[k])
            THEN /\ Put(k, Absent)
                 /\ pass' = [pass EXCEPT !.todo = @ \ {First(@)}]
                 /\ UNCHANGED <<pc, status, queue>> /\ UnchangedOutside
            ELSE Error("failed")
       ELSE /\ pass' = [pass EXCEPT !.todo = @ \ {First(@)}]
            /\ UNCHANGED <<store, pc, status, queue>> /\ UnchangedOutside

(* The user's rules are added to those for the Praxis gateway and the      *)
(* operator, or else replace the default ones.                             *)
applyNetworkPolicySpec(s) == <<IF s.praxis THEN "praxis" ELSE "open">>

Desired(k) ==
    CASE k = "Deployment" -> pass.deployment
      [] k = "NetworkPolicy" -> Plain(applyNetworkPolicySpec(pass.spec))
      [] OTHER -> Plain(<<"current">>)

(* The live copy decides: create, leave alone, or change.                  *)
manageResource ==
    LET k == First(pass.todo) IN
    /\ At("apply")
    /\ IF k = "RoleBinding" /\ ~world.role THEN UNCHANGED store /\ Done
       ELSE IF k = "ServiceMonitor" /\ ~world.crds THEN Error("failed")
       ELSE IF Exists(store[k]) /\ ~Mine(store[k]) THEN UNCHANGED store /\ Done
       ELSE /\ pc' = IF ~Exists(store[k]) THEN "create"
                     ELSE IF k = "RoleBinding" /\ store[k].ver # Desired(k).ver THEN "replace"
                     ELSE "patch"
            /\ pass' = [pass EXCEPT !.found = store[k]]
            /\ UNCHANGED <<store, status, queue>> /\ UnchangedOutside

createResource ==
    LET k == First(pass.todo) IN
    /\ At("create")
    /\ IF Exists(store[k]) THEN Error("failed")
       ELSE /\ Put(k, [Desired(k) EXCEPT
                        !.owner = IF k = "PersistentVolumeClaim" THEN "nobody" ELSE "self",
                        !.pinned = Desired(k).vols])
            /\ Done

Mutant_replaceOwnedRoleBinding ==
    /\ At("replace")
    /\ Put("RoleBinding", Absent)
    /\ Goto("create")

(* roleRef is immutable: delete what was read, and nothing else, and       *)
(* create it anew.                                                         *)
replaceOwnedRoleBinding ==
    /\ At("replace")
    /\ IF store["RoleBinding"] \in {pass.found, Absent}
       THEN Put("RoleBinding", Absent) /\ Goto("create")
       ELSE Error("failed")

(* A server-side apply cannot remove what Create put there, and creates an *)
(* object that is gone.                                                    *)
Applied(o, want) ==
    IF ~Exists(o) THEN Owner(want, "nobody")
    ELSE [owner |-> o.owner, ver |-> want.ver, vols |-> want.vols \cup o.pinned,
          pinned |-> o.pinned, recreate |-> want.recreate \/ o.recreate]

deploymentNeedsFullReplacement(want, o) ==
    \/ "ca-bundle-source" \in o.vols
    \/ "user-config" \in o.vols \ want.vols
    \/ want.recreate /\ ~o.recreate

(* A volume claim is immutable.  The replacement of a Deployment has the   *)
(* resource version that was read, and no owner reference.                 *)
applyResourcePatch ==
    LET k == First(pass.todo)
        o == store[k] IN
    /\ At("patch")
    /\ IF k = "PersistentVolumeClaim" THEN UNCHANGED store /\ Done
       ELSE IF k = "Deployment" /\ deploymentNeedsFullReplacement(Desired(k), pass.found)
       THEN IF o # pass.found THEN Error("failed")
            ELSE /\ Put(k, [Owner(Desired(k), "nobody") EXCEPT !.pinned =
                              (o.pinned \cap Desired(k).vols) \cup (Desired(k).vols \ o.vols)])
                 /\ Done
       ELSE Put(k, Applied(o, Desired(k))) /\ Done

buildIngress == Plain(<<"safe">>)

Mutant_reconcileIngress ==
    LET cached == Visible("Ingress") IN
    /\ At("ingress")
    /\ IF ~externalAccessIsSafeToExpose(pass.spec)
       THEN handleDisabledIngress("status")
       ELSE IF Exists(cached) THEN UNCHANGED store /\ Goto("status")
       ELSE IF Exists(store["Ingress"]) THEN Error("failed")
       ELSE Put("Ingress", Owner(buildIngress, "self")) /\ Goto("status")

reconcileIngress ==
    LET cached == Visible("Ingress") IN
    /\ At("ingress")
    /\ IF pass.spec.praxis \/ ~externalAccessIsSafeToExpose(pass.spec)
       THEN handleDisabledIngress("status")
       ELSE IF ~Exists(cached)
       THEN IF Exists(store["Ingress"]) THEN Error("failed")
            ELSE Put("Ingress", Owner(buildIngress, "self")) /\ Goto("status")
       ELSE IF ~Mine(cached) THEN UNCHANGED store /\ Goto("status")
       ELSE IF cached # store["Ingress"] THEN Error("failed")
       ELSE Put("Ingress", Owner(buildIngress, "self")) /\ Goto("status")

(* Nil in Praxis mode, else what the cached Ingress says.                  *)
getIngressURL(s) ==
    IF s.praxis \/ ~externalAccessRequested(s) THEN "nil"
    ELSE IF Exists(Visible("Ingress")) THEN "host" ELSE "empty"

(* Every result is requeued, except a terminal error.                      *)
updateStatus ==
    /\ At("status")
    /\ status' = IF pass.result = "failed" THEN [status EXCEPT !.phase = "Failed"]
                 ELSE [phase |-> "Observed", url |-> getIngressURL(pass.spec)]
    /\ queue' = [queue EXCEPT !.timer = pass.result # "terminal"]
    /\ pc' = "idle" /\ pass' = NoPass
    /\ UNCHANGED store /\ UnchangedOutside

(* Any call may fail, that of the status too.                              *)
CallFails ==
    /\ ~Calm /\ pc \notin {"idle", "status"}
    /\ Error("failed")
StatusWriteFails ==
    /\ ~Calm /\ At("status")
    /\ queue' = [queue EXCEPT !.timer = pass.result # "terminal"]
    /\ pc' = "idle" /\ pass' = NoPass
    /\ UNCHANGED <<store, status>> /\ UnchangedOutside

PassStep ==
    \/ cleanupUnsafeOwnedIngress
    \/ reconcileOverrideAndCABundleConfigMaps
    \/ reconcileGeneratedConfig
    \/ reconcileManagedCABundle
    \/ reconcileAllManifestResources
    \/ deleteExcludedResources
    \/ manageResource
    \/ createResource
    \/ replaceOwnedRoleBinding
    \/ applyResourcePatch
    \/ reconcileIngress
    \/ updateStatus

(* The operator dies: it starts with a fresh cache and all CRs queued.     *)
Crash ==
    /\ ~Calm /\ pc # "idle"
    /\ pc' = "idle" /\ pass' = NoPass
    /\ seen' = [k \in Cached |-> store[k]]
    /\ queue' = [key |-> TRUE, timer |-> FALSE]
    /\ UNCHANGED <<scenario, spec, world, store, status, edits>>

(* The cache catches up; an event on an object of ours queues the CR.      *)
Sync(k) ==
    /\ seen[k] # store[k]
    /\ seen' = [seen EXCEPT ![k] = store[k]]
    /\ queue' = [queue EXCEPT !.key = @ \/ (k \in Owned /\ (Mine(seen[k]) \/ Mine(store[k])))]
    /\ UNCHANGED <<scenario, spec, world, store, status, pc, pass, edits>>

----------------------------------------------------------------------------
(* What users and other controllers do.                                    *)

EditSpec ==
    /\ edits < MaxEdits /\ edits' = edits + 1
    /\ \E s \in scenario.specs : s # spec /\ spec' = s
    /\ queue' = [queue EXCEPT !.key = TRUE]
    /\ UNCHANGED <<scenario, world, store, seen, status, pc, pass>>

Mutant_instanceReferencesConfigMap(w) ==
    \/ w.cm # world.cm /\ spec.config = "override"
    \/ w.ca # world.ca /\ spec.ca
    \/ w.odh # world.odh

(* mapConfigMapToReconcileRequests: whom a changed ConfigMap concerns.     *)
instanceReferencesConfigMap(w) ==
    \/ w.cm # world.cm /\ spec.config # "none"
    \/ w.ca # world.ca /\ spec.ca
    \/ w.odh # world.odh

(* mapSecretToReconcileRequests.                                           *)
instanceReferencesSecret(w) == w.secret # world.secret /\ spec.config = "base"

EditWorld ==
    /\ edits < MaxEdits /\ edits' = edits + 1
    /\ \E w \in scenario.worlds :
          /\ w # world /\ world' = w
          /\ queue' = [queue EXCEPT !.key =
                 @ \/ instanceReferencesConfigMap(w) \/ instanceReferencesSecret(w)]
    /\ UNCHANGED <<scenario, spec, store, seen, status, pc, pass>>

(* Someone deletes an object, or takes a free name.  A pass has nothing to *)
(* answer for about an object others changed while it ran.                 *)
TouchObject ==
    /\ edits < MaxEdits /\ edits' = edits + 1
    /\ \E k \in scenario.touched, who \in {"none", "peer", "stranger"} :
          /\ Exists(store[k]) # (who # "none")
          /\ Put(k, Owner(IF who = "none" THEN Absent ELSE Plain(<<"theirs">>), who))
          /\ pass' = [pass EXCEPT !.foreign = @ \ {k}]
    /\ UNCHANGED <<scenario, spec, world, seen, status, queue, pc>>

CalmDown ==
    /\ ~Calm /\ edits' = MaxEdits + 1
    /\ UNCHANGED <<scenario, spec, world, store, seen, status, queue, pc, pass>>

Init ==
    /\ scenario \in Scenarios
    /\ spec \in scenario.specs
    /\ world \in scenario.worlds
    /\ store \in scenario.stores
    /\ seen = [k \in Cached |-> store[k]]
    /\ status = [phase |-> "Pending", url |-> "nil"]
    /\ queue = [key |-> TRUE, timer |-> FALSE]
    /\ pc = "idle" /\ pass = NoPass
    /\ edits = 0

Next ==
    \/ Start \/ PassStep \/ CallFails \/ StatusWriteFails \/ Crash
    \/ \E k \in Cached : Sync(k)
    \/ EditSpec \/ EditWorld \/ TouchObject \/ CalmDown

Spec == Init /\ [][Next]_vars

(* The queue is served, a pass runs to its end, the cache catches up.      *)
FairSpec == Spec /\ WF_vars(Start \/ PassStep) /\ \A k \in Cached : WF_vars(Sync(k))

----------------------------------------------------------------------------
(* Properties.                                                             *)

Steps == {"idle", "unsafe", "config", "generate", "bundle", "render", "delete", "apply",
          "create", "replace", "patch", "ingress", "status"}

(* The type of the state: in particular a pass has a kind at hand whenever *)
(* it creates, replaces or patches one, and a volume that Create pinned is *)
(* one the object has.                                                     *)
TypeOK ==
    /\ scenario \in Scenarios /\ spec \in Specs /\ world \in Worlds
    /\ store \in [Kinds -> Objects] /\ seen \in [Cached -> Objects]
    /\ status \in [phase: {"Pending", "Observed", "Failed"}, url: {"nil", "empty", "host"}]
    /\ queue \in [key: BOOLEAN, timer: BOOLEAN]
    /\ pc \in Steps /\ pass \in Passes /\ edits \in 0 .. MaxEdits + 1
    /\ pc \in {"apply", "create", "replace", "patch"} => pass.todo # {}

(* An object of someone else that was there, and was known to the cache,   *)
(* when a pass began is left as it is by every step of that pass: the      *)
(* ownership checks of patchResource and of every delete and update.       *)
(* (The CA bundle ConfigMap is left out: the code has no check for it.)    *)
ForeignObjectsUntouched ==
    [][\A k \in pass.foreign : k \in pass'.foreign => store'[k] = store[k]]_vars

(* A RoleBinding is only deleted for its replacement if it is this         *)
(* server's, even if another one took its place after it was read: the     *)
(* preconditions of replaceOwnedRoleBinding.                               *)
ReplacedRoleBindingIsOwn ==
    [][pc = "replace" /\ pc' = "create" =>
         store["RoleBinding"].owner \in {"self", "none"}]_vars

(* Once all is calm, an Ingress of ours for an exposure without TLS goes   *)
(* for good, also when the config or the CA ConfigMaps stay unusable and   *)
(* every pass fails: why cleanupUnsafeOwnedIngress runs first.             *)
UnsafeIngressGoes ==
    <>[](Calm /\ ~spec.praxis /\ spec.expose = "unsafe" => ~Mine(store["Ingress"]))

(* Nothing keeps the passes from their last step.  A CA bundle ConfigMap   *)
(* that is not the operator's and has no label does: it cannot be created. *)
InputsUsable ==
    /\ spec.config # "none" => ~Unreadable(world.cm)
    /\ spec.config = "base" => world.cm # "invalid" /\ world.secret # "missing"
    /\ hasAnyCABundle(spec) => ~BundleError(spec) /\ store["Bundle"].owner # "stranger"

(* Once all is calm and the inputs are usable, a server that is not to be  *)
(* exposed has no Ingress of ours and reports no external URL.             *)
InternalServerNotExposed ==
    <>[](Calm /\ InputsUsable /\ (spec.praxis \/ spec.expose = "off") =>
           ~Mine(store["Ingress"]) /\ status.url = "nil")

(* Once all is calm and the inputs are usable, the excluded kinds of ours  *)
(* are gone, the others exist, the NetworkPolicy of ours has the posture   *)
(* of the mode and the RoleBinding of ours the role of the manifests:      *)
(* whatever failed deletes, half-done replacements and stale copies the    *)
(* passes went through.                                                    *)
ManifestsConverge ==
    <>[](Calm /\ InputsUsable =>
           /\ \A k \in Optional \cap determineKindsToExclude(spec) :
                 Mine(store[k]) => k = "ServiceMonitor" /\ ~world.crds
           /\ \A k \in Manifests \ determineKindsToExclude(spec) :
                 Exists(store[k]) \/ (k = "RoleBinding" /\ ~world.role)
           /\ ("NetworkPolicy" \in spec.wants /\ Mine(store["NetworkPolicy"])) =>
                 store["NetworkPolicy"].ver = applyNetworkPolicySpec(spec)
           /\ (world.role /\ Mine(store["RoleBinding"])) =>
                 store["RoleBinding"].ver = <<"current">>)

(* Once all is calm and the inputs are usable, a Deployment of ours mounts *)
(* what the spec asks for, was rolled out for the present content of the   *)
(* config, the explicit CA certificates and the Secrets, and the bundle    *)
(* it mounts has the present certificates: the hash taken from a stale     *)
(* bundle and the terminal error, after which nothing but an event starts  *)
(* a pass, are only temporary.                                             *)
PresentInputsServed ==
    <>[](Calm /\ InputsUsable /\ Mine(store["Deployment"]) =>
           /\ store["Deployment"].ver = resolveConfigMapHash(spec)
                 \o (IF spec.ca THEN gatherCABundleData(spec) ELSE <<>>)
                 \o resolveSecretRefsHash(spec)
           /\ configurePodStorage(spec) \subseteq store["Deployment"].vols
           /\ hasAnyCABundle(spec) => store["Bundle"].ver = gatherCABundleData(spec))

(* The repository's rule that owned resources have owner references, which *)
(* garbage collection needs (specs/constitution.md): the Deployment that   *)
(* the operator made never is without one.                                 *)
DeploymentKeepsItsOwner == store["Deployment"].owner # "nobody"
================================================================================
