-------------------------------- MODULE Adoption --------------------------------
(***************************************************************************)
(* Adoption of the volume, Service and Ingress of a legacy                 *)
(* LlamaStackDistribution (LLSD) by an OGXServer, driven by two            *)
(* annotations (controllers/legacy_adoption.go), with the part of          *)
(* reconcileResources that chooses the volume of the Deployment            *)
(* (controllers/ogxserver_controller.go).                                  *)
(*                                                                         *)
(* The reconciler has one worker, so one pass runs at a time.  It reads    *)
(* through the manager's cache, which lags behind the API server and holds *)
(* only objects labelled managed-by=ogx-operator (newCacheOptions in       *)
(* main.go; Pods are not filtered).  Update carries the resourceVersion of *)
(* the copy it was made from and conflicts when the copy is old; Patch and *)
(* Delete do not.  Meanwhile users edit the annotations and delete the     *)
(* LLSD, the garbage collector removes what the LLSD owned, and the        *)
(* ReplicaSet controller starts and stops the legacy Pods.                 *)
(***************************************************************************)
EXTENDS Naturals, Sequences, FiniteSets

CONSTANTS
    Servers,           \* OGXServers of the namespace
    Legacies,          \* legacy LLSDs of the namespace, by name
    None,              \* no annotation; no instance label
    Invalid,           \* an annotation value that is no DNS label
    Same,              \* an annotation value equal to the OGXServer's own name
    Own,               \* the volume <ogxserver>-pvc made from the manifests
    AnnotationChoices, \* the annotations users choose from
    FirstOwners,       \* controllers the legacy objects may have at first
    Labelled,          \* do the legacy objects carry managed-by=ogx-operator?
    Restarts,          \* may legacy Pods be replaced, the Deployment scaled up?
    Faults,            \* may calls fail and the operator crash?
    MaxLag,            \* bound: versions of a CR from the cached to the stored one
    MaxEdits           \* bound: things users do

ASSUME NameAssumption ==
    /\ Servers \cap (Legacies \cup {None, Invalid, Same, Own}) = {}
    /\ Legacies \cap {None, Invalid, Same, Own} = {}
    /\ Cardinality({None, Invalid, Same, Own}) = 4
ASSUME ServerAssumption == Servers # {} /\ Servers \cap {"legacy", "none", "other"} = {}
ASSUME SettingAssumption ==
    /\ Labelled \in BOOLEAN /\ Restarts \in BOOLEAN /\ Faults \in BOOLEAN
    /\ MaxLag \in Nat \ {0} /\ MaxEdits \in Nat

VARIABLES
    cr,      \* cr[o]: versions of the CR, the first is cached, the last stored
    objs,    \* objs[k, l]: the legacy object of kind k of LLSD l, stored and cached
    dep,     \* dep[l]: the legacy Deployment, stored and cached
    pods,    \* pods[l]: are there legacy Pods, really and in the cache?
    llsd,    \* the LLSDs that are still there
    claim,   \* claim[o]: the volume OGXServer o's Deployment mounts
    pc,      \* where the pass is
    pass,    \* the locals of the pass
    edits    \* things users did so far; more than MaxEdits once all is calm

vars == <<cr, objs, dep, pods, llsd, claim, pc, pass, edits>>
cluster == <<objs, dep, pods, llsd>>
--------------------------------------------------------------------------------
Sources == Legacies \cup {None, Invalid, Same}
Annotations == [storage: Sources, networking: Sources]
ASSUME AnnotationAssumption == AnnotationChoices \subseteq Annotations

Conds == {"Unset", "True", "False"}
Statuses == [StorageAdopted: Conds, NetworkingAdopted: Conds, AdoptionConfigInvalid: Conds]
NoStatus == [StorageAdopted |-> "Unset", NetworkingAdopted |-> "Unset",
             AdoptionConfigInvalid |-> "Unset"]
Versions == [ann: Annotations, status: Statuses]

Cached(o) == cr[o][1]
Stored(o) == cr[o][Len(cr[o])]

Kinds == {"pvc", "service", "ingress"}
Owners == {"legacy", "none", "other"} \cup Servers
ASSUME OwnerAssumption == FirstOwners \subseteq {"legacy", "none", "other"}

(* from: the adopted-from label; inst: the instance label.                 *)
Objects == [exists: BOOLEAN, owner: Owners, from: BOOLEAN,
            inst: Servers \cup {None}, deleting: BOOLEAN]
Absent == [exists |-> FALSE, owner |-> "none", from |-> FALSE,
           inst |-> None, deleting |-> FALSE]
LegacyObject(owner) == [exists |-> TRUE, owner |-> owner, from |-> FALSE,
                        inst |-> None, deleting |-> FALSE]

Deployments == {"gone", "up", "zero"}

(* What a Get or List through the cache returns.                           *)
SeenObject(k, l) == IF Labelled THEN objs[k, l].seen ELSE Absent
SeenDeployment(l) == IF Labelled THEN dep[l].seen ELSE "gone"

Passes == [server: Servers, ann: Annotations, status: Statuses,
           copy: Objects, networking: BOOLEAN, requeue: BOOLEAN]
PCs == {"idle", "adopt", "storage", "scale", "pods", "detach", "service", "ingress",
        "manifests", "cleanup", "cleanupIngress", "status"}
--------------------------------------------------------------------------------
(* The annotations.                                                        *)

ValidateAdoptionAnnotation(v) == v \in Legacies \cup {Same}
validateAdoptionSource(v) == v = None \/ (ValidateAdoptionAnnotation(v) /\ v # Same)
Mutant_StorageOnly(ann) == validateAdoptionSource(ann.storage)
validateAdoptionSources(ann) ==
    validateAdoptionSource(ann.storage) /\ validateAdoptionSource(ann.networking)

clearAdoptionConfigInvalidCondition(status) ==
    IF status.AdoptionConfigInvalid = "True"
    THEN [status EXCEPT !.AdoptionConfigInvalid = "False"] ELSE status

(* The controller owners a legacy object may be taken from: its LLSD, or   *)
(* nobody (isExpectedLegacyOwnerRef and the nil check before it).          *)
Mutant_AnyOwner(obj) == TRUE
isExpectedLegacyOwnerRef(obj) == obj.owner \in {"legacy", "none"}

Mutant_KeepOwner(o, obj) == [obj EXCEPT !.from = TRUE, !.inst = o]
detachAndLabelPVC(o, obj) ==
    [obj EXCEPT !.owner = "none", !.from = TRUE, !.inst = o]
transferOwnership(o, obj) == [obj EXCEPT !.owner = o, !.from = TRUE]

shouldDeleteAdoptedResource(o, obj) == obj.exists /\ obj.owner = o /\ obj.from

(* The adopted volumes discovered by label.                                *)
AdoptedPVCs(o) ==
    {l \in Legacies : LET p == SeenObject("pvc", l)
                      IN  p.exists /\ p.from /\ p.inst = o}

(* The volumes resolveEffectivePVCName may choose; no or several ones but  *)
(* the discovered make it fail.                                            *)
Mutant_ForgetAdopted(o, src) ==
    IF src \in Legacies THEN {src} ELSE {Own}
resolveEffectivePVCName(o, src) ==
    IF src \in Legacies THEN {src}
    ELSE IF src = Same THEN {Own}
    ELSE IF AdoptedPVCs(o) = {} THEN {Own} ELSE AdoptedPVCs(o)
--------------------------------------------------------------------------------
AnyServer == CHOOSE o \in Servers : TRUE
NoAnnotations == [storage |-> None, networking |-> None]
IdlePass == [server |-> AnyServer, ann |-> NoAnnotations, status |-> NoStatus,
             copy |-> Absent, networking |-> FALSE, requeue |-> FALSE]

Init ==
    /\ \E first \in [Servers -> AnnotationChoices] :
          cr = [o \in Servers |-> <<[ann |-> first[o], status |-> NoStatus]>>]
    /\ \E owner \in [Kinds \X Legacies -> FirstOwners] :
          objs = [x \in Kinds \X Legacies |->
                     [api |-> LegacyObject(owner[x]), seen |-> LegacyObject(owner[x])]]
    /\ dep = [l \in Legacies |-> [api |-> "up", seen |-> "up"]]
    /\ pods = [l \in Legacies |-> [api |-> TRUE, seen |-> TRUE]]
    /\ llsd = Legacies
    /\ claim = [o \in Servers |-> None]
    /\ pc = "idle"
    /\ pass = IdlePass
    /\ edits = 0

Calm == edits > MaxEdits

(* A step of the pass that leaves the cluster alone.                       *)
Goto(label) == pc' = label
Local == UNCHANGED <<cr, cluster, claim, edits>>
Finish(status) ==
    /\ Goto("status")
    /\ pass' = [IdlePass EXCEPT !.server = pass.server, !.status = status]

(* fetchInstance                                                           *)
Begin(o) ==
    /\ pc = "idle"
    /\ Goto("adopt")
    /\ pass' = [IdlePass EXCEPT !.server = o, !.ann = Cached(o).ann,
                                !.status = Cached(o).status]
    /\ Local

AfterStorage == IF pass.ann.networking = None THEN "manifests" ELSE "service"

(* adoptLegacyResources: validation, before any adoption.                  *)
adoptLegacyResources ==
    /\ pc = "adopt"
    /\ \/ /\ ~validateAdoptionSources(pass.ann)
          /\ pass' = [pass EXCEPT !.status.AdoptionConfigInvalid = "True"]
          /\ Goto("manifests")
       \/ /\ validateAdoptionSources(pass.ann)
          /\ pass' = [pass EXCEPT !.status = clearAdoptionConfigInvalidCondition(@)]
          /\ Goto(IF pass.ann.storage = None THEN AfterStorage ELSE "storage")
    /\ Local

(* adoptStorage: the volume is missing, adopted already, or to be adopted. *)
Mutant_SkipScaleDown ==
    LET p == SeenObject("pvc", pass.ann.storage)
    IN  /\ pc = "storage"
        /\ pass' = [pass EXCEPT !.copy = p]
        /\ Goto(IF p.exists THEN "detach" ELSE AfterStorage)
        /\ Local
Mutant_SilentWhenAdopted ==
    LET p == SeenObject("pvc", pass.ann.storage)
    IN  /\ pc = "storage"
        /\ Goto(IF p.exists /\ ~p.from THEN "scale" ELSE AfterStorage)
        /\ pass' = [pass EXCEPT !.copy = IF p.exists /\ ~p.from THEN p ELSE @]
        /\ Local
adoptStorage ==
    LET p == SeenObject("pvc", pass.ann.storage)
    IN  /\ pc = "storage"
        /\ \/ /\ ~p.exists
              /\ Goto(AfterStorage)
              /\ UNCHANGED pass
           \/ /\ p.exists /\ p.from
              /\ Goto(AfterStorage)
              /\ pass' = [pass EXCEPT !.status.StorageAdopted = "True"]
           \/ /\ p.exists /\ ~p.from
              /\ Goto("scale")
              /\ pass' = [pass EXCEPT !.copy = p]
        /\ Local

(* scaleDownLegacyDeployment: the Patch, which fails when the Deployment   *)
(* has gone, ...                                                           *)
scaleDownLegacyDeployment ==
    LET l == pass.ann.storage
        seen == SeenDeployment(l)
    IN  /\ pc = "scale"
        /\ \/ /\ seen = "gone"
              /\ Goto("detach")
              /\ UNCHANGED <<dep, pass>>
           \/ /\ seen = "zero"
              /\ Goto("pods")
              /\ UNCHANGED <<dep, pass>>
           \/ /\ seen = "up" /\ dep[l].api # "gone"
              /\ dep' = [dep EXCEPT ![l].api = "zero"]
              /\ Goto("pods")
              /\ UNCHANGED pass
           \/ /\ seen = "up" /\ dep[l].api = "gone"
              /\ Finish(pass.status)
              /\ UNCHANGED dep
        /\ UNCHANGED <<cr, objs, pods, llsd, claim, edits>>

(* ... and the wait for the Pods: networking is still adopted, then the    *)
(* pass ends with a requeue.                                               *)
listLegacyPods ==
    /\ pc = "pods"
    /\ \/ /\ ~pods[pass.ann.storage].seen
          /\ Goto("detach")
          /\ UNCHANGED pass
       \/ /\ pods[pass.ann.storage].seen /\ pass.ann.networking # None
          /\ Goto("service")
          /\ pass' = [pass EXCEPT !.requeue = TRUE, !.copy = Absent]
       \/ /\ pods[pass.ann.storage].seen /\ pass.ann.networking = None
          /\ Finish(pass.status)
    /\ Local

(* detachAndLabelPVC updates the copy of the volume adoptStorage read.     *)
DetachPVC ==
    LET x == <<"pvc", pass.ann.storage>>
        updated == isExpectedLegacyOwnerRef(pass.copy) /\ objs[x].api = pass.copy
    IN  /\ pc = "detach"
        /\ IF updated
           THEN /\ objs' = [objs EXCEPT ![x].api = detachAndLabelPVC(pass.server, @)]
                /\ pass' = [pass EXCEPT !.status.StorageAdopted = "True", !.copy = Absent]
                /\ Goto(AfterStorage)
           ELSE UNCHANGED objs /\ Finish(pass.status)
        /\ UNCHANGED <<cr, dep, pods, llsd, claim, edits>>

(* adoptLegacyService and adoptLegacyIngress, and the condition that       *)
(* adoptNetworking sets when either of them is adopted.                    *)
NetworkingStatus(adopted) ==
    IF adopted THEN [pass.status EXCEPT !.NetworkingAdopted = "True"] ELSE pass.status

AdoptNetworkObject(k) ==
    LET x == <<k, pass.ann.networking>>
        seen == SeenObject(k, pass.ann.networking)
        Done(adopted) ==
            \/ /\ k = "service"
               /\ Goto("ingress")
               /\ pass' = [pass EXCEPT !.networking = adopted]
            \/ /\ k = "ingress" /\ ~pass.requeue
               /\ Goto("manifests")
               /\ pass' = [pass EXCEPT !.status = NetworkingStatus(pass.networking \/ adopted)]
            \/ /\ k = "ingress" /\ pass.requeue
               /\ Finish(NetworkingStatus(pass.networking \/ adopted))
    IN  /\ pc = k
        /\ \/ /\ ~seen.exists
              /\ Done(FALSE)
              /\ UNCHANGED objs
           \/ /\ seen.exists /\ seen.owner = pass.server
              /\ Done(TRUE)
              /\ UNCHANGED objs
           \/ /\ seen.exists /\ seen.owner # pass.server
              /\ isExpectedLegacyOwnerRef(seen) /\ objs[x].api = seen
              /\ objs' = [objs EXCEPT ![x].api = transferOwnership(pass.server, @)]
              /\ Done(TRUE)
           \/ /\ seen.exists /\ seen.owner # pass.server
              /\ ~(isExpectedLegacyOwnerRef(seen) /\ objs[x].api = seen)
              /\ Finish(pass.status)
              /\ UNCHANGED objs
        /\ UNCHANGED <<cr, dep, pods, llsd, claim, edits>>

adoptLegacyService == AdoptNetworkObject("service")
adoptLegacyIngress == AdoptNetworkObject("ingress")

(* reconcileAllManifestResources: the Deployment gets its volume; several  *)
(* candidates are a terminal error.                                        *)
reconcileAllManifestResources ==
    LET o == pass.server
        volumes == resolveEffectivePVCName(o, pass.ann.storage)
    IN  /\ pc = "manifests"
        /\ \/ /\ \E v \in volumes : volumes = {v} /\ claim' = [claim EXCEPT ![o] = v]
              /\ Goto("cleanup")
              /\ UNCHANGED pass
           \/ /\ Cardinality(volumes) > 1
              /\ Finish([pass.status EXCEPT !.AdoptionConfigInvalid = "True"])
              /\ UNCHANGED claim
        /\ UNCHANGED <<cr, cluster, edits>>

(* Delete every cached object of kind k adopted by the server; each Delete *)
(* names the object, whatever the API server holds by now.                 *)
DeleteAdopted(k) ==
    objs' = [x \in Kinds \X Legacies |->
                IF x[1] = k /\ shouldDeleteAdoptedResource(pass.server, SeenObject(k, x[2]))
                THEN [objs[x] EXCEPT !.api = Absent] ELSE objs[x]]

Mutant_IngressOnly ==
    /\ pc = "cleanup"
    /\ IF pass.ann.networking = None /\ pass.status.NetworkingAdopted = "True"
       THEN /\ DeleteAdopted("ingress")
            /\ Finish([pass.status EXCEPT !.NetworkingAdopted = "False"])
       ELSE UNCHANGED objs /\ Finish(pass.status)
    /\ UNCHANGED <<cr, dep, pods, llsd, claim, edits>>
cleanupAdoptedServices ==
    /\ pc = "cleanup"
    /\ IF pass.ann.networking = None /\ pass.status.NetworkingAdopted = "True"
       THEN /\ DeleteAdopted("service")
            /\ Goto("cleanupIngress")
            /\ UNCHANGED pass
       ELSE UNCHANGED objs /\ Finish(pass.status)
    /\ UNCHANGED <<cr, dep, pods, llsd, claim, edits>>

cleanupAdoptedIngresses ==
    /\ pc = "cleanupIngress"
    /\ DeleteAdopted("ingress")
    /\ Finish([pass.status EXCEPT !.NetworkingAdopted = "False"])
    /\ UNCHANGED <<cr, dep, pods, llsd, claim, edits>>

(* updateStatus replaces the status of the cached CR and updates it; while *)
(* the cache is behind the Update conflicts and is retried.                *)
updateStatus ==
    LET o == pass.server
    IN  /\ pc = "status"
        /\ Len(cr[o]) = 1
        /\ cr' = [cr EXCEPT ![o] = IF Cached(o).status = pass.status THEN @
                                   ELSE Append(@, [ann |-> Cached(o).ann, status |-> pass.status])]
        /\ Goto("idle")
        /\ pass' = IdlePass
        /\ UNCHANGED <<cluster, claim, edits>>

(* The retries run out, or the process dies: the status is lost.           *)
StatusLost ==
    /\ Faults /\ ~Calm
    /\ pc # "idle"
    /\ Goto("idle")
    /\ pass' = IdlePass
    /\ Local

(* A call to the API server fails: the pass ends and writes the status.    *)
CallFails ==
    /\ Faults /\ ~Calm
    /\ pc \notin {"idle", "adopt", "status"}
    /\ Finish(pass.status)
    /\ Local
--------------------------------------------------------------------------------
(* The informers.                                                          *)
SyncCR ==
    /\ \E o \in Servers :
          /\ Len(cr[o]) > 1
          /\ cr' = [cr EXCEPT ![o] = Tail(@)]
    /\ UNCHANGED <<cluster, claim, pc, pass, edits>>

SyncObject ==
    /\ \E x \in Kinds \X Legacies :
          /\ objs[x].seen # objs[x].api
          /\ objs' = [objs EXCEPT ![x].seen = objs[x].api]
    /\ UNCHANGED <<cr, dep, pods, llsd, claim, pc, pass, edits>>

SyncWorkload ==
    /\ \E l \in Legacies :
          \/ /\ dep[l].seen # dep[l].api
             /\ dep' = [dep EXCEPT ![l].seen = dep[l].api]
             /\ UNCHANGED pods
          \/ /\ pods[l].seen # pods[l].api
             /\ pods' = [pods EXCEPT ![l].seen = pods[l].api]
             /\ UNCHANGED dep
    /\ UNCHANGED <<cr, objs, llsd, claim, pc, pass, edits>>

(* The ReplicaSet controller and the kubelet.                              *)
PodsStop ==
    /\ \E l \in Legacies :
          /\ dep[l].api # "up" /\ pods[l].api
          /\ pods' = [pods EXCEPT ![l].api = FALSE]
    /\ UNCHANGED <<cr, objs, dep, llsd, claim, pc, pass, edits>>

PodsStart ==
    /\ \E l \in Legacies :
          /\ dep[l].api = "up" /\ ~pods[l].api
          /\ pods' = [pods EXCEPT ![l].api = TRUE]
    /\ UNCHANGED <<cr, objs, dep, llsd, claim, pc, pass, edits>>

(* The garbage collector removes what a deleted LLSD controls; a volume    *)
(* that Pods still use only goes when they are gone (pvc-protection).      *)
CollectObject ==
    /\ \E x \in Kinds \X Legacies :
          /\ x[2] \notin llsd
          /\ objs[x].api.exists
          /\ objs[x].api.owner = "legacy" \/ objs[x].api.deleting
          /\ objs' = [objs EXCEPT ![x].api =
                         IF x[1] = "pvc" /\ pods[x[2]].api THEN [@ EXCEPT !.deleting = TRUE]
                         ELSE Absent]
          /\ objs' # objs
    /\ UNCHANGED <<cr, dep, pods, llsd, claim, pc, pass, edits>>

CollectDeployment ==
    /\ \E l \in Legacies \ llsd :
          /\ dep[l].api # "gone"
          /\ dep' = [dep EXCEPT ![l].api = "gone"]
    /\ UNCHANGED <<cr, objs, pods, llsd, claim, pc, pass, edits>>
--------------------------------------------------------------------------------
UserStep == edits < MaxEdits /\ edits' = edits + 1

UserAnnotates ==
    /\ UserStep
    /\ \E o \in Servers : \E a \in AnnotationChoices \ {Stored(o).ann} :
          /\ Len(cr[o]) < MaxLag
          /\ cr' = [cr EXCEPT ![o] = Append(@, [Stored(o) EXCEPT !.ann = a])]
    /\ UNCHANGED <<cluster, claim, pc, pass>>

(* kubectl delete llamastackdistribution                                   *)
UserDeletesLLSD ==
    /\ UserStep
    /\ \E l \in llsd : llsd' = llsd \ {l}
    /\ UNCHANGED <<cr, objs, dep, pods, claim, pc, pass>>

(* Somebody scales the legacy Deployment up again, or its Pods fail.       *)
UserScalesUp ==
    /\ Restarts
    /\ UserStep
    /\ \E l \in Legacies :
          /\ dep[l].api = "zero"
          /\ dep' = [dep EXCEPT ![l].api = "up"]
    /\ UNCHANGED <<cr, objs, pods, llsd, claim, pc, pass>>

PodsFail ==
    /\ Restarts
    /\ UserStep
    /\ \E l \in Legacies :
          /\ pods[l].api
          /\ pods' = [pods EXCEPT ![l].api = FALSE]
    /\ UNCHANGED <<cr, objs, dep, llsd, claim, pc, pass>>

(* From here on users leave things alone and nothing fails any more.       *)
CalmDown ==
    /\ ~Calm
    /\ edits' = MaxEdits + 1
    /\ UNCHANGED <<cr, cluster, claim, pc, pass>>
--------------------------------------------------------------------------------
PassStep ==
    \/ adoptLegacyResources \/ adoptStorage \/ scaleDownLegacyDeployment
    \/ listLegacyPods \/ DetachPVC \/ adoptLegacyService \/ adoptLegacyIngress
    \/ reconcileAllManifestResources \/ cleanupAdoptedServices
    \/ cleanupAdoptedIngresses \/ updateStatus

Operator == (\E o \in Servers : Begin(o)) \/ PassStep \/ StatusLost \/ CallFails

Informers == SyncCR \/ SyncObject \/ SyncWorkload
Controllers == PodsStop \/ PodsStart \/ CollectObject \/ CollectDeployment
Users == UserAnnotates \/ UserDeletesLLSD \/ UserScalesUp \/ PodsFail \/ CalmDown

Next == Operator \/ Informers \/ Controllers \/ Users

Spec == Init /\ [][Next]_vars

(* Every CR is reconciled again and again (Reconcile asks to be requeued   *)
(* in all cases but a terminal error, and there the status it writes is an *)
(* event of its own), and passes, informers and controllers make progress. *)
Fairness ==
    /\ \A o \in Servers : SF_vars(Begin(o))
    /\ WF_vars(PassStep)
    /\ WF_vars(SyncCR) /\ WF_vars(SyncObject) /\ WF_vars(SyncWorkload)
    /\ WF_vars(PodsStop) /\ WF_vars(CollectObject) /\ WF_vars(CollectDeployment)

FairSpec == Spec /\ Fairness
--------------------------------------------------------------------------------
(* Every variable has its type, and a pass that adopts or waits works on a *)
(* source that adoptLegacyResources accepted.                              *)
TypeOK ==
    /\ DOMAIN cr = Servers
    /\ \A o \in Servers : cr[o] \in Seq(Versions) /\ Len(cr[o]) > 0
    /\ objs \in [Kinds \X Legacies -> [api: Objects, seen: Objects]]
    /\ dep \in [Legacies -> [api: Deployments, seen: Deployments]]
    /\ pods \in [Legacies -> [api: BOOLEAN, seen: BOOLEAN]]
    /\ llsd \subseteq Legacies
    /\ claim \in [Servers -> Legacies \cup {Own, None}]
    /\ pc \in PCs
    /\ pass \in Passes
    /\ edits \in 0..(MaxEdits + 1)
    /\ pc \in {"storage", "scale", "pods", "detach"} => pass.ann.storage \in Legacies
    /\ pc \in {"service", "ingress"} => pass.ann.networking \in Legacies

Adopted(obj) == obj.exists /\ obj.from

(* Deleting the legacy CR, in the foreground or at any point of a pass,    *)
(* takes no adopted volume, Service or Ingress with it that was not being  *)
(* deleted by then: detachAndLabelPVC and transferOwnership drop the       *)
(* legacy owner in the very update that marks the object adopted.  A volume*)
(* that is terminating already, kept only by the Pods that use it, is not  *)
(* saved: adoptStorage does not look whether it is, adopts and reports it, *)
(* and it goes once those Pods are gone.                                   *)
AdoptedSurvivesLegacyRemoval ==
    [][Controllers => \A x \in Kinds \X Legacies :
          Adopted(objs[x].api) /\ ~objs[x].api.deleting => objs'[x].api = objs[x].api]_vars

(* An object controlled by anyone but its LLSD or the OGXServer of the     *)
(* pass, another OGXServer included, is never updated or deleted by the    *)
(* operator, however old the copy it acts on (transferOwnership,           *)
(* detachAndLabelPVC, shouldDeleteAdoptedResource).                        *)
UnexpectedOwnerUntouched ==
    [][Operator => \A x \in Kinds \X Legacies :
          (objs[x].api.exists /\ objs[x].api.owner \notin {"legacy", "none", pass.server})
              => objs'[x].api = objs[x].api]_vars

(* specs/003-ogx-rename/spec.md, FR-012: a legacy Deployment that is still *)
(* there is scaled to zero, and its Pods are gone, before the new          *)
(* Deployment mounts the volume.  An OGXServer with an invalid annotation  *)
(* is left out: adoptLegacyResources then skips storage adoption, while    *)
(* resolveEffectivePVCName still takes the volume its other annotation names. *)
ScaledDownBeforeMount ==
    [][\A o \in Servers : \A l \in Legacies :
          (/\ claim'[o] = l /\ claim[o] # l /\ dep[l].api # "gone"
           /\ validateAdoptionSources(pass.ann))
              => ~pods[l].api]_vars

Adoptable(x) == /\ objs[x].api.exists /\ ~objs[x].api.deleting
                /\ objs[x].api.owner \in {"legacy", "none"}

(* Once all is calm, a volume named by valid annotations gets adopted and  *)
(* reported so (adoptStorage), however many Pods, requeues and stale reads *)
(* stand in between; unless the LLSD, and with it the volume, is deleted.  *)
VolumeGetsAdopted ==
    \A o \in Servers : \A l \in Legacies :
        (/\ Calm /\ Stored(o).ann.storage = l /\ validateAdoptionSources(Stored(o).ann)
         /\ Adoptable(<<"pvc", l>>) /\ l \in llsd)
            ~> (objs["pvc", l].api.from /\ Stored(o).status.StorageAdopted = "True")

AdoptedFor(o) ==
    {l \in Legacies : LET pvc == objs["pvc", l].api
                      IN  Adopted(pvc) /\ ~pvc.deleting /\ pvc.inst = o}

(* Once all is calm, an OGXServer that has adopted a volume, and one that  *)
(* is not terminating, ends up on it for good when the annotation is gone  *)
(* or was damaged: the volume is found by its labels, never replaced by a  *)
(* fresh one, unless by then several are labelled (resolveEffectivePVCName).*)
AdoptedVolumeKept ==
    \A o \in Servers :
        (/\ Calm /\ Stored(o).ann.networking = None
         /\ Stored(o).ann.storage \in {None, Invalid}
         /\ AdoptedFor(o) # {})
            ~> [](claim[o] \in AdoptedFor(o) \/ Cardinality(AdoptedFor(o)) > 1)

(* The caches and the stored CR of an OGXServer agree and no pass runs.    *)
CaughtUp(o) ==
    /\ pc = "idle"
    /\ Len(cr[o]) = 1
    /\ \A x \in Kinds \X Legacies : objs[x].seen = objs[x].api

AdoptedNetworking(o) ==
    {x \in {"service", "ingress"} \X Legacies :
        shouldDeleteAdoptedResource(o, objs[x].api)}

(* An adoption of networking that was reported is undone for good once the *)
(* annotation is gone, if the operator had caught up with it               *)
(* (cleanupAdoptedNetworking).                                             *)
ReportedNetworkingCleanedUp ==
    \A o \in Servers :
        (/\ Calm /\ CaughtUp(o) /\ Stored(o).ann.networking = None
         /\ Stored(o).status.NetworkingAdopted = "True")
            ~> []( /\ AdoptedNetworking(o) = {}
                   /\ Stored(o).status.NetworkingAdopted = "False")
================================================================================
