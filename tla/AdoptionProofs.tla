---------------------------- MODULE AdoptionProofs ----------------------------
(***************************************************************************)
(* Proofs about Adoption, for any OGXServers, LLSDs, annotations and       *)
(* bounds: its type invariant, that removing an LLSD takes no adopted      *)
(* object with it, that the operator touches no object of an unexpected    *)
(* owner, and that a legacy workload is down before its volume is mounted. *)
(***************************************************************************)
EXTENDS Adoption, TLAPS

--------------------------------------------------------------------------------
(* The inductive invariant.                                                *)

Copies == [api: Objects, seen: Objects]
Slots == Kinds \X Legacies

CRsOK == cr \in [Servers -> Seq(Versions)] /\ \A o \in Servers : Len(cr[o]) > 0
ObjsOK == objs \in [Slots -> Copies]
WorkOK ==
    /\ dep \in [Legacies -> [api: Deployments, seen: Deployments]]
    /\ pods \in [Legacies -> [api: BOOLEAN, seen: BOOLEAN]]
    /\ llsd \subseteq Legacies
    /\ claim \in [Servers -> Legacies \cup {Own, None}]
    /\ edits \in 0..(MaxEdits + 1)

(* Once adoptLegacyResources accepted the annotations, both name an LLSD   *)
(* or nothing.                                                             *)
PassOK ==
    /\ pc \in PCs
    /\ pass \in Passes
    /\ pc \in {"storage", "scale", "pods", "detach"} =>
          pass.ann.storage \in Legacies /\ pass.ann.networking \in Legacies \cup {None}
    /\ pc \in {"service", "ingress"} => pass.ann.networking \in Legacies

(* An adopted object has lost its legacy owner, and an object the cache    *)
(* has seen in the hands of an OGXServer is still in them, or gone.        *)
OwnersOK ==
    \A x \in Slots :
        /\ objs[x].api.from => objs[x].api.owner # "legacy"
        /\ objs[x].seen.owner \in Servers =>
              objs[x].api.owner = objs[x].seen.owner \/ ~objs[x].api.exists

IndInv == CRsOK /\ ObjsOK /\ WorkOK /\ PassOK /\ OwnersOK
--------------------------------------------------------------------------------
(* What the operators of the model return.                                 *)

(* The empty pass and the objects nobody adopted are typed.                *)
LEMMA ConstantTypes ==
    /\ NoStatus \in Statuses
    /\ Absent \in Objects /\ ~Absent.exists /\ ~Absent.from
    /\ \A w \in {"legacy", "none", "other"} : LegacyObject(w) \in Objects
    /\ IdlePass \in Passes /\ ~IdlePass.requeue
<1>1. NoStatus \in Statuses
  BY DEF NoStatus, Statuses, Conds
<1>2. Absent \in Objects /\ ~Absent.exists /\ ~Absent.from
  BY DEF Absent, Objects, Owners
<1>3. \A w \in {"legacy", "none", "other"} : LegacyObject(w) \in Objects
  BY DEF LegacyObject, Objects, Owners
<1>4. AnyServer \in Servers
  BY ServerAssumption DEF AnyServer
<1>5. NoAnnotations \in Annotations
  BY DEF NoAnnotations, Annotations, Sources
<1> QED
  BY <1>1, <1>2, <1>3, <1>4, <1>5 DEF IdlePass, Passes

(* What a pass reads through the cache is an object, or nothing.           *)
LEMMA SeenObjectType ==
    ASSUME ObjsOK, NEW k \in Kinds, NEW l \in Legacies
    PROVE  /\ SeenObject(k, l) \in Objects
           /\ SeenObject(k, l).exists => SeenObject(k, l) = objs[k, l].seen
BY ConstantTypes DEF SeenObject, ObjsOK, Slots, Copies

(* Adoption keeps an object's existence, and takes it off its LLSD.        *)
LEMMA AdoptedObjectType ==
    ASSUME NEW obj \in Objects, NEW o \in Servers
    PROVE  /\ detachAndLabelPVC(o, obj) \in Objects
           /\ detachAndLabelPVC(o, obj).owner = "none"
           /\ detachAndLabelPVC(o, obj).exists = obj.exists
           /\ transferOwnership(o, obj) \in Objects
           /\ transferOwnership(o, obj).owner = o
           /\ transferOwnership(o, obj).exists = obj.exists
BY DEF detachAndLabelPVC, transferOwnership, Objects, Owners

(* The volumes of an OGXServer are LLSDs' or its own.                      *)
LEMMA VolumesType ==
    ASSUME NEW o \in Servers, NEW src
    PROVE  resolveEffectivePVCName(o, src) \subseteq Legacies \cup {Own}
BY DEF resolveEffectivePVCName, AdoptedPVCs

(* Accepted annotations name an LLSD or nothing.                           *)
LEMMA AcceptedSources ==
    ASSUME NEW ann \in Annotations, validateAdoptionSources(ann)
    PROVE  ann.storage \in Legacies \cup {None} /\ ann.networking \in Legacies \cup {None}
BY DEF validateAdoptionSources, validateAdoptionSource, ValidateAdoptionAnnotation

(* The names of the annotations' special values are not LLSDs.             *)
LEMMA NamesDistinct ==
    /\ None \notin Legacies /\ Own \notin Legacies /\ Invalid \notin Legacies /\ Same \notin Legacies
    /\ Servers \cap Legacies = {}
BY NameAssumption

--------------------------------------------------------------------------------
(* The shared tails of the steps.                                          *)

(* A pass that is over keeps its server and its status.                    *)
LEMMA FinishOK ==
    ASSUME pass \in Passes, NEW status \in Statuses, Finish(status)
    PROVE  PassOK' /\ pc' = "status" /\ ~pass'.requeue
<1>1. pc' = "status" /\ pass' = [IdlePass EXCEPT !.server = pass.server, !.status = status]
  BY DEF Finish, Goto
<1>2. pass' \in Passes /\ ~pass'.requeue
  BY <1>1, ConstantTypes DEF Passes
<1> QED
  BY <1>1, <1>2 DEF PassOK, PCs

(* A pass that ended or crashed holds nothing.                             *)
LEMMA IdleOK ==
    ASSUME pc' = "idle", pass' = IdlePass
    PROVE  PassOK'
BY ConstantTypes DEF PassOK, PCs

(* After the storage comes the networking, or the manifests.               *)
LEMMA AfterStorageOK ==
    ASSUME pc' = AfterStorage, pass' \in Passes, pass'.ann = pass.ann,
           pass.ann.networking \in Legacies \cup {None}
    PROVE  PassOK' /\ pc' \in {"manifests", "service"}
BY DEF AfterStorage, PassOK, PCs

(* A change to the stored copy of one object.                              *)
LEMMA SetApiOK ==
    ASSUME ObjsOK, OwnersOK, NEW x \in Slots, NEW new \in Objects,
           objs' = [objs EXCEPT ![x].api = new],
           new.from => new.owner # "legacy",
           objs[x].seen.owner \in Servers => new.owner = objs[x].seen.owner \/ ~new.exists
    PROVE  /\ ObjsOK' /\ OwnersOK'
           /\ objs'[x] = [api |-> new, seen |-> objs[x].seen]
           /\ \A y \in Slots \ {x} : objs'[y] = objs[y]
<1>1. objs[x] \in Copies /\ objs'[x] = [objs[x] EXCEPT !.api = new]
      /\ \A y \in Slots \ {x} : objs'[y] = objs[y]
  BY DEF ObjsOK
<1>2. objs'[x] = [api |-> new, seen |-> objs[x].seen] /\ objs'[x] \in Copies
  BY <1>1 DEF Copies
<1>3. ObjsOK'
  BY <1>1, <1>2 DEF ObjsOK
<1>4. OwnersOK'
  BY <1>1, <1>2 DEF OwnersOK
<1> QED
  BY <1>1, <1>2, <1>3, <1>4

(* What a step leaves alone stays as it is.                                *)
LEMMA Kept ==
    ASSUME IndInv
    PROVE  /\ cr' = cr => CRsOK'
           /\ objs' = objs => ObjsOK' /\ OwnersOK'
           /\ UNCHANGED <<dep, pods, llsd, claim, edits>> => WorkOK'
           /\ UNCHANGED <<pc, pass>> => PassOK'
BY DEF IndInv, CRsOK, ObjsOK, OwnersOK, WorkOK, PassOK

(* A step that leaves the cluster alone only needs an honest pass.         *)
LEMMA LocalOK ==
    ASSUME IndInv, Local, PassOK'
    PROVE  IndInv'
BY Kept DEF Local, cluster, IndInv
--------------------------------------------------------------------------------
(* The invariant holds initially.                                          *)
LEMMA InitOK == Init => IndInv
<1> SUFFICES ASSUME Init PROVE IndInv
  OBVIOUS
<1>1. CRsOK
  <2>1. PICK first \in [Servers -> AnnotationChoices] :
            cr = [o \in Servers |-> <<[ann |-> first[o], status |-> NoStatus]>>]
    BY DEF Init
  <2>2. \A o \in Servers : [ann |-> first[o], status |-> NoStatus] \in Versions
    BY AnnotationAssumption, ConstantTypes DEF Versions
  <2>3. \A o \in Servers : cr[o] \in Seq(Versions) /\ Len(cr[o]) = 1
    BY <2>1, <2>2
  <2> QED
    BY <2>1, <2>3 DEF CRsOK
<1>2. ObjsOK /\ OwnersOK
  <2>1. PICK owner \in [Slots -> FirstOwners] :
            objs = [x \in Slots |->
                       [api |-> LegacyObject(owner[x]), seen |-> LegacyObject(owner[x])]]
    BY DEF Init, Slots
  <2>2. \A x \in Slots : /\ owner[x] \in {"legacy", "none", "other"}
                         /\ LegacyObject(owner[x]) \in Objects
    BY OwnerAssumption, ConstantTypes
  <2>3. \A x \in Slots : ~LegacyObject(owner[x]).from /\ LegacyObject(owner[x]).owner = owner[x]
    BY DEF LegacyObject
  <2> QED
    BY <2>1, <2>2, <2>3, ServerAssumption DEF ObjsOK, OwnersOK, Copies
<1>3. WorkOK
  <2>1. /\ dep \in [Legacies -> [api: Deployments, seen: Deployments]]
        /\ pods \in [Legacies -> [api: BOOLEAN, seen: BOOLEAN]]
    BY DEF Init, Deployments
  <2>2. llsd \subseteq Legacies /\ claim \in [Servers -> Legacies \cup {Own, None}]
    BY DEF Init
  <2>3. edits \in 0..(MaxEdits + 1)
    BY SettingAssumption DEF Init
  <2> QED
    BY <2>1, <2>2, <2>3 DEF WorkOK
<1>4. PassOK
  BY ConstantTypes DEF Init, PassOK, PCs
<1> QED
  BY <1>1, <1>2, <1>3, <1>4 DEF IndInv
--------------------------------------------------------------------------------
(* One lemma per step of the pass.                                         *)

(* fetchInstance reads a version of the CR.                                *)
LEMMA BeginOK ==
    ASSUME IndInv, NEW o \in Servers, Begin(o)
    PROVE  IndInv'
<1>1. Cached(o) \in Versions
  BY DEF IndInv, CRsOK, Cached
<1>2. Local /\ pc' = "adopt"
      /\ pass' = [IdlePass EXCEPT !.server = o, !.ann = Cached(o).ann, !.status = Cached(o).status]
  BY DEF Begin, Goto
<1>3. pass' \in Passes
  BY <1>1, <1>2, ConstantTypes DEF Passes, Versions
<1>4. PassOK'
  BY <1>2, <1>3 DEF PassOK, PCs
<1> QED
  BY <1>2, <1>4, LocalOK

(* adoptLegacyResources lets only accepted annotations through.            *)
LEMMA AdoptLegacyResourcesOK ==
    ASSUME IndInv, adoptLegacyResources
    PROVE  IndInv'
<1>1. Local /\ pass \in Passes /\ pass.ann \in Annotations /\ pass.status \in Statuses
  BY DEF adoptLegacyResources, IndInv, PassOK, Passes
<1>2. CASE /\ pass' = [pass EXCEPT !.status.AdoptionConfigInvalid = "True"]
           /\ pc' = "manifests"
  <2>1. pass' \in Passes
    BY <1>1, <1>2 DEF Passes, Statuses, Conds
  <2>2. PassOK'
    BY <1>2, <2>1 DEF PassOK, PCs
  <2> QED
    BY <1>1, <2>2, LocalOK
<1>3. CASE /\ validateAdoptionSources(pass.ann)
           /\ pass' = [pass EXCEPT !.status = clearAdoptionConfigInvalidCondition(@)]
           /\ pc' = IF pass.ann.storage = None THEN AfterStorage ELSE "storage"
  <2>1. clearAdoptionConfigInvalidCondition(pass.status) \in Statuses
    BY <1>1 DEF clearAdoptionConfigInvalidCondition, Statuses, Conds
  <2>2. pass' \in Passes /\ pass'.ann = pass.ann
    BY <1>1, <1>3, <2>1 DEF Passes
  <2>3. /\ pass.ann.storage \in Legacies \cup {None}
        /\ pass.ann.networking \in Legacies \cup {None}
    BY <1>1, <1>3, AcceptedSources
  <2>4. CASE pass.ann.storage = None
    BY <1>1, <1>3, <2>2, <2>3, <2>4, AfterStorageOK, LocalOK
  <2>5. CASE pass.ann.storage # None
    <3>1. PassOK'
      BY <1>3, <2>2, <2>3, <2>5 DEF PassOK, PCs
    <3> QED
      BY <1>1, <3>1, LocalOK
  <2> QED
    BY <2>4, <2>5
<1> QED
  BY <1>2, <1>3 DEF adoptLegacyResources, Goto

(* adoptStorage reads the volume.                                          *)
LEMMA AdoptStorageOK ==
    ASSUME IndInv, adoptStorage
    PROVE  IndInv'
<1> DEFINE p == SeenObject("pvc", pass.ann.storage)
<1>1. /\ Local /\ pass \in Passes /\ pc = "storage"
      /\ pass.ann.storage \in Legacies /\ pass.ann.networking \in Legacies \cup {None}
  BY DEF adoptStorage, IndInv, PassOK
<1>2. p \in Objects
  BY <1>1, SeenObjectType DEF IndInv, Kinds
<1>3. CASE pc' = AfterStorage /\ UNCHANGED pass
  BY <1>1, <1>3, AfterStorageOK, LocalOK
<1>4. CASE pc' = AfterStorage /\ pass' = [pass EXCEPT !.status.StorageAdopted = "True"]
  <2>1. pass' \in Passes /\ pass'.ann = pass.ann
    BY <1>1, <1>4 DEF Passes, Statuses, Conds
  <2> QED
    BY <1>1, <1>4, <2>1, AfterStorageOK, LocalOK
<1>5. CASE pc' = "scale" /\ pass' = [pass EXCEPT !.copy = p]
  <2> HIDE DEF p
  <2>1. pass' \in Passes /\ pass'.ann = pass.ann
    BY <1>1, <1>2, <1>5 DEF Passes
  <2>2. PassOK'
    BY <1>1, <1>5, <2>1 DEF PassOK, PCs
  <2> QED
    BY <1>1, <2>2, LocalOK
<1> QED
  BY <1>3, <1>4, <1>5 DEF adoptStorage, Goto

(* scaleDownLegacyDeployment patches the Deployment.                       *)
LEMMA ScaleDownOK ==
    ASSUME IndInv, scaleDownLegacyDeployment
    PROVE  IndInv'
<1>1. /\ UNCHANGED <<cr, objs, pods, llsd, claim, edits>> /\ pass \in Passes /\ pc = "scale"
      /\ pass.ann.storage \in Legacies /\ pass.status \in Statuses
  BY DEF scaleDownLegacyDeployment, IndInv, PassOK, Passes
<1>2. \/ UNCHANGED dep
      \/ dep' = [dep EXCEPT ![pass.ann.storage].api = "zero"]
  BY DEF scaleDownLegacyDeployment
<1>3. dep' \in [Legacies -> [api: Deployments, seen: Deployments]]
  BY <1>1, <1>2 DEF IndInv, WorkOK, Deployments
<1>4. WorkOK'
  BY <1>1, <1>3 DEF IndInv, WorkOK
<1>5. CASE pc' \in {"detach", "pods"} /\ UNCHANGED pass
  <2>1. PassOK'
    BY <1>1, <1>5 DEF IndInv, PassOK, PCs
  <2> QED
    BY <1>1, <1>4, <2>1, Kept DEF IndInv
<1>6. CASE Finish(pass.status)
  BY <1>1, <1>4, <1>6, FinishOK, Kept DEF IndInv
<1> QED
  BY <1>5, <1>6 DEF scaleDownLegacyDeployment, Goto

(* The wait for the legacy Pods reads.                                     *)
LEMMA ListLegacyPodsOK ==
    ASSUME IndInv, listLegacyPods
    PROVE  IndInv'
<1>1. /\ Local /\ pass \in Passes /\ pc = "pods" /\ pass.status \in Statuses
      /\ pass.ann.storage \in Legacies /\ pass.ann.networking \in Legacies \cup {None}
  BY DEF listLegacyPods, IndInv, PassOK, Passes
<1>2. CASE pc' = "detach" /\ UNCHANGED pass
  <2>1. PassOK'
    BY <1>1, <1>2 DEF IndInv, PassOK, PCs
  <2> QED
    BY <1>1, <2>1, LocalOK
<1>3. CASE /\ pass.ann.networking # None /\ pc' = "service"
           /\ pass' = [pass EXCEPT !.requeue = TRUE, !.copy = Absent]
  <2>1. pass' \in Passes /\ pass'.ann = pass.ann
    BY <1>1, <1>3, ConstantTypes DEF Passes
  <2>2. PassOK'
    BY <1>1, <1>3, <2>1 DEF PassOK, PCs
  <2> QED
    BY <1>1, <2>2, LocalOK
<1>4. CASE Finish(pass.status)
  BY <1>1, <1>4, FinishOK, LocalOK
<1> QED
  BY <1>2, <1>3, <1>4 DEF listLegacyPods, Goto

(* detachAndLabelPVC takes the volume only from its LLSD or from nobody.   *)
LEMMA DetachPVCOK ==
    ASSUME IndInv, DetachPVC
    PROVE  IndInv'
<1> DEFINE x == <<"pvc", pass.ann.storage>>
           new == detachAndLabelPVC(pass.server, objs[x].api)
<1>1. /\ UNCHANGED <<cr, dep, pods, llsd, claim, edits>> /\ pass \in Passes /\ pc = "detach"
      /\ pass.ann.storage \in Legacies /\ pass.ann.networking \in Legacies \cup {None}
      /\ pass.server \in Servers /\ pass.status \in Statuses
  BY DEF DetachPVC, IndInv, PassOK, Passes
<1>2. x \in Slots
  BY <1>1 DEF Slots, Kinds
<1>3. CASE /\ isExpectedLegacyOwnerRef(pass.copy) /\ objs[x].api = pass.copy
           /\ objs' = [objs EXCEPT ![x].api = new]
           /\ pass' = [pass EXCEPT !.status.StorageAdopted = "True", !.copy = Absent]
           /\ pc' = AfterStorage
  <2> HIDE DEF x
  <2>1. objs[x].api \in Objects /\ objs[x].api.owner \in {"legacy", "none"}
    BY <1>2, <1>3 DEF IndInv, ObjsOK, Copies, isExpectedLegacyOwnerRef
  <2>2. new \in Objects /\ new.owner = "none" /\ new.exists = objs[x].api.exists
    BY <1>1, <2>1, AdoptedObjectType
  <2>3. objs[x].seen.owner \in Servers => ~new.exists
    BY <1>2, <2>1, <2>2, ServerAssumption DEF IndInv, OwnersOK
  <2> HIDE DEF new
  <2>4. ObjsOK' /\ OwnersOK'
    BY <1>2, <1>3, <2>2, <2>3, SetApiOK DEF IndInv
  <2>5. pass' \in Passes /\ pass'.ann = pass.ann
    BY <1>1, <1>3, ConstantTypes DEF Passes, Statuses, Conds
  <2> QED
    BY <1>1, <1>3, <2>4, <2>5, AfterStorageOK, Kept DEF IndInv
<1>4. CASE UNCHANGED objs /\ Finish(pass.status)
  BY <1>1, <1>4, FinishOK, Kept DEF IndInv
<1> QED
  BY <1>3, <1>4 DEF DetachPVC, Goto

(* What the adoption of a Service or an Ingress does to the pass.          *)
NetworkOutcome(k) ==
    \/ /\ k = "service" /\ pc' = "ingress"
       /\ \E a \in BOOLEAN : pass' = [pass EXCEPT !.networking = a]
    \/ /\ k = "ingress" /\ ~pass.requeue /\ pc' = "manifests"
       /\ \E a \in BOOLEAN : pass' = [pass EXCEPT !.status = NetworkingStatus(a)]
    \/ \E st \in Statuses : Finish(st)

(* The condition adoptNetworking sets keeps the status typed.              *)
LEMMA NetworkingStatusType ==
    ASSUME pass.status \in Statuses, NEW a
    PROVE  NetworkingStatus(a) \in Statuses
BY DEF NetworkingStatus, Statuses, Conds

(* transferOwnership takes the object only from its LLSD or from nobody.   *)
LEMMA NetworkObjectStep ==
    ASSUME IndInv, NEW k \in {"service", "ingress"}, AdoptNetworkObject(k)
    PROVE  /\ UNCHANGED <<cr, dep, pods, llsd, claim, edits>> /\ pc = k
           /\ NetworkOutcome(k)
           /\ \/ UNCHANGED objs
              \/ LET x == <<k, pass.ann.networking>>
                 IN  /\ x \in Slots
                     /\ objs[x].api.owner \in {"legacy", "none"}
                     /\ objs' = [objs EXCEPT ![x].api =
                                     transferOwnership(pass.server, objs[x].api)]
<1> DEFINE x == <<k, pass.ann.networking>>
           seen == SeenObject(k, pass.ann.networking)
           Done(adopted) ==
            \/ /\ k = "service"
               /\ Goto("ingress")
               /\ pass' = [pass EXCEPT !.networking = adopted]
            \/ /\ k = "ingress" /\ ~pass.requeue
               /\ Goto("manifests")
               /\ pass' = [pass EXCEPT !.status = NetworkingStatus(pass.networking \/ adopted)]
            \/ /\ k = "ingress" /\ pass.requeue
               /\ Finish(NetworkingStatus(pass.networking \/ adopted))
<1>1. /\ UNCHANGED <<cr, dep, pods, llsd, claim, edits>> /\ pc = k
      /\ \/ UNCHANGED objs
         \/ /\ isExpectedLegacyOwnerRef(seen) /\ objs[x].api = seen
            /\ objs' = [objs EXCEPT ![x].api = transferOwnership(pass.server, @)]
      /\ Done(TRUE) \/ Done(FALSE) \/ Finish(pass.status)
  BY DEF AdoptNetworkObject
<1>2. pass.status \in Statuses /\ pass.networking \in BOOLEAN /\ pass.ann.networking \in Legacies
  BY <1>1 DEF IndInv, PassOK, Passes
<1>3. x \in Slots
  BY <1>2 DEF Slots, Kinds
<1>4. ASSUME NEW adopted \in BOOLEAN, Done(adopted) PROVE NetworkOutcome(k)
  <2>1. pass.networking \/ adopted \in BOOLEAN
    BY <1>2
  <2>2. NetworkingStatus(pass.networking \/ adopted) \in Statuses
    BY <1>2, NetworkingStatusType
  <2> QED
    BY <1>4, <2>1, <2>2 DEF NetworkOutcome, Goto
<1>5. NetworkOutcome(k)
  <2>1. CASE Finish(pass.status)
    BY <1>2, <2>1 DEF NetworkOutcome
  <2> QED
    BY <1>1, <1>4, <2>1
<1> QED
  BY <1>1, <1>3, <1>5 DEF isExpectedLegacyOwnerRef

(* adoptLegacyService and adoptLegacyIngress.                              *)
LEMMA AdoptNetworkObjectOK ==
    ASSUME IndInv, NEW k \in {"service", "ingress"}, AdoptNetworkObject(k)
    PROVE  IndInv'
<1> DEFINE x == <<k, pass.ann.networking>>
           new == transferOwnership(pass.server, objs[x].api)
<1>1. UNCHANGED <<cr, dep, pods, llsd, claim, edits>> /\ pc = k /\ NetworkOutcome(k)
  BY NetworkObjectStep
<1>2. /\ pass \in Passes /\ pass.server \in Servers /\ pass.status \in Statuses
      /\ pass.ann.networking \in Legacies
  BY <1>1 DEF IndInv, PassOK, Passes
<1>3. ObjsOK' /\ OwnersOK'
  <2>1. CASE UNCHANGED objs
    BY <2>1, Kept
  <2>2. CASE /\ x \in Slots /\ objs[x].api.owner \in {"legacy", "none"}
             /\ objs' = [objs EXCEPT ![x].api = new]
    <3> HIDE DEF x
    <3>1. objs[x].api \in Objects
      BY <2>2 DEF IndInv, ObjsOK, Copies
    <3>2. new \in Objects /\ new.owner = pass.server /\ new.exists = objs[x].api.exists
      BY <1>2, <3>1, AdoptedObjectType
    <3>3. objs[x].seen.owner \in Servers => ~new.exists
      BY <2>2, <3>2, ServerAssumption DEF IndInv, OwnersOK
    <3>4. new.owner # "legacy"
      BY <1>2, <3>2, ServerAssumption
    <3> HIDE DEF new
    <3> QED
      BY <2>2, <3>2, <3>3, <3>4, SetApiOK DEF IndInv
  <2> QED
    BY <2>1, <2>2, NetworkObjectStep
<1>4. PassOK'
  <2>1. CASE pc' = "ingress" /\ \E a \in BOOLEAN : pass' = [pass EXCEPT !.networking = a]
    <3>1. pass' \in Passes /\ pass'.ann = pass.ann
      BY <1>2, <2>1 DEF Passes
    <3> QED
      BY <1>2, <2>1, <3>1 DEF PassOK, PCs
  <2>2. CASE /\ pc' = "manifests"
             /\ \E a \in BOOLEAN : pass' = [pass EXCEPT !.status = NetworkingStatus(a)]
    <3>1. pass' \in Passes
      BY <1>2, <2>2, NetworkingStatusType DEF Passes
    <3> QED
      BY <2>2, <3>1 DEF PassOK, PCs
  <2>3. CASE \E st \in Statuses : Finish(st)
    BY <1>2, <2>3, FinishOK
  <2> QED
    BY <1>1, <2>1, <2>2, <2>3 DEF NetworkOutcome
<1> QED
  BY <1>1, <1>3, <1>4, Kept DEF IndInv

(* reconcileAllManifestResources gives the Deployment its volume.          *)
LEMMA ManifestsOK ==
    ASSUME IndInv, reconcileAllManifestResources
    PROVE  IndInv'
<1> DEFINE volumes == resolveEffectivePVCName(pass.server, pass.ann.storage)
<1>1. UNCHANGED <<cr, objs, dep, pods, llsd, edits>> /\ pc = "manifests"
  BY DEF reconcileAllManifestResources, cluster
<1>2. pass \in Passes /\ pass.server \in Servers /\ pass.status \in Statuses
  BY DEF IndInv, PassOK, Passes
<1>3. volumes \subseteq Legacies \cup {Own}
  BY <1>2, VolumesType
<1>4. CASE /\ \E v \in volumes : claim' = [claim EXCEPT ![pass.server] = v]
           /\ pc' = "cleanup" /\ UNCHANGED pass
  <2>1. claim' \in [Servers -> Legacies \cup {Own, None}]
    BY <1>2, <1>3, <1>4 DEF IndInv, WorkOK
  <2>2. WorkOK'
    BY <1>1, <2>1 DEF IndInv, WorkOK
  <2>3. PassOK'
    BY <1>2, <1>4 DEF PassOK, PCs
  <2> QED
    BY <1>1, <2>2, <2>3, Kept DEF IndInv
<1>5. CASE Finish([pass.status EXCEPT !.AdoptionConfigInvalid = "True"]) /\ UNCHANGED claim
  <2>1. [pass.status EXCEPT !.AdoptionConfigInvalid = "True"] \in Statuses
    BY <1>2 DEF Statuses, Conds
  <2> QED
    BY <1>1, <1>2, <1>5, <2>1, FinishOK, Kept DEF IndInv
<1> QED
  BY <1>4, <1>5 DEF reconcileAllManifestResources, Goto

(* Deleting what the cache shows as adopted hits only objects the server   *)
(* still owns, or nothing.                                                 *)
LEMMA DeleteAdoptedOK ==
    ASSUME IndInv, NEW k \in Kinds, DeleteAdopted(k)
    PROVE  /\ ObjsOK' /\ OwnersOK'
           /\ \A x \in Slots : /\ objs'[x].seen = objs[x].seen
                               /\ \/ objs'[x].api = objs[x].api
                                  \/ /\ x[1] = k /\ objs'[x].api = Absent
                                     /\ \/ objs[x].api.owner = pass.server
                                        \/ ~objs[x].api.exists
<1>1. pass.server \in Servers
  BY DEF IndInv, PassOK, Passes
<1>2. objs' = [x \in Slots |->
                IF x[1] = k /\ shouldDeleteAdoptedResource(pass.server, SeenObject(k, x[2]))
                THEN [objs[x] EXCEPT !.api = Absent] ELSE objs[x]]
  BY DEF DeleteAdopted, Slots
<1>3. ASSUME NEW x \in Slots
      PROVE  /\ objs'[x] \in Copies /\ objs'[x].seen = objs[x].seen
             /\ \/ objs'[x].api = objs[x].api
                \/ /\ x[1] = k /\ objs'[x].api = Absent
                   /\ objs[x].api.owner = pass.server \/ ~objs[x].api.exists
  <2>1. objs[x] \in Copies
    BY <1>3 DEF IndInv, ObjsOK
  <2>2. CASE x[1] = k /\ shouldDeleteAdoptedResource(pass.server, SeenObject(k, x[2]))
    <3>1. objs'[x] = [objs[x] EXCEPT !.api = Absent]
      BY <1>2, <1>3, <2>2
    <3>2. objs'[x] \in Copies /\ objs'[x].seen = objs[x].seen /\ objs'[x].api = Absent
      BY <2>1, <3>1, ConstantTypes DEF Copies
    <3>3. x[2] \in Legacies /\ x = <<k, x[2]>>
      BY <1>3, <2>2 DEF Slots
    <3>4. SeenObject(k, x[2]) = objs[x].seen
      BY <2>2, <3>3, SeenObjectType DEF IndInv, shouldDeleteAdoptedResource
    <3>5. objs[x].seen.owner = pass.server
      BY <2>2, <3>4 DEF shouldDeleteAdoptedResource
    <3> QED
      BY <1>1, <1>3, <2>2, <3>2, <3>5 DEF IndInv, OwnersOK
  <2>3. CASE ~(x[1] = k /\ shouldDeleteAdoptedResource(pass.server, SeenObject(k, x[2])))
    BY <1>2, <1>3, <2>1, <2>3
  <2> QED
    BY <2>2, <2>3
<1>4. ObjsOK'
  BY <1>2, <1>3 DEF ObjsOK
<1>5. OwnersOK'
  BY <1>3, ConstantTypes DEF IndInv, OwnersOK
<1> QED
  BY <1>3, <1>4, <1>5

(* cleanupAdoptedNetworking deletes the adopted Services, then the         *)
(* Ingresses.                                                              *)
LEMMA CleanupOK ==
    ASSUME IndInv, cleanupAdoptedServices \/ cleanupAdoptedIngresses
    PROVE  IndInv'
<1>1. UNCHANGED <<cr, dep, pods, llsd, claim, edits>>
  BY DEF cleanupAdoptedServices, cleanupAdoptedIngresses
<1>2. pass \in Passes /\ pass.status \in Statuses
  BY DEF IndInv, PassOK, Passes
<1>3. "service" \in Kinds /\ "ingress" \in Kinds
  BY DEF Kinds
<1>4. ObjsOK' /\ OwnersOK'
  BY <1>3, DeleteAdoptedOK, Kept DEF cleanupAdoptedServices, cleanupAdoptedIngresses
<1>5. [pass.status EXCEPT !.NetworkingAdopted = "False"] \in Statuses
  BY <1>2 DEF Statuses, Conds
<1>6. PassOK'
  <2>1. CASE pc' = "cleanupIngress" /\ UNCHANGED pass
    BY <1>2, <2>1 DEF PassOK, PCs
  <2>2. CASE \E st \in Statuses : Finish(st)
    BY <1>2, <2>2, FinishOK
  <2> QED
    BY <1>2, <1>5, <2>1, <2>2 DEF cleanupAdoptedServices, cleanupAdoptedIngresses, Goto
<1> QED
  BY <1>1, <1>4, <1>6, Kept DEF IndInv

(* updateStatus writes the status of the pass on the cached CR.            *)
LEMMA UpdateStatusOK ==
    ASSUME IndInv, updateStatus
    PROVE  IndInv'
<1> DEFINE o == pass.server
           v == [ann |-> Cached(o).ann, status |-> pass.status]
<1>1. /\ UNCHANGED <<objs, dep, pods, llsd, claim, edits>>
      /\ pc' = "idle" /\ pass' = IdlePass
      /\ cr' = [cr EXCEPT ![o] = IF Cached(o).status = pass.status THEN cr[o]
                                 ELSE Append(cr[o], v)]
  BY DEF updateStatus, Goto, cluster
<1>2. o \in Servers /\ cr[o] \in Seq(Versions) /\ Len(cr[o]) > 0 /\ pass.status \in Statuses
  BY DEF IndInv, CRsOK, PassOK, Passes
<1>3. Cached(o) \in Versions
  BY <1>2 DEF Cached
<1>4. v \in Versions
  BY <1>2, <1>3 DEF Versions
<1> HIDE DEF v, o
<1>5. Append(cr[o], v) \in Seq(Versions) /\ Len(Append(cr[o], v)) > 0
  BY <1>2, <1>4
<1>6. CRsOK'
  BY <1>1, <1>2, <1>5 DEF IndInv, CRsOK
<1> QED
  BY <1>1, <1>6, IdleOK, Kept DEF IndInv

(* A lost pass, and a pass that a failing call ends.                       *)
LEMMA FaultsOK ==
    ASSUME IndInv, StatusLost \/ CallFails
    PROVE  IndInv'
<1>1. CASE StatusLost
  BY <1>1, IdleOK, LocalOK DEF StatusLost, Goto
<1>2. CASE CallFails
  <2>1. pass \in Passes /\ pass.status \in Statuses
    BY DEF IndInv, PassOK, Passes
  <2> QED
    BY <1>2, <2>1, FinishOK, LocalOK DEF CallFails
<1> QED
  BY <1>1, <1>2

(* The informers bring the caches nearer to what is stored.                *)
LEMMA InformersOK ==
    ASSUME IndInv, Informers
    PROVE  IndInv'
<1>1. CASE SyncCR
  <2>1. PICK o \in Servers : Len(cr[o]) > 1 /\ cr' = [cr EXCEPT ![o] = Tail(cr[o])]
    BY <1>1 DEF SyncCR
  <2>2. Tail(cr[o]) \in Seq(Versions) /\ Len(Tail(cr[o])) > 0
    BY <2>1 DEF IndInv, CRsOK
  <2>3. CRsOK'
    BY <2>1, <2>2 DEF IndInv, CRsOK
  <2> QED
    BY <1>1, <2>3, Kept DEF SyncCR, IndInv, cluster
<1>2. CASE SyncObject
  <2>1. PICK x \in Slots : objs' = [objs EXCEPT ![x].seen = objs[x].api]
    BY <1>2 DEF SyncObject, Slots
  <2>2. objs[x] \in Copies /\ objs'[x] = [objs[x] EXCEPT !.seen = objs[x].api]
        /\ \A y \in Slots \ {x} : objs'[y] = objs[y]
    BY <2>1 DEF IndInv, ObjsOK
  <2>3. /\ objs'[x].seen = objs[x].api /\ objs'[x].api = objs[x].api
        /\ objs'[x] \in Copies
    BY <2>2 DEF Copies
  <2>4. ObjsOK'
    BY <2>1, <2>2, <2>3 DEF IndInv, ObjsOK
  <2>5. OwnersOK'
    BY <2>2, <2>3 DEF IndInv, OwnersOK
  <2> QED
    BY <1>2, <2>4, <2>5, Kept DEF SyncObject, IndInv
<1>3. CASE SyncWorkload
  <2>1. PICK l \in Legacies :
            \/ dep' = [dep EXCEPT ![l].seen = dep[l].api] /\ UNCHANGED pods
            \/ pods' = [pods EXCEPT ![l].seen = pods[l].api] /\ UNCHANGED dep
    BY <1>3 DEF SyncWorkload
  <2>2. dep' \in [Legacies -> [api: Deployments, seen: Deployments]]
    BY <2>1 DEF IndInv, WorkOK
  <2>3. pods' \in [Legacies -> [api: BOOLEAN, seen: BOOLEAN]]
    BY <2>1 DEF IndInv, WorkOK
  <2>4. WorkOK'
    BY <1>3, <2>2, <2>3 DEF SyncWorkload, IndInv, WorkOK
  <2> QED
    BY <1>3, <2>4, Kept DEF SyncWorkload, IndInv
<1> QED
  BY <1>1, <1>2, <1>3 DEF Informers

(* What the garbage collector does to one object.                          *)
LEMMA CollectObjectStep ==
    ASSUME IndInv, CollectObject
    PROVE  \E x \in Slots : \E new \in Objects :
              /\ objs' = [objs EXCEPT ![x].api = new]
              /\ objs[x].api.exists
              /\ objs[x].api.owner = "legacy" \/ objs[x].api.deleting
              /\ new.from = objs[x].api.from \/ ~new.from
              /\ new.owner = objs[x].api.owner \/ (new = Absent /\ (x[1] = "pvc" => ~pods[x[2]].api))
              /\ ~new.exists => new = Absent /\ (x[1] = "pvc" => ~pods[x[2]].api)
<1>1. PICK x \in Slots :
          /\ objs[x].api.exists
          /\ objs[x].api.owner = "legacy" \/ objs[x].api.deleting
          /\ objs' = [objs EXCEPT ![x].api =
                         IF x[1] = "pvc" /\ pods[x[2]].api
                         THEN [objs[x].api EXCEPT !.deleting = TRUE] ELSE Absent]
  BY DEF CollectObject, Slots
<1>2. objs[x].api \in Objects
  BY DEF IndInv, ObjsOK, Copies
<1>3. CASE x[1] = "pvc" /\ pods[x[2]].api
  <2> DEFINE new == [objs[x].api EXCEPT !.deleting = TRUE]
  <2>1. /\ new \in Objects /\ new.owner = objs[x].api.owner
        /\ new.from = objs[x].api.from /\ new.exists
    BY <1>1, <1>2 DEF Objects
  <2>2. objs' = [objs EXCEPT ![x].api = new]
    BY <1>1, <1>3
  <2> HIDE DEF new
  <2> QED
    BY <1>1, <2>1, <2>2
<1>4. CASE ~(x[1] = "pvc" /\ pods[x[2]].api)
  BY <1>1, <1>4, ConstantTypes
<1> QED
  BY <1>3, <1>4

(* The ReplicaSet controller and the garbage collector.                    *)
LEMMA ControllersOK ==
    ASSUME IndInv, Controllers
    PROVE  IndInv'
<1>1. CASE PodsStop \/ PodsStart
  <2>1. \E l \in Legacies : \E b \in BOOLEAN : pods' = [pods EXCEPT ![l].api = b]
    BY <1>1 DEF PodsStop, PodsStart
  <2>2. pods' \in [Legacies -> [api: BOOLEAN, seen: BOOLEAN]]
    BY <2>1 DEF IndInv, WorkOK
  <2>3. UNCHANGED <<cr, objs, dep, llsd, claim, pc, pass, edits>>
    BY <1>1 DEF PodsStop, PodsStart
  <2>4. WorkOK'
    BY <2>2, <2>3 DEF IndInv, WorkOK
  <2> QED
    BY <2>3, <2>4, Kept DEF IndInv
<1>2. CASE CollectObject
  <2>1. PICK x \in Slots : \E new \in Objects :
              /\ objs' = [objs EXCEPT ![x].api = new]
              /\ objs[x].api.exists
              /\ new.from = objs[x].api.from \/ ~new.from
              /\ new.owner = objs[x].api.owner \/ new = Absent
    BY <1>2, CollectObjectStep
  <2>2. PICK new \in Objects :
              /\ objs' = [objs EXCEPT ![x].api = new]
              /\ objs[x].api.exists
              /\ new.from = objs[x].api.from \/ ~new.from
              /\ new.owner = objs[x].api.owner \/ new = Absent
    BY <2>1
  <2>3. new.from => new.owner # "legacy"
    BY <2>2, ConstantTypes DEF IndInv, OwnersOK
  <2>4. objs[x].seen.owner \in Servers => new.owner = objs[x].seen.owner \/ ~new.exists
    BY <2>2, ConstantTypes DEF IndInv, OwnersOK
  <2>5. ObjsOK' /\ OwnersOK'
    BY <2>2, <2>3, <2>4, SetApiOK DEF IndInv
  <2> QED
    BY <1>2, <2>5, Kept DEF CollectObject, IndInv
<1>3. CASE CollectDeployment
  <2>1. dep' \in [Legacies -> [api: Deployments, seen: Deployments]]
    BY <1>3 DEF CollectDeployment, IndInv, WorkOK, Deployments
  <2>2. WorkOK'
    BY <1>3, <2>1 DEF CollectDeployment, IndInv, WorkOK
  <2> QED
    BY <1>3, <2>2, Kept DEF CollectDeployment, IndInv
<1> QED
  BY <1>1, <1>2, <1>3 DEF Controllers

(* What users do.                                                          *)
LEMMA UsersOK ==
    ASSUME IndInv, Users
    PROVE  IndInv'
<1>1. edits' \in 0..(MaxEdits + 1)
  BY SettingAssumption
     DEF Users, UserAnnotates, UserDeletesLLSD, UserScalesUp, PodsFail, CalmDown, UserStep,
         IndInv, WorkOK
<1>2. UNCHANGED <<objs, claim, pc, pass>>
  BY DEF Users, UserAnnotates, UserDeletesLLSD, UserScalesUp, PodsFail, CalmDown, cluster
<1>3. CRsOK'
  <2>1. CASE UserAnnotates
    <3>1. PICK o \in Servers, a \in AnnotationChoices :
              cr' = [cr EXCEPT ![o] = Append(cr[o], [Stored(o) EXCEPT !.ann = a])]
      BY <2>1 DEF UserAnnotates
    <3> DEFINE v == [Stored(o) EXCEPT !.ann = a]
    <3>2. cr[o] \in Seq(Versions) /\ Len(cr[o]) > 0 /\ Stored(o) \in Versions
      BY DEF IndInv, CRsOK, Stored
    <3>3. v \in Versions
      BY <3>2, AnnotationAssumption DEF Versions
    <3> HIDE DEF v
    <3>4. Append(cr[o], v) \in Seq(Versions) /\ Len(Append(cr[o], v)) > 0
      BY <3>2, <3>3
    <3>5. cr' = [cr EXCEPT ![o] = Append(cr[o], v)]
      BY <3>1 DEF v
    <3> QED
      BY <3>4, <3>5 DEF IndInv, CRsOK
  <2>2. CASE UNCHANGED cr
    BY <2>2, Kept
  <2> QED
    BY <2>1, <2>2 DEF Users, UserDeletesLLSD, UserScalesUp, PodsFail, CalmDown
<1>4. dep' \in [Legacies -> [api: Deployments, seen: Deployments]]
  BY DEF Users, UserAnnotates, UserDeletesLLSD, UserScalesUp, PodsFail, CalmDown, cluster,
         IndInv, WorkOK, Deployments
<1>5. pods' \in [Legacies -> [api: BOOLEAN, seen: BOOLEAN]]
  BY DEF Users, UserAnnotates, UserDeletesLLSD, UserScalesUp, PodsFail, CalmDown, cluster,
         IndInv, WorkOK
<1>6. llsd' \subseteq Legacies
  BY DEF Users, UserAnnotates, UserDeletesLLSD, UserScalesUp, PodsFail, CalmDown, cluster,
         IndInv, WorkOK
<1>7. WorkOK'
  BY <1>1, <1>2, <1>4, <1>5, <1>6 DEF IndInv, WorkOK
<1> QED
  BY <1>2, <1>3, <1>7, Kept DEF IndInv
--------------------------------------------------------------------------------
(* Every step of the operator, the cluster and the users preserves it.     *)
LEMMA NextOK == IndInv /\ [Next]_vars => IndInv'
<1> SUFFICES ASSUME IndInv, [Next]_vars PROVE IndInv'
  OBVIOUS
<1>1. CASE Operator
  BY <1>1, BeginOK, AdoptLegacyResourcesOK, AdoptStorageOK, ScaleDownOK, ListLegacyPodsOK,
     DetachPVCOK, AdoptNetworkObjectOK, ManifestsOK, CleanupOK, UpdateStatusOK, FaultsOK
     DEF Operator, PassStep, adoptLegacyService, adoptLegacyIngress
<1>2. CASE UNCHANGED vars
  BY <1>2, Kept DEF vars, IndInv
<1> QED
  BY <1>1, <1>2, InformersOK, ControllersOK, UsersOK DEF Next

(* The inductive invariant holds in every reachable state.                 *)
LEMMA IndInvInvariant == Spec => []IndInv
BY InitOK, NextOK, PTL DEF Spec

(* Every reachable state is well typed, and a pass that adopts or waits    *)
(* works on a source adoptLegacyResources accepted.                        *)
THEOREM TypeCorrect == Spec => []TypeOK
<1>1. IndInv => TypeOK
  BY DEF IndInv, TypeOK, CRsOK, ObjsOK, WorkOK, PassOK, Slots, Copies
<1> QED
  BY <1>1, IndInvInvariant, PTL

(* Deleting an LLSD takes no adopted volume, Service or Ingress with it,   *)
(* unless it was terminating already: detachAndLabelPVC and                *)
(* transferOwnership drop the legacy owner in the update that marks the    *)
(* object adopted, and no later step brings it back.                       *)
THEOREM AdoptedSurvives == Spec => AdoptedSurvivesLegacyRemoval
<1> DEFINE survives == Controllers => \A x \in Kinds \X Legacies :
                          Adopted(objs[x].api) /\ ~objs[x].api.deleting
                              => objs'[x].api = objs[x].api
<1>1. IndInv /\ [Next]_vars => [survives]_vars
  <2> SUFFICES ASSUME IndInv, Controllers, NEW x \in Slots,
                      Adopted(objs[x].api), ~objs[x].api.deleting
               PROVE  objs'[x].api = objs[x].api
    BY DEF Slots
  <2>1. CASE CollectObject
    <3>1. PICK y \in Slots : \E new \in Objects :
              /\ objs' = [objs EXCEPT ![y].api = new]
              /\ objs[y].api.owner = "legacy" \/ objs[y].api.deleting
      BY <2>1, CollectObjectStep
    <3>2. x # y
      BY <3>1 DEF IndInv, OwnersOK, Adopted
    <3> QED
      BY <3>1, <3>2 DEF IndInv, ObjsOK
  <2>2. CASE ~CollectObject
    BY <2>2 DEF Controllers, PodsStop, PodsStart, CollectDeployment
  <2> QED
    BY <2>1, <2>2
<1> QED
  BY <1>1, IndInvInvariant, PTL DEF Spec, AdoptedSurvivesLegacyRemoval

(* The operator updates or deletes no object controlled by anyone but its  *)
(* LLSD or the OGXServer of the pass: its Updates go through only on a     *)
(* copy that is not stale, and its Deletes, which go by name, only hit     *)
(* objects an OGXServer, once it has them, never loses to another.         *)
THEOREM UnexpectedOwnerSafe == Spec => UnexpectedOwnerUntouched
<1> DEFINE untouched ==
        Operator => \A x \in Kinds \X Legacies :
            (objs[x].api.exists /\ objs[x].api.owner \notin {"legacy", "none", pass.server})
                => objs'[x].api = objs[x].api
<1>1. IndInv /\ [Next]_vars => [untouched]_vars
  <2> SUFFICES ASSUME IndInv, Operator, NEW x \in Slots, objs[x].api.exists,
                      objs[x].api.owner \notin {"legacy", "none", pass.server}
               PROVE  objs'[x].api = objs[x].api
    BY DEF Slots
  <2>1. CASE DetachPVC
    <3> DEFINE y == <<"pvc", pass.ann.storage>>
    <3>1. \/ UNCHANGED objs
          \/ /\ objs[y].api.owner \in {"legacy", "none"}
             /\ objs' = [objs EXCEPT ![y].api = detachAndLabelPVC(pass.server, objs[y].api)]
      BY <2>1 DEF DetachPVC, isExpectedLegacyOwnerRef
    <3> HIDE DEF y
    <3> QED
      BY <3>1 DEF IndInv, ObjsOK
  <2>2. CASE adoptLegacyService \/ adoptLegacyIngress
    <3>1. PICK k \in {"service", "ingress"} : AdoptNetworkObject(k)
      BY <2>2 DEF adoptLegacyService, adoptLegacyIngress
    <3> DEFINE y == <<k, pass.ann.networking>>
    <3>2. \/ UNCHANGED objs
          \/ /\ objs[y].api.owner \in {"legacy", "none"}
             /\ objs' = [objs EXCEPT ![y].api = transferOwnership(pass.server, objs[y].api)]
      BY <3>1, NetworkObjectStep
    <3> HIDE DEF y
    <3> QED
      BY <3>2 DEF IndInv, ObjsOK
  <2>3. CASE cleanupAdoptedServices \/ cleanupAdoptedIngresses
    <3>1. UNCHANGED objs \/ \E k \in Kinds : DeleteAdopted(k)
      BY <2>3 DEF cleanupAdoptedServices, cleanupAdoptedIngresses, Kinds
    <3> QED
      BY <3>1, DeleteAdoptedOK
  <2>4. CASE UNCHANGED objs
    BY <2>4
  <2> QED
    BY <2>1, <2>2, <2>3, <2>4
       DEF Operator, PassStep, Begin, adoptLegacyResources, adoptStorage,
           scaleDownLegacyDeployment, listLegacyPods, reconcileAllManifestResources, updateStatus,
           StatusLost, CallFails, Local, cluster
<1> QED
  BY <1>1, IndInvInvariant, PTL DEF Spec, UnexpectedOwnerUntouched
--------------------------------------------------------------------------------
(* The legacy workload is down before its volume is mounted, as long as    *)
(* the cache sees the legacy objects (Labelled) and nobody restarts the    *)
(* legacy workload behind the operator's back (~Restarts).                 *)

(* Nothing runs on the volume of l any more, or the Deployment is gone.    *)
Quiet(l) == dep[l].api = "gone" \/ ~pods[l].api

(* The legacy workload only ever goes down, and the cache lags behind.     *)
WorkloadQuiet ==
    \A l \in Legacies :
        /\ ~pods[l].api => dep[l].api # "up"
        /\ ~pods[l].seen => ~pods[l].api
        /\ dep[l].seen = "gone" => dep[l].api = "gone"

(* A volume that is adopted, or gone, has nothing running on it.           *)
VolumeQuiet ==
    \A l \in Legacies : \A v \in {objs[<<"pvc", l>>].api, objs[<<"pvc", l>>].seen} :
        v.from \/ ~v.exists => Quiet(l)

(* A pass that is past adoptStorage, and will not requeue, has waited.     *)
PassQuiet ==
    /\ pc = "detach" => Quiet(pass.ann.storage)
    /\ (/\ pc \in {"service", "ingress", "manifests"}
        /\ validateAdoptionSources(pass.ann) /\ pass.ann.storage \in Legacies)
           => pass.requeue \/ Quiet(pass.ann.storage)
    /\ pass.requeue => pc \in {"service", "ingress"}

QuietOK == WorkloadQuiet /\ VolumeQuiet /\ PassQuiet

(* The invariant holds initially.                                          *)
LEMMA InitQuiet == Init => QuietOK
<1> SUFFICES ASSUME Init PROVE QuietOK
  OBVIOUS
<1>1. WorkloadQuiet
  BY DEF Init, WorkloadQuiet
<1>2. VolumeQuiet
  <2>1. PICK owner \in [Slots -> FirstOwners] :
            objs = [x \in Slots |->
                       [api |-> LegacyObject(owner[x]), seen |-> LegacyObject(owner[x])]]
    BY DEF Init, Slots
  <2>2. \A l \in Legacies : <<"pvc", l>> \in Slots
    BY DEF Slots, Kinds
  <2>3. \A w : LegacyObject(w).exists /\ ~LegacyObject(w).from
    BY DEF LegacyObject
  <2> QED
    BY <2>1, <2>2, <2>3 DEF VolumeQuiet
<1>3. PassQuiet
  BY ConstantTypes DEF Init, PassQuiet
<1> QED
  BY <1>1, <1>2, <1>3 DEF QuietOK

(* Nobody starts a workload that was quiet.                                *)
LEMMA NextWorkloadQuiet ==
    ASSUME ~Restarts, IndInv, WorkloadQuiet, [Next]_vars
    PROVE  WorkloadQuiet' /\ \A l \in Legacies : Quiet(l) => Quiet(l)'
<1>1. /\ dep \in [Legacies -> [api: Deployments, seen: Deployments]]
      /\ pods \in [Legacies -> [api: BOOLEAN, seen: BOOLEAN]]
  BY DEF IndInv, WorkOK
<1>2. CASE UNCHANGED <<dep, pods>>
  BY <1>2 DEF WorkloadQuiet, Quiet
<1>3. CASE scaleDownLegacyDeployment
  <2>1. UNCHANGED pods
    BY <1>3 DEF scaleDownLegacyDeployment
  <2>2. CASE UNCHANGED dep
    BY <1>2, <2>1, <2>2
  <2>3. CASE /\ dep[pass.ann.storage].api # "gone" /\ pass.ann.storage \in Legacies
             /\ dep' = [dep EXCEPT ![pass.ann.storage].api = "zero"]
    BY <1>1, <2>1, <2>3 DEF WorkloadQuiet, Quiet
  <2> QED
    BY <1>3, <2>2, <2>3 DEF scaleDownLegacyDeployment, IndInv, PassOK
<1>4. CASE SyncWorkload
  <2>1. PICK l \in Legacies :
            \/ dep' = [dep EXCEPT ![l].seen = dep[l].api] /\ UNCHANGED pods
            \/ pods' = [pods EXCEPT ![l].seen = pods[l].api] /\ UNCHANGED dep
    BY <1>4 DEF SyncWorkload
  <2> QED
    BY <1>1, <2>1 DEF WorkloadQuiet, Quiet
<1>5. CASE PodsStop
  <2>1. PICK l \in Legacies : dep[l].api # "up" /\ pods' = [pods EXCEPT ![l].api = FALSE]
    BY <1>5 DEF PodsStop
  <2>2. UNCHANGED dep
    BY <1>5 DEF PodsStop
  <2> QED
    BY <1>1, <2>1, <2>2 DEF WorkloadQuiet, Quiet
<1>6. CASE PodsStart
  BY <1>6 DEF PodsStart, WorkloadQuiet
<1>7. CASE CollectDeployment
  <2>1. PICK l \in Legacies : dep' = [dep EXCEPT ![l].api = "gone"]
    BY <1>7 DEF CollectDeployment
  <2>2. UNCHANGED pods
    BY <1>7 DEF CollectDeployment
  <2> QED
    BY <1>1, <2>1, <2>2 DEF WorkloadQuiet, Quiet
<1>8. CASE Operator /\ ~scaleDownLegacyDeployment
  <2>1. UNCHANGED <<dep, pods>>
    BY <1>8 DEF Operator, PassStep, Begin, adoptLegacyResources, adoptStorage, listLegacyPods,
         DetachPVC, adoptLegacyService, adoptLegacyIngress, AdoptNetworkObject,
         reconcileAllManifestResources, cleanupAdoptedServices, cleanupAdoptedIngresses,
         updateStatus, StatusLost, CallFails, Local, cluster
  <2> QED
    BY <1>2, <2>1
<1>9. CASE SyncCR \/ SyncObject \/ CollectObject \/ Users \/ UNCHANGED vars
  <2>1. UNCHANGED <<dep, pods>>
    BY <1>9 DEF SyncCR, SyncObject, CollectObject, Users, UserAnnotates, UserDeletesLLSD,
         UserScalesUp, PodsFail, CalmDown, vars, cluster
  <2> QED
    BY <1>2, <2>1
<1> QED
  BY <1>3, <1>4, <1>5, <1>6, <1>7, <1>8, <1>9 DEF Next, Informers, Controllers

(* A volume is adopted, or goes, only once it is quiet.                    *)
LEMMA NextVolumeQuiet ==
    ASSUME ~Restarts, IndInv, QuietOK, [Next]_vars
    PROVE  VolumeQuiet'
<1>1. \A l \in Legacies : Quiet(l) => Quiet(l)'
  BY NextWorkloadQuiet DEF QuietOK
<1>2. \A l \in Legacies : <<"pvc", l>> \in Slots
  BY DEF Slots, Kinds
<1>3. CASE \A l \in Legacies : objs'[<<"pvc", l>>] = objs[<<"pvc", l>>]
  BY <1>1, <1>3 DEF QuietOK, VolumeQuiet
<1>4. CASE UNCHANGED objs
  BY <1>3, <1>4
<1>5. CASE DetachPVC
  <2> DEFINE x == <<"pvc", pass.ann.storage>>
             new == detachAndLabelPVC(pass.server, objs[x].api)
  <2>1. Quiet(pass.ann.storage) /\ pass.ann.storage \in Legacies
    BY <1>5 DEF DetachPVC, QuietOK, PassQuiet, IndInv, PassOK
  <2>2. UNCHANGED objs \/ objs' = [objs EXCEPT ![x].api = new]
    BY <1>5 DEF DetachPVC
  <2>3. \A l \in Legacies \ {pass.ann.storage} : objs'[<<"pvc", l>>] = objs[<<"pvc", l>>]
    <3>1. \A l \in Legacies \ {pass.ann.storage} : <<"pvc", l>> # x
      OBVIOUS
    <3> HIDE DEF x, new
    <3> QED
      BY <1>2, <2>2, <3>1 DEF IndInv, ObjsOK
  <2> QED
    BY <1>1, <2>1, <2>3 DEF QuietOK, VolumeQuiet
<1>6. CASE adoptLegacyService \/ adoptLegacyIngress
  <2>1. PICK k \in {"service", "ingress"} : AdoptNetworkObject(k)
    BY <1>6 DEF adoptLegacyService, adoptLegacyIngress
  <2> DEFINE x == <<k, pass.ann.networking>>
             new == transferOwnership(pass.server, objs[x].api)
  <2>2. UNCHANGED objs \/ objs' = [objs EXCEPT ![x].api = new]
    BY <2>1, NetworkObjectStep
  <2>3. \A l \in Legacies : <<"pvc", l>> # x
    BY <2>1
  <2> HIDE DEF x, new
  <2>4. \A l \in Legacies : objs'[<<"pvc", l>>] = objs[<<"pvc", l>>]
    BY <1>2, <2>2, <2>3 DEF IndInv, ObjsOK
  <2> QED
    BY <1>3, <2>4
<1>7. CASE cleanupAdoptedServices \/ cleanupAdoptedIngresses
  <2>1. UNCHANGED objs \/ \E k \in {"service", "ingress"} : DeleteAdopted(k)
    BY <1>7 DEF cleanupAdoptedServices, cleanupAdoptedIngresses
  <2>2. ASSUME NEW k \in {"service", "ingress"}, DeleteAdopted(k)
        PROVE  \A l \in Legacies : objs'[<<"pvc", l>>] = objs[<<"pvc", l>>]
    BY <1>2, <2>2 DEF DeleteAdopted, Slots
  <2> QED
    BY <1>3, <1>4, <2>1, <2>2
<1>8. CASE SyncObject
  <2>1. PICK x \in Slots : objs' = [objs EXCEPT ![x].seen = objs[x].api]
    BY <1>8 DEF SyncObject, Slots
  <2>2. ASSUME NEW l \in Legacies
        PROVE  /\ objs'[<<"pvc", l>>].api = objs[<<"pvc", l>>].api
               /\ objs'[<<"pvc", l>>].seen \in {objs[<<"pvc", l>>].api, objs[<<"pvc", l>>].seen}
    <3>1. <<"pvc", l>> \in Slots
      BY <1>2
    <3> QED
      BY <2>1, <3>1 DEF IndInv, ObjsOK, Copies
  <2> QED
    BY <1>1, <2>2 DEF QuietOK, VolumeQuiet
<1>9. CASE CollectObject
  <2>1. PICK x \in Slots : \E new \in Objects :
              /\ objs' = [objs EXCEPT ![x].api = new]
              /\ new.from = objs[x].api.from \/ ~new.from
              /\ ~new.exists => (x[1] = "pvc" => ~pods[x[2]].api)
    BY <1>9, CollectObjectStep
  <2>2. PICK new \in Objects :
              /\ objs' = [objs EXCEPT ![x].api = new]
              /\ new.from = objs[x].api.from \/ ~new.from
              /\ ~new.exists => (x[1] = "pvc" => ~pods[x[2]].api)
    BY <2>1
  <2>3. ASSUME NEW l \in Legacies
        PROVE  \A v \in {objs'[<<"pvc", l>>].api, objs'[<<"pvc", l>>].seen} :
                   v.from \/ ~v.exists => Quiet(l)
    <3>1. <<"pvc", l>> \in Slots
      BY <1>2
    <3>2. CASE x = <<"pvc", l>>
      <4>1. objs'[x].api = new /\ objs'[x].seen = objs[x].seen
        BY <2>2 DEF IndInv, ObjsOK, Copies
      <4>2. new.from => Quiet(l)
        BY <2>2, <3>2 DEF QuietOK, VolumeQuiet
      <4>3. ~new.exists => Quiet(l)
        BY <2>2, <3>2 DEF Quiet
      <4> QED
        BY <3>2, <4>1, <4>2, <4>3 DEF QuietOK, VolumeQuiet
    <3>3. CASE x # <<"pvc", l>>
      <4>1. objs'[<<"pvc", l>>] = objs[<<"pvc", l>>]
        BY <2>2, <3>1, <3>3 DEF IndInv, ObjsOK
      <4> QED
        BY <4>1 DEF QuietOK, VolumeQuiet
    <3> QED
      BY <3>2, <3>3
  <2> QED
    BY <1>1, <2>3 DEF VolumeQuiet
<1>10. CASE UNCHANGED vars
  BY <1>4, <1>10 DEF vars
<1>11. CASE Operator
  BY <1>4, <1>5, <1>6, <1>7, <1>11
     DEF Operator, PassStep, Begin, adoptLegacyResources, adoptStorage,
         scaleDownLegacyDeployment, listLegacyPods, reconcileAllManifestResources, updateStatus,
         StatusLost, CallFails, Local, cluster
<1>12. CASE Informers \/ Controllers
  BY <1>4, <1>8, <1>9, <1>12
     DEF Informers, SyncCR, SyncWorkload, Controllers, PodsStop, PodsStart, CollectDeployment,
         cluster
<1>13. CASE Users
  BY <1>4, <1>13
     DEF Users, UserAnnotates, UserDeletesLLSD, UserScalesUp, PodsFail, CalmDown, cluster
<1> QED
  BY <1>10, <1>11, <1>12, <1>13 DEF Next

(* A pass gets past the wait only once the volume it names is quiet.       *)
LEMMA NextPassQuiet ==
    ASSUME Labelled, ~Restarts, IndInv, QuietOK, [Next]_vars
    PROVE  PassQuiet'
<1> DEFINE l == pass.ann.storage
<1>1. \A m \in Legacies : Quiet(m) => Quiet(m)'
  BY NextWorkloadQuiet DEF QuietOK
<1>2. pass \in Passes /\ pass.status \in Statuses
  BY DEF IndInv, PassOK, Passes
<1>3. ASSUME NEW st \in Statuses, Finish(st) PROVE PassQuiet'
  <2>1. pc' = "status" /\ ~pass'.requeue
    BY <1>2, <1>3, FinishOK
  <2> QED
    BY <2>1 DEF PassQuiet
<1>4. ASSUME pc' = "idle", pass' = IdlePass PROVE PassQuiet'
  BY <1>4, ConstantTypes DEF PassQuiet
<1>5. CASE UNCHANGED <<pc, pass>>
  <2>1. /\ pc = "detach" => l \in Legacies
    BY DEF IndInv, PassOK
  <2> QED
    BY <1>1, <1>5, <2>1 DEF QuietOK, PassQuiet, validateAdoptionSources, validateAdoptionSource,
       ValidateAdoptionAnnotation
<1>6. ASSUME pc' = AfterStorage, pass'.ann = pass.ann, l \in Legacies, Quiet(l), ~pass'.requeue
      PROVE  PassQuiet'
  BY <1>1, <1>6 DEF AfterStorage, PassQuiet
<1>7. CASE \E o \in Servers : Begin(o)
  <2>1. pc' = "adopt" /\ ~pass'.requeue
    BY <1>7, ConstantTypes DEF Begin, Goto, Passes
  <2> QED
    BY <2>1 DEF PassQuiet
<1>8. CASE adoptLegacyResources
  <2>1. ~pass.requeue
    BY <1>8 DEF adoptLegacyResources, QuietOK, PassQuiet
  <2>2. pass'.ann = pass.ann /\ ~pass'.requeue
    BY <1>2, <1>8, <2>1 DEF adoptLegacyResources, Passes
  <2>3. CASE ~validateAdoptionSources(pass.ann)
    <3>1. pc' = "manifests" /\ ~validateAdoptionSources(pass'.ann)
      BY <1>8, <2>2, <2>3 DEF adoptLegacyResources, Goto
    <3> QED
      BY <2>2, <3>1 DEF PassQuiet, validateAdoptionSources, validateAdoptionSource,
         ValidateAdoptionAnnotation
  <2>4. CASE l = None
    <3>1. pc' \in {"manifests", "service"} /\ pass'.ann.storage \notin Legacies
      BY <1>8, <2>2, <2>4, NamesDistinct DEF adoptLegacyResources, Goto, AfterStorage
    <3> QED
      BY <2>2, <3>1 DEF PassQuiet
  <2>5. CASE validateAdoptionSources(pass.ann) /\ l # None
    <3>1. pc' = "storage"
      BY <1>8, <2>5 DEF adoptLegacyResources, Goto
    <3> QED
      BY <2>2, <3>1 DEF PassQuiet
  <2> QED
    BY <2>3, <2>4, <2>5
<1>9. CASE adoptStorage
  <2> DEFINE p == SeenObject("pvc", l)
  <2>1. ~pass.requeue /\ l \in Legacies
    BY <1>9 DEF adoptStorage, QuietOK, PassQuiet, IndInv, PassOK
  <2>2. p = objs[<<"pvc", l>>].seen
    BY DEF SeenObject
  <2>3. p.from \/ ~p.exists => Quiet(l)
    BY <2>1, <2>2 DEF QuietOK, VolumeQuiet
  <2> HIDE DEF p
  <2>4. pass'.ann = pass.ann /\ ~pass'.requeue
    BY <1>2, <1>9, <2>1 DEF adoptStorage, Passes
  <2>5. \/ pc' = AfterStorage /\ (p.from \/ ~p.exists)
        \/ pc' = "scale"
    BY <1>9 DEF adoptStorage, Goto, p
  <2>6. CASE pc' = "scale"
    BY <2>4, <2>6 DEF PassQuiet
  <2> QED
    BY <1>6, <2>1, <2>3, <2>4, <2>5, <2>6
<1>10. CASE scaleDownLegacyDeployment
  <2>1. ~pass.requeue /\ l \in Legacies
    BY <1>10 DEF scaleDownLegacyDeployment, QuietOK, PassQuiet, IndInv, PassOK
  <2>2. CASE SeenDeployment(l) = "gone" /\ pc' = "detach" /\ UNCHANGED pass
    <3>1. Quiet(l)
      BY <2>1, <2>2 DEF SeenDeployment, QuietOK, WorkloadQuiet, Quiet
    <3> QED
      BY <1>1, <2>1, <2>2, <3>1 DEF PassQuiet
  <2>3. CASE pc' = "pods" /\ UNCHANGED pass
    BY <2>1, <2>3 DEF PassQuiet
  <2>4. CASE Finish(pass.status)
    BY <1>2, <1>3, <2>4
  <2> QED
    BY <1>10, <2>2, <2>3, <2>4 DEF scaleDownLegacyDeployment, Goto
<1>11. CASE listLegacyPods
  <2>1. ~pass.requeue /\ l \in Legacies
    BY <1>11 DEF listLegacyPods, QuietOK, PassQuiet, IndInv, PassOK
  <2>2. CASE ~pods[l].seen /\ pc' = "detach" /\ UNCHANGED pass
    <3>1. Quiet(l)
      BY <2>1, <2>2 DEF QuietOK, WorkloadQuiet, Quiet
    <3> QED
      BY <1>1, <2>1, <2>2, <3>1 DEF PassQuiet
  <2>3. CASE pc' = "service" /\ pass' = [pass EXCEPT !.requeue = TRUE, !.copy = Absent]
    <3>1. pass'.requeue
      BY <1>2, <2>3 DEF Passes
    <3> QED
      BY <2>3, <3>1 DEF PassQuiet
  <2>4. CASE Finish(pass.status)
    BY <1>2, <1>3, <2>4
  <2> QED
    BY <1>11, <2>2, <2>3, <2>4 DEF listLegacyPods, Goto
<1>12. CASE DetachPVC
  <2>1. ~pass.requeue /\ l \in Legacies /\ Quiet(l)
    BY <1>12 DEF DetachPVC, QuietOK, PassQuiet, IndInv, PassOK
  <2>2. CASE /\ pass' = [pass EXCEPT !.status.StorageAdopted = "True", !.copy = Absent]
             /\ pc' = AfterStorage
    <3>1. pass'.ann = pass.ann /\ ~pass'.requeue
      BY <1>2, <2>1, <2>2 DEF Passes
    <3> QED
      BY <1>6, <2>1, <2>2, <3>1
  <2>3. CASE Finish(pass.status)
    BY <1>2, <1>3, <2>3
  <2> QED
    BY <1>12, <2>2, <2>3 DEF DetachPVC, Goto
<1>13. CASE adoptLegacyService \/ adoptLegacyIngress
  <2>1. PICK k \in {"service", "ingress"} : AdoptNetworkObject(k)
    BY <1>13 DEF adoptLegacyService, adoptLegacyIngress
  <2>2. NetworkOutcome(k) /\ pc = k
    BY <2>1, NetworkObjectStep
  <2>3. CASE pc' = "ingress" /\ \E a \in BOOLEAN : pass' = [pass EXCEPT !.networking = a]
    <3>1. pass'.ann = pass.ann /\ pass'.requeue = pass.requeue
      BY <1>2, <2>3 DEF Passes
    <3> QED
      BY <1>1, <2>1, <2>2, <2>3, <3>1 DEF QuietOK, PassQuiet, validateAdoptionSources,
         validateAdoptionSource, ValidateAdoptionAnnotation
  <2>4. CASE /\ pc' = "manifests" /\ ~pass.requeue
             /\ \E a \in BOOLEAN : pass' = [pass EXCEPT !.status = NetworkingStatus(a)]
    <3>1. pass'.ann = pass.ann /\ pass'.requeue = pass.requeue
      BY <1>2, <2>4 DEF Passes
    <3> QED
      BY <1>1, <2>1, <2>2, <2>4, <3>1 DEF QuietOK, PassQuiet, validateAdoptionSources,
         validateAdoptionSource, ValidateAdoptionAnnotation
  <2> QED
    BY <1>3, <2>2, <2>3, <2>4 DEF NetworkOutcome
<1>14. CASE reconcileAllManifestResources
  <2>1. ~pass.requeue
    BY <1>14 DEF reconcileAllManifestResources, QuietOK, PassQuiet
  <2>2. CASE pc' = "cleanup" /\ UNCHANGED pass
    BY <2>1, <2>2 DEF PassQuiet
  <2>3. CASE Finish([pass.status EXCEPT !.AdoptionConfigInvalid = "True"])
    <3>1. [pass.status EXCEPT !.AdoptionConfigInvalid = "True"] \in Statuses
      BY <1>2 DEF Statuses, Conds
    <3> QED
      BY <1>3, <2>3, <3>1
  <2> QED
    BY <1>14, <2>2, <2>3 DEF reconcileAllManifestResources, Goto
<1>15. CASE cleanupAdoptedServices \/ cleanupAdoptedIngresses
  <2>1. ~pass.requeue
    BY <1>15 DEF cleanupAdoptedServices, cleanupAdoptedIngresses, QuietOK, PassQuiet
  <2>2. [pass.status EXCEPT !.NetworkingAdopted = "False"] \in Statuses
    BY <1>2 DEF Statuses, Conds
  <2>3. CASE pc' = "cleanupIngress" /\ UNCHANGED pass
    BY <2>1, <2>3 DEF PassQuiet
  <2>4. CASE \E st \in Statuses : Finish(st)
    BY <1>3, <2>4
  <2> QED
    BY <1>2, <1>15, <2>2, <2>3, <2>4 DEF cleanupAdoptedServices, cleanupAdoptedIngresses, Goto
<1>16. CASE updateStatus \/ StatusLost
  BY <1>4, <1>16 DEF updateStatus, StatusLost, Goto
<1>17. CASE CallFails
  BY <1>2, <1>3, <1>17 DEF CallFails
<1>18. CASE Informers \/ Controllers
  BY <1>5, <1>18 DEF Informers, SyncCR, SyncObject, SyncWorkload, Controllers, PodsStop,
     PodsStart, CollectObject, CollectDeployment
<1>19. CASE Users \/ UNCHANGED vars
  BY <1>5, <1>19 DEF Users, UserAnnotates, UserDeletesLLSD, UserScalesUp, PodsFail, CalmDown,
     vars
<1> QED
  BY <1>7, <1>8, <1>9, <1>10, <1>11, <1>12, <1>13, <1>14, <1>15, <1>16, <1>17, <1>18, <1>19
     DEF Next, Operator, PassStep

(* While the cache sees the legacy objects and nobody restarts the legacy  *)
(* workload, no Deployment gets a legacy volume that Pods of a Deployment  *)
(* that is still there may be using: the waits of adoptStorage, the labels *)
(* resolveEffectivePVCName goes by, and pvc-protection together see to it, *)
(* across passes, crashes, stale reads and the removal of the LLSD.        *)
THEOREM ScaledDownSafe ==
    ASSUME Labelled, ~Restarts
    PROVE  Spec => ScaledDownBeforeMount
<1> DEFINE mounted ==
        \A o \in Servers : \A l \in Legacies :
            (/\ claim'[o] = l /\ claim[o] # l /\ dep[l].api # "gone"
             /\ validateAdoptionSources(pass.ann))
                => ~pods[l].api
<1>1. IndInv /\ QuietOK /\ [Next]_vars => QuietOK'
  BY NextWorkloadQuiet, NextVolumeQuiet, NextPassQuiet DEF QuietOK
<1>2. IndInv /\ QuietOK /\ [Next]_vars => [mounted]_vars
  <2> SUFFICES ASSUME IndInv, QuietOK, [Next]_vars, NEW o \in Servers, NEW l \in Legacies,
                      claim'[o] = l, claim[o] # l, validateAdoptionSources(pass.ann)
               PROVE  Quiet(l)
    BY DEF Quiet
  <2>1. CASE reconcileAllManifestResources
    <3> DEFINE src == pass.ann.storage
    <3>1. PICK v \in resolveEffectivePVCName(pass.server, src) :
              claim' = [claim EXCEPT ![pass.server] = v]
      BY <2>1 DEF reconcileAllManifestResources
    <3>2. o = pass.server /\ l = v
      BY <3>1 DEF IndInv, WorkOK
    <3>3. CASE src \in Legacies
      <4>1. l = src
        BY <3>1, <3>2, <3>3 DEF resolveEffectivePVCName
      <4>2. ~pass.requeue
        BY <2>1 DEF reconcileAllManifestResources, QuietOK, PassQuiet
      <4> QED
        BY <2>1, <3>3, <4>1, <4>2 DEF reconcileAllManifestResources, QuietOK, PassQuiet
    <3>4. CASE src \notin Legacies
      <4>1. l \in AdoptedPVCs(o)
        BY <3>1, <3>2, <3>4, NamesDistinct DEF resolveEffectivePVCName
      <4>2. objs[<<"pvc", l>>].seen.from
        BY <4>1 DEF AdoptedPVCs, SeenObject
      <4> QED
        BY <4>2 DEF QuietOK, VolumeQuiet
    <3> QED
      BY <3>3, <3>4
  <2>2. CASE UNCHANGED claim
    BY <2>2
  <2> QED
    BY <2>1, <2>2
       DEF Next, Operator, PassStep, Begin, adoptLegacyResources, adoptStorage,
           scaleDownLegacyDeployment, listLegacyPods, DetachPVC, adoptLegacyService,
           adoptLegacyIngress, AdoptNetworkObject, cleanupAdoptedServices,
           cleanupAdoptedIngresses, updateStatus, StatusLost, CallFails, Local, cluster,
           Informers, SyncCR, SyncObject, SyncWorkload, Controllers, PodsStop, PodsStart,
           CollectObject, CollectDeployment, Users, UserAnnotates, UserDeletesLLSD,
           UserScalesUp, PodsFail, CalmDown, vars
<1> QED
  BY <1>1, <1>2, InitQuiet, IndInvInvariant, PTL DEF Spec, ScaledDownBeforeMount
================================================================================
