---------------------------- MODULE ServerPassProofs ----------------------------
(***************************************************************************)
(* For every set of scenarios and every bound: the state of ServerPass is  *)
(* well typed, a pass leaves the objects of others alone that it could     *)
(* know of when it began, and a RoleBinding that is replaced was ours.     *)
(***************************************************************************)
EXTENDS ServerPass, TLAPS

(* What is left to do, and who answers for the object at hand: it is never *)
(* one that was foreign when the pass began.                               *)
TodoOK ==
    /\ pc = "delete" => pass.todo \subseteq Optional /\ "Deployment" \notin pass.excluded
    /\ pc \in {"create", "replace", "patch"} => First(pass.todo) \notin pass.foreign
    /\ pc = "replace" => First(pass.todo) = "RoleBinding" /\ Mine(pass.found)

(* A foreign object stays foreign, and stays known to the cache.           *)
ForeignOK ==
    \A k \in pass.foreign :
        /\ k # "Bundle" /\ store[k].owner \in {"peer", "stranger"}
        /\ k \in Cached => seen[k] = store[k]

IndInv == TypeOK /\ TodoOK /\ ForeignOK

(* The step of ForeignObjectsUntouched.                                    *)
Kept == \A k \in pass.foreign : k \in pass'.foreign => store'[k] = store[k]

----------------------------------------------------------------------------
(* The kind that is next in the kustomization's order is one of those left.*)
LEMMA FirstIn ==
    ASSUME NEW S \in SUBSET Manifests, S # {}
    PROVE  First(S) \in S
<1>1. \E k \in S : \A j \in S : Order[k] <= Order[j]
  <2> DEFINE Least(k) == \A j \in S : Order[k] <= Order[j]
  <2>0. \A j \in S : j \in {"PersistentVolumeClaim", "NetworkPolicy", "Deployment",
                            "PodDisruptionBudget", "RoleBinding", "ServiceMonitor"}
    BY DEF Manifests, Order
  <2>1. /\ Order["PersistentVolumeClaim"] = 1 /\ Order["NetworkPolicy"] = 2
        /\ Order["Deployment"] = 3 /\ Order["PodDisruptionBudget"] = 4
        /\ Order["RoleBinding"] = 5 /\ Order["ServiceMonitor"] = 6
    BY DEF Order
  <2>2. CASE "PersistentVolumeClaim" \in S
    BY <2>0, <2>1, <2>2
  <2>3. CASE "PersistentVolumeClaim" \notin S /\ "NetworkPolicy" \in S
    BY <2>0, <2>1, <2>3
  <2>4. CASE S \cap {"PersistentVolumeClaim", "NetworkPolicy"} = {} /\ "Deployment" \in S
    BY <2>0, <2>1, <2>4
  <2>5. CASE /\ S \cap {"PersistentVolumeClaim", "NetworkPolicy", "Deployment"} = {}
             /\ "PodDisruptionBudget" \in S
    BY <2>0, <2>1, <2>5
  <2>6. CASE S \subseteq {"RoleBinding", "ServiceMonitor"} /\ "RoleBinding" \in S
    BY <2>0, <2>1, <2>6
  <2>7. CASE S = {"ServiceMonitor"}
    BY <2>1, <2>7
  <2> QED
    BY <2>0, <2>2, <2>3, <2>4, <2>5, <2>6, <2>7
<1> QED
  BY <1>1 DEF First

(* The sets of kinds, written out.                                         *)
LEMMA KindSets ==
    /\ Manifests = {"PersistentVolumeClaim", "NetworkPolicy", "Deployment",
                    "PodDisruptionBudget", "RoleBinding", "ServiceMonitor"}
    /\ Optional \subseteq Manifests /\ Optional \subseteq Cached
    /\ Manifests \subseteq Kinds /\ Cached \subseteq Kinds
    /\ "Ingress" \in Cached /\ "Bundle" \in Cached
    /\ "Ingress" \notin Manifests /\ "Bundle" \notin Manifests
  BY DEF Manifests, Order, Optional, Cached, Kinds

(* Objects with a content and no owner yet, and with an owner.             *)
LEMMA PlainObject ==
    ASSUME NEW ver \in Seq(Texts)
    PROVE  Plain(ver) \in Objects
  BY DEF Plain, Objects, Owners

(* Giving an object an owner leaves it an object.                          *)
LEMMA OwnedObject ==
    ASSUME NEW o \in Objects, NEW who \in Owners
    PROVE  Owner(o, who) \in Objects /\ Owner(o, who).owner = who
  BY DEF Owner, Objects

(* No object is represented by an object without an owner.                 *)
LEMMA AbsentObject == Absent \in Objects /\ ~Exists(Absent)
<1>1. <<>> \in Seq(Texts)
  OBVIOUS
<1> QED
  BY <1>1, PlainObject DEF Absent, Exists, Plain

(* The variables of a pass between passes.                                 *)
LEMMA NoPassOK == NoPass \in Passes /\ NoPass.foreign = {} /\ NoPass.todo = {}
  BY AbsentObject DEF NoPass, Passes, Specs

(* What is seen of an object is an object, and shows an owner only if the  *)
(* cache does.                                                             *)
LEMMA VisibleObject ==
    ASSUME TypeOK, NEW k \in Cached
    PROVE  /\ Visible(k) \in Objects
           /\ Exists(Visible(k)) => Visible(k) = seen[k]
           /\ Mine(Visible(k)) => seen[k].owner = "self"
<1>1. seen[k] \in Objects
  BY DEF TypeOK
<1> QED
  BY <1>1, AbsentObject DEF Visible, Mine, Absent, Plain, Exists

----------------------------------------------------------------------------
(* What a pass computes.                                                   *)

(* The contents of the bundle and the hashes are sequences of names.       *)
LEMMA Contents ==
    ASSUME TypeOK, NEW s \in Specs
    PROVE  /\ gatherCABundleData(s) \in Seq(Texts)
           /\ addConfigMapAnnotations(s) \in Seq(Texts)
           /\ applyNetworkPolicySpec(s) \in Seq(Texts)
<1>1. world.cm \in Texts /\ world.ca \in Texts /\ world.secret \in Texts
  <2>1. /\ world.cm \in {"missing", "keyless", "invalid", "v1", "v2"}
        /\ world.ca \in {"missing", "keyless", "bad", "c1", "c2"}
        /\ world.secret \in {"missing", "s1", "s2"}
    BY DEF TypeOK, Worlds
  <2> QED
    BY <2>1 DEF Texts
<1>2. gatherCABundleData(s) \in Seq(Texts)
  <2>1. "x1" \in Texts
    BY DEF Texts
  <2> QED
    BY <1>1, <2>1 DEF gatherCABundleData
<1>3. resolveConfigMapHash(s) \in Seq(Texts) /\ resolveSecretRefsHash(s) \in Seq(Texts)
  <2>1. "default" \in Texts /\ "none" \in Texts
    BY DEF Texts
  <2> QED
    BY <1>1, <2>1 DEF resolveConfigMapHash, resolveSecretRefsHash
<1>4. resolveCABundleHash(s) \in Seq(Texts)
  <2>1. Visible("Bundle").ver \in Seq(Texts)
    BY VisibleObject, KindSets DEF Objects
  <2> QED
    BY <2>1 DEF resolveCABundleHash
<1>5. addConfigMapAnnotations(s) \in Seq(Texts)
  BY <1>3, <1>4 DEF addConfigMapAnnotations
<1>6. applyNetworkPolicySpec(s) \in Seq(Texts)
  <2>1. (IF s.praxis THEN "praxis" ELSE "open") \in Texts
    BY DEF Texts
  <2> QED
    BY <2>1 DEF applyNetworkPolicySpec
<1> QED
  BY <1>2, <1>5, <1>6

(* The Deployment that a pass renders.                                     *)
LEMMA WantedDeployment ==
    ASSUME TypeOK, NEW s \in Specs
    PROVE  buildManifestContext(s) \in Objects
<1>1. s.storage \in BOOLEAN
  BY DEF Specs
<1>2. configurePodStorage(s) \in SUBSET Volumes
  BY DEF configurePodStorage, Volumes
<1> QED
  BY <1>1, <1>2, Contents DEF buildManifestContext, Objects, Owners

(* What a pass wants of each kind.                                         *)
LEMMA DesiredObject ==
    ASSUME TypeOK, NEW k
    PROVE  Desired(k) \in Objects
<1>1. pass.spec \in Specs /\ pass.deployment \in Objects
  BY DEF TypeOK, Passes
<1>2. Plain(applyNetworkPolicySpec(pass.spec)) \in Objects
  BY <1>1, Contents, PlainObject
<1>3. Plain(<<"current">>) \in Objects
  <2>1. "current" \in Texts
    BY DEF Texts
  <2>2. <<"current">> \in Seq(Texts)
    BY <2>1
  <2> QED
    BY <2>2, PlainObject
<1> QED
  BY <1>1, <1>2, <1>3 DEF Desired

(* The Deployment is never excluded, so there is something to apply.       *)
LEMMA Exclusions ==
    ASSUME NEW s \in Specs
    PROVE  /\ determineKindsToExclude(s) \subseteq Kinds
           /\ "Deployment" \notin determineKindsToExclude(s)
  BY KindSets DEF determineKindsToExclude, Optional

----------------------------------------------------------------------------
(* The ends that the steps of a pass have in common.                       *)

(* What a step may do to the objects.                                      *)
StoreKept ==
    /\ store' \in [Kinds -> Objects]
    /\ \A k \in pass.foreign : store'[k] = store[k]

(* A step that writes no object.                                           *)
LEMMA StoreUnchanged ==
    ASSUME IndInv, UNCHANGED store
    PROVE  StoreKept
  BY DEF StoreKept, IndInv, TypeOK

(* A step that writes one object, which is not a foreign one.              *)
LEMMA StorePut ==
    ASSUME IndInv, NEW k \in Kinds, k \notin pass.foreign, NEW o \in Objects, Put(k, o)
    PROVE  StoreKept
<1>1. store \in [Kinds -> Objects] /\ pass.foreign \subseteq Kinds
  BY DEF IndInv, TypeOK, Passes
<1> QED
  BY <1>1 DEF StoreKept, Put

(* A step that keeps the foreign objects keeps the invariant, if what it   *)
(* writes has its type and the kinds at hand are right.                    *)
LEMMA StepKept ==
    ASSUME IndInv, StoreKept, UnchangedOutside, TodoOK',
           pc' \in Steps, pass' \in Passes, pass'.foreign \subseteq pass.foreign,
           pc' \in {"apply", "create", "replace", "patch"} => pass'.todo # {},
           status' \in [phase: {"Pending", "Observed", "Failed"}, url: {"nil", "empty", "host"}],
           queue' \in [key: BOOLEAN, timer: BOOLEAN]
    PROVE  IndInv' /\ Kept
<1>1. TypeOK'
  BY DEF IndInv, TypeOK, StoreKept, UnchangedOutside
<1>2. ForeignOK'
  BY DEF IndInv, ForeignOK, StoreKept, UnchangedOutside
<1>3. Kept
  BY DEF Kept, StoreKept
<1> QED
  BY <1>1, <1>2, <1>3 DEF IndInv

(* On to the next step.                                                    *)
LEMMA GotoKept ==
    ASSUME IndInv, StoreKept, NEW step, Goto(step),
           step \in {"config", "generate", "bundle", "render", "status"}
    PROVE  IndInv' /\ Kept
<1>1. pc' \in Steps /\ TodoOK'
  BY DEF Goto, Steps, TodoOK
<1>2. pass' = pass /\ status' = status /\ queue' = queue /\ UnchangedOutside
  BY DEF Goto
<1>3. pc' \notin {"apply", "create", "replace", "patch"}
  BY DEF Goto
<1> QED
  BY <1>1, <1>2, <1>3, StepKept DEF IndInv, TypeOK

(* The end by an error.                                                    *)
LEMMA ErrorKept ==
    ASSUME IndInv, NEW result \in {"failed", "terminal"}, Error(result)
    PROVE  IndInv' /\ Kept
<1>1. pass' \in Passes /\ pass'.foreign = pass.foreign
  BY DEF IndInv, TypeOK, Error, Passes
<1>2. pc' = "status" /\ UNCHANGED <<store, status, queue>> /\ UnchangedOutside
  BY DEF Error
<1>3. pc' \in Steps /\ TodoOK'
  BY <1>2 DEF Steps, TodoOK
<1> QED
  BY <1>1, <1>2, <1>3, StepKept, StoreUnchanged DEF IndInv, TypeOK

(* A kind done with: if none is left, the manifests are, too.              *)
LEMMA DoneKept ==
    ASSUME IndInv, StoreKept, pc \in {"apply", "create", "replace", "patch"}, Done
    PROVE  IndInv' /\ Kept
<1>0. pass \in Passes /\ pass.todo \in SUBSET Manifests /\ pass.todo # {}
  BY DEF IndInv, TypeOK, Passes
<1>1. First(pass.todo) \in pass.todo
  BY <1>0, FirstIn
<1>2. /\ pass' = [pass EXCEPT !.todo = pass.todo \ {First(pass.todo)}]
      /\ UNCHANGED <<status, queue>> /\ UnchangedOutside
      /\ pc' \in {"ingress", "apply"}
  BY DEF Done
<1>3. pass' \in Passes /\ pass'.foreign = pass.foreign
  BY <1>0, <1>2 DEF Passes
<1>4. pc' = "apply" => pass'.todo # {}
  BY <1>0, <1>1 DEF Done, Passes
<1>5. pc' \in Steps /\ TodoOK'
  BY <1>2 DEF Steps, TodoOK
<1> QED
  BY <1>2, <1>3, <1>4, <1>5, StepKept DEF IndInv, TypeOK

----------------------------------------------------------------------------
(* One lemma for each kind of step: it keeps the invariant and the objects *)
(* of others.                                                              *)

(* A pass begins: what is foreign now, and known, is noted.                *)
LEMMA StartKept ==
    ASSUME IndInv, Start
    PROVE  IndInv' /\ Kept
<1> DEFINE F == {k \in Kinds \ {"Bundle"} : /\ store[k].owner \in {"peer", "stranger"}
                                            /\ k \in Cached => seen[k] = store[k]}
<1>1. pass' = [NoPass EXCEPT !.spec = spec, !.foreign = F]
  BY DEF Start
<1>2. pass' \in Passes /\ pass'.foreign = F
  <2>1. F \in SUBSET Kinds /\ spec \in Specs
    BY DEF IndInv, TypeOK
  <2> HIDE DEF F
  <2> QED
    BY <1>1, <2>1, NoPassOK DEF Passes
<1>3. pc' = "unsafe" /\ queue' \in [key: BOOLEAN, timer: BOOLEAN]
      /\ UNCHANGED <<store, status>> /\ UnchangedOutside
  BY DEF Start
<1>4. TypeOK'
  BY <1>2, <1>3 DEF IndInv, TypeOK, UnchangedOutside, Steps
<1>5. TodoOK'
  BY <1>3 DEF TodoOK
<1>6. ForeignOK'
  BY <1>2, <1>3 DEF ForeignOK, UnchangedOutside
<1> QED
  BY <1>3, <1>4, <1>5, <1>6 DEF IndInv, Kept

(* An Ingress that the cache shows as ours is not a foreign one.           *)
LEMMA DisabledIngressKept ==
    ASSUME IndInv, NEW next \in {"config", "status"}, handleDisabledIngress(next)
    PROVE  IndInv' /\ Kept
<1>1. CASE Mine(Visible("Ingress"))
  <2>1. seen["Ingress"].owner = "self"
    BY <1>1, VisibleObject, KindSets DEF IndInv
  <2>2. "Ingress" \notin pass.foreign
    BY <2>1, KindSets DEF IndInv, ForeignOK
  <2>3. Put("Ingress", Absent) /\ Goto(next)
    BY <1>1 DEF handleDisabledIngress
  <2>4. StoreKept
    BY <2>2, <2>3, StorePut, AbsentObject, KindSets
  <2> QED
    BY <2>3, <2>4, GotoKept
<1>2. CASE ~Mine(Visible("Ingress"))
  BY <1>2, StoreUnchanged, GotoKept DEF handleDisabledIngress
<1> QED
  BY <1>1, <1>2

(* Checks of the inputs, and the teardown of an unsafe Ingress.            *)
LEMMA EarlyStepsKept ==
    ASSUME IndInv, \/ cleanupUnsafeOwnedIngress
                   \/ reconcileOverrideAndCABundleConfigMaps
                   \/ reconcileGeneratedConfig
    PROVE  IndInv' /\ Kept
<1>1. CASE cleanupUnsafeOwnedIngress
  BY <1>1, StoreUnchanged, GotoKept, DisabledIngressKept DEF cleanupUnsafeOwnedIngress
<1>2. CASE reconcileOverrideAndCABundleConfigMaps
  BY <1>2, StoreUnchanged, GotoKept, ErrorKept DEF reconcileOverrideAndCABundleConfigMaps
<1>3. CASE reconcileGeneratedConfig
  BY <1>3, StoreUnchanged, GotoKept, ErrorKept DEF reconcileGeneratedConfig
<1> QED
  BY <1>1, <1>2, <1>3

(* The bundle is written whoever has it: it is never counted as foreign.   *)
LEMMA BundleKept ==
    ASSUME IndInv, reconcileManagedCABundle
    PROVE  IndInv' /\ Kept
<1> DEFINE data == Plain(gatherCABundleData(pass.spec))
           now == store["Bundle"]
<1>1. "Bundle" \notin pass.foreign /\ "Bundle" \in Kinds
  BY KindSets DEF IndInv, ForeignOK
<1>2. data \in Objects /\ now \in Objects
  <2>1. pass.spec \in Specs /\ store["Bundle"] \in Objects
    BY <1>1 DEF IndInv, TypeOK, Passes
  <2> QED
    BY <2>1, Contents, PlainObject DEF IndInv
<1>3. now.owner \in Owners /\ "self" \in Owners
  BY <1>2 DEF Objects, Owners
<1>4. Owner(data, "self") \in Objects /\ Owner(data, now.owner) \in Objects
  BY <1>2, <1>3, OwnedObject
<1>5. \/ Error("failed")
      \/ UNCHANGED store /\ Goto("render")
      \/ \E o \in Objects : Put("Bundle", o) /\ Goto("render")
  <2> HIDE DEF data, now
  <2>1. \/ Error("failed")
        \/ UNCHANGED store /\ Goto("render")
        \/ Put("Bundle", Absent) /\ Goto("render")
        \/ Put("Bundle", Owner(data, "self")) /\ Goto("render")
        \/ Put("Bundle", Owner(data, now.owner)) /\ Goto("render")
    BY DEF reconcileManagedCABundle, reconcileManagedCABundleConfigMap, data, now
  <2> QED
    BY <2>1, <1>4, AbsentObject
<1> QED
  BY <1>1, <1>5, StoreUnchanged, StorePut, GotoKept, ErrorKept

(* The kinds to exclude are chosen, and the optional ones are to go.       *)
LEMMA RenderKept ==
    ASSUME IndInv, reconcileAllManifestResources
    PROVE  IndInv' /\ Kept
<1> DEFINE out == determineKindsToExclude(pass.spec)
           wanted == buildManifestContext(pass.spec)
<1>0. pass \in Passes /\ pass.spec \in Specs
  BY DEF IndInv, TypeOK, Passes
<1>1. out \in SUBSET Kinds /\ "Deployment" \notin out /\ wanted \in Objects
  BY <1>0, Exclusions, WantedDeployment DEF IndInv
<1>2. CASE pc' = "delete"
  <2>1. /\ pass' = [pass EXCEPT !.excluded = out, !.deployment = wanted,
                                !.todo = out \cap Optional]
        /\ UNCHANGED <<store, status, queue>> /\ UnchangedOutside
    BY <1>2 DEF reconcileAllManifestResources, Error
  <2>2. pass' \in Passes /\ pass'.foreign = pass.foreign
        /\ pass'.todo \subseteq Optional /\ pass'.excluded = out
    <3> HIDE DEF out, wanted
    <3> QED
      BY <1>0, <1>1, <2>1, KindSets DEF Passes
  <2>3. pc' \in Steps /\ TodoOK'
    BY <1>1, <1>2, <2>2 DEF Steps, TodoOK
  <2> QED
    BY <1>2, <2>1, <2>2, <2>3, StepKept, StoreUnchanged DEF IndInv, TypeOK
<1>3. CASE Error("failed")
  BY <1>3, ErrorKept
<1> QED
  BY <1>2, <1>3 DEF reconcileAllManifestResources

(* Kinds are deleted if the cache shows them as ours, which no foreign one *)
(* is; then the rest is to be applied, at least the Deployment.            *)
LEMMA DeleteKept ==
    ASSUME IndInv, deleteExcludedResources
    PROVE  IndInv' /\ Kept
<1> DEFINE k == First(pass.todo)
<1>0. /\ pass \in Passes /\ pass.todo \in SUBSET Manifests
      /\ pc = "delete" /\ pass.todo \subseteq Optional /\ "Deployment" \notin pass.excluded
  BY DEF IndInv, TypeOK, TodoOK, Passes, deleteExcludedResources, At
<1>1. CASE pc' = "apply"
  <2>1. /\ pass' = [pass EXCEPT !.todo = Manifests \ pass.excluded]
        /\ UNCHANGED <<store, status, queue>> /\ UnchangedOutside
    BY <1>0, <1>1 DEF deleteExcludedResources, Error
  <2>2. pass' \in Passes /\ pass'.foreign = pass.foreign /\ pass'.todo = Manifests \ pass.excluded
    BY <1>0, <2>1 DEF Passes
  <2>3. pass'.todo # {}
    BY <1>0, <2>2, KindSets
  <2>4. pc' \in Steps /\ TodoOK'
    BY <1>1 DEF Steps, TodoOK
  <2> QED
    BY <1>1, <2>1, <2>2, <2>3, <2>4, StepKept, StoreUnchanged DEF IndInv, TypeOK
<1>2. CASE Error("failed")
  BY <1>2, ErrorKept
<1>3. CASE /\ pass.todo # {} /\ UNCHANGED <<pc, status, queue>> /\ UnchangedOutside
           /\ pass' = [pass EXCEPT !.todo = @ \ {First(@)}]
           /\ UNCHANGED store \/ (Mine(Visible(k)) /\ Put(k, Absent))
  <2>1. k \in Optional /\ k \in Cached /\ k \in Kinds
    BY <1>0, <1>3, FirstIn, KindSets
  <2>2. StoreKept
    <3>1. CASE UNCHANGED store
      BY <3>1, StoreUnchanged
    <3>2. CASE Mine(Visible(k)) /\ Put(k, Absent)
      <4>1. seen[k].owner = "self"
        BY <2>1, <3>2, VisibleObject DEF IndInv
      <4>2. k \notin pass.foreign
        BY <2>1, <4>1 DEF IndInv, ForeignOK
      <4> QED
        BY <2>1, <3>2, <4>2, StorePut, AbsentObject
    <3> QED
      BY <1>3, <3>1, <3>2
  <2>3. /\ pass' \in Passes /\ pass'.foreign = pass.foreign
        /\ pass'.todo \subseteq pass.todo /\ pass'.excluded = pass.excluded
    BY <1>0, <1>3 DEF Passes
  <2>4. pc' = "delete" /\ pc' \in Steps /\ TodoOK'
    BY <1>0, <1>3, <2>3 DEF Steps, TodoOK
  <2> QED
    BY <1>3, <2>2, <2>3, <2>4, StepKept DEF IndInv, TypeOK
<1> QED
  BY <1>1, <1>2, <1>3 DEF deleteExcludedResources

(* The kind at hand while manifests are applied.                           *)
LEMMA KindAtHand ==
    ASSUME IndInv, pc \in {"apply", "create", "replace", "patch"}
    PROVE  First(pass.todo) \in Manifests /\ First(pass.todo) \in Kinds
           /\ store[First(pass.todo)] \in Objects
<1>1. pass.todo \in SUBSET Manifests /\ pass.todo # {}
  BY DEF IndInv, TypeOK, Passes
<1>2. First(pass.todo) \in Manifests /\ First(pass.todo) \in Kinds
  BY <1>1, FirstIn, KindSets
<1> QED
  BY <1>2 DEF IndInv, TypeOK

(* What is created or changed next is absent or ours, so it is not one of  *)
(* those that were foreign when the pass began.                            *)
LEMMA ManageKept ==
    ASSUME IndInv, manageResource
    PROVE  IndInv' /\ Kept
<1> DEFINE k == First(pass.todo)
<1>0. pc = "apply" /\ k \in Kinds /\ store[k] \in Objects
      /\ pass \in Passes /\ pass.todo # {}
  BY KindAtHand DEF IndInv, TypeOK, manageResource, At
<1>1. CASE UNCHANGED store /\ Done
  BY <1>0, <1>1, StoreUnchanged, DoneKept
<1>2. CASE Error("failed")
  BY <1>2, ErrorKept
<1>3. CASE /\ ~Exists(store[k]) \/ Mine(store[k])
           /\ pc' = IF ~Exists(store[k]) THEN "create"
                    ELSE IF k = "RoleBinding" /\ store[k].ver # Desired(k).ver THEN "replace"
                    ELSE "patch"
           /\ pass' = [pass EXCEPT !.found = store[k]]
           /\ UNCHANGED <<store, status, queue>> /\ UnchangedOutside
  <2>1. k \notin pass.foreign
    BY <1>3 DEF IndInv, ForeignOK, Exists, Mine
  <2>2. /\ pass' \in Passes /\ pass'.foreign = pass.foreign /\ pass'.todo = pass.todo
        /\ pass'.found = store[k]
    BY <1>0, <1>3 DEF Passes
  <2>3. /\ pc' \in {"create", "replace", "patch"}
        /\ pc' = "replace" => k = "RoleBinding" /\ Mine(store[k])
    BY <1>3
  <2>4. pc' \in Steps /\ TodoOK'
    BY <2>1, <2>2, <2>3 DEF Steps, TodoOK, Mine
  <2> QED
    BY <1>0, <1>3, <2>2, <2>4, StepKept, StoreUnchanged DEF IndInv, TypeOK
<1> QED
  BY <1>1, <1>2, <1>3 DEF manageResource

(* Create fails if something took the name meanwhile.                      *)
LEMMA CreateKept ==
    ASSUME IndInv, createResource
    PROVE  IndInv' /\ Kept
<1> DEFINE k == First(pass.todo)
           o == [Desired(k) EXCEPT
                   !.owner = IF k = "PersistentVolumeClaim" THEN "nobody" ELSE "self",
                   !.pinned = Desired(k).vols]
<1>0. pc = "create" /\ k \in Kinds /\ k \notin pass.foreign
  BY KindAtHand DEF IndInv, TodoOK, createResource, At
<1>1. o \in Objects
  <2>1. Desired(k) \in Objects
    BY DesiredObject DEF IndInv
  <2> QED
    BY <2>1 DEF Objects, Owners
<1>2. CASE Error("failed")
  BY <1>2, ErrorKept
<1>3. CASE Put(k, o) /\ Done
  BY <1>0, <1>1, <1>3, StorePut, DoneKept
<1> QED
  BY <1>2, <1>3 DEF createResource

(* Only what was read is deleted, and it was ours.                         *)
LEMMA ReplaceKept ==
    ASSUME IndInv, replaceOwnedRoleBinding
    PROVE  IndInv' /\ Kept /\ (pc' = "create" => store["RoleBinding"].owner \in {"self", "none"})
<1>0. /\ pc = "replace" /\ First(pass.todo) = "RoleBinding" /\ Mine(pass.found)
      /\ "RoleBinding" \notin pass.foreign /\ "RoleBinding" \in Kinds /\ pass.todo # {}
  BY KindSets DEF IndInv, TypeOK, TodoOK, replaceOwnedRoleBinding, At
<1>1. CASE Error("failed")
  <2>1. pc' # "create"
    BY <1>1 DEF Error
  <2> QED
    BY <1>1, <2>1, ErrorKept
<1>2. CASE /\ store["RoleBinding"] \in {pass.found, Absent}
           /\ Put("RoleBinding", Absent) /\ Goto("create")
  <2>1. StoreKept
    BY <1>0, <1>2, StorePut, AbsentObject
  <2>2. pass' = pass /\ status' = status /\ queue' = queue /\ UnchangedOutside /\ pc' = "create"
    BY <1>2 DEF Goto
  <2>3. pc' \in Steps /\ TodoOK'
    BY <1>0, <2>2 DEF Steps, TodoOK
  <2>4. IndInv' /\ Kept
    BY <1>0, <2>1, <2>2, <2>3, StepKept DEF IndInv, TypeOK
  <2>5. store["RoleBinding"].owner \in {"self", "none"}
    BY <1>0, <1>2 DEF Mine, Absent, Plain
  <2> QED
    BY <2>4, <2>5
<1> QED
  BY <1>1, <1>2 DEF replaceOwnedRoleBinding

(* A patch keeps the owner, or creates what is gone; a full replacement    *)
(* asks for the version that was read.                                     *)
LEMMA PatchKept ==
    ASSUME IndInv, applyResourcePatch
    PROVE  IndInv' /\ Kept
<1> DEFINE k == First(pass.todo)
           o == store[k]
           want == Desired(k)
           full == [Owner(want, "nobody") EXCEPT !.pinned =
                      (o.pinned \cap want.vols) \cup (want.vols \ o.vols)]
<1>0. pc = "patch" /\ k \in Kinds /\ k \notin pass.foreign /\ o \in Objects /\ want \in Objects
  BY KindAtHand, DesiredObject DEF IndInv, TodoOK, applyResourcePatch, At
<1>1. full \in Objects
  <2>1. Owner(want, "nobody") \in Objects /\ Owner(want, "nobody").vols = want.vols
    BY <1>0 DEF Owner, Objects, Owners
  <2> HIDE DEF o, want
  <2> QED
    BY <1>0, <2>1 DEF Objects
<1>2. Applied(o, want) \in Objects
  <2>1. Owner(want, "nobody") \in Objects
    BY <1>0, OwnedObject DEF Owners
  <2>2. [owner |-> o.owner, ver |-> want.ver, vols |-> want.vols \cup o.pinned,
         pinned |-> o.pinned, recreate |-> want.recreate \/ o.recreate] \in Objects
    <3> HIDE DEF o, want
    <3> QED
      BY <1>0 DEF Objects
  <2> QED
    BY <2>1, <2>2 DEF Applied
<1>3. \/ Error("failed")
      \/ UNCHANGED store /\ Done
      \/ \E x \in Objects : Put(k, x) /\ Done
  BY <1>1, <1>2 DEF applyResourcePatch
<1> QED
  BY <1>0, <1>3, StoreUnchanged, StorePut, DoneKept, ErrorKept

(* An Ingress is created where there is none, and updated where the cached *)
(* copy is ours and is the present one.                                    *)
LEMMA IngressKept ==
    ASSUME IndInv, reconcileIngress
    PROVE  IndInv' /\ Kept
<1> DEFINE new == Owner(buildIngress, "self")
<1>1. new \in Objects
  <2>1. "safe" \in Texts
    BY DEF Texts
  <2>2. <<"safe">> \in Seq(Texts)
    BY <2>1
  <2> QED
    BY <2>2, PlainObject, OwnedObject DEF buildIngress, Owners
<1>2. CASE handleDisabledIngress("status")
  BY <1>2, DisabledIngressKept
<1>3. CASE Error("failed")
  BY <1>3, ErrorKept
<1>4. CASE UNCHANGED store /\ Goto("status")
  BY <1>4, StoreUnchanged, GotoKept
<1>5. CASE /\ ~Exists(store["Ingress"]) \/ Mine(Visible("Ingress"))
           /\ Put("Ingress", new) /\ Goto("status")
  <2>1. "Ingress" \notin pass.foreign
    <3>1. CASE ~Exists(store["Ingress"])
      BY <3>1 DEF IndInv, ForeignOK, Exists
    <3>2. CASE Mine(Visible("Ingress"))
      <4>1. seen["Ingress"].owner = "self"
        BY <3>2, VisibleObject, KindSets DEF IndInv
      <4> QED
        BY <4>1, KindSets DEF IndInv, ForeignOK
    <3> QED
      BY <1>5, <3>1, <3>2
  <2>2. StoreKept
    BY <1>1, <1>5, <2>1, StorePut, KindSets
  <2> QED
    BY <1>5, <2>2, GotoKept
<1> QED
  BY <1>2, <1>3, <1>4, <1>5 DEF reconcileIngress

(* The last step of a pass, whether its write succeeds or not.             *)
LEMMA StatusKept ==
    ASSUME IndInv, updateStatus \/ StatusWriteFails
    PROVE  IndInv' /\ Kept
<1>1. pc' = "idle" /\ pass' = NoPass /\ UNCHANGED store /\ UnchangedOutside
  BY DEF updateStatus, StatusWriteFails
<1>2. queue' \in [key: BOOLEAN, timer: BOOLEAN]
  BY DEF updateStatus, StatusWriteFails, IndInv, TypeOK
<1>3. status' \in [phase: {"Pending", "Observed", "Failed"}, url: {"nil", "empty", "host"}]
  <2>1. getIngressURL(pass.spec) \in {"nil", "empty", "host"}
    BY DEF getIngressURL
  <2> QED
    BY <2>1 DEF updateStatus, StatusWriteFails, IndInv, TypeOK
<1>4. pc' \in Steps /\ TodoOK'
  BY <1>1 DEF Steps, TodoOK
<1> QED
  BY <1>1, <1>2, <1>3, <1>4, NoPassOK, StepKept, StoreUnchanged

(* A pass that dies is forgotten.                                          *)
LEMMA CrashKept ==
    ASSUME IndInv, Crash
    PROVE  IndInv' /\ Kept
<1>1. /\ pc' = "idle" /\ pass' = NoPass /\ seen' = [k \in Cached |-> store[k]]
      /\ queue' = [key |-> TRUE, timer |-> FALSE]
      /\ UNCHANGED <<scenario, spec, world, store, status, edits>>
  BY DEF Crash
<1>2. seen' \in [Cached -> Objects]
  BY <1>1, KindSets DEF IndInv, TypeOK
<1>3. TypeOK'
  BY <1>1, <1>2, NoPassOK DEF IndInv, TypeOK, Steps
<1>4. TodoOK' /\ ForeignOK'
  BY <1>1, NoPassOK DEF TodoOK, ForeignOK
<1> QED
  BY <1>1, <1>3, <1>4 DEF IndInv, Kept

(* The cache only changes for objects that it does not know as they are.   *)
LEMMA SyncKept ==
    ASSUME IndInv, NEW k \in Cached, Sync(k)
    PROVE  IndInv' /\ Kept
<1>1. /\ seen[k] # store[k] /\ seen' = [seen EXCEPT ![k] = store[k]]
      /\ UNCHANGED <<scenario, spec, world, store, status, pc, pass, edits>>
  BY DEF Sync
<1>2. queue' \in [key: BOOLEAN, timer: BOOLEAN]
  BY DEF Sync, IndInv, TypeOK, Mine
<1>3. seen' \in [Cached -> Objects]
  BY <1>1, KindSets DEF IndInv, TypeOK
<1>4. TypeOK'
  BY <1>1, <1>2, <1>3 DEF IndInv, TypeOK
<1>5. TodoOK'
  BY <1>1 DEF IndInv, TodoOK
<1>6. ForeignOK'
  <2>1. \A j \in pass.foreign : j \in Cached => seen'[j] = store[j]
    BY <1>1 DEF IndInv, TypeOK, ForeignOK
  <2> QED
    BY <1>1, <2>1 DEF IndInv, ForeignOK
<1> QED
  BY <1>1, <1>4, <1>5, <1>6 DEF IndInv, Kept

(* Users and other controllers; what they change is no longer foreign.     *)
LEMMA EditsKept ==
    ASSUME IndInv, EditSpec \/ EditWorld \/ TouchObject \/ CalmDown
    PROVE  IndInv' /\ Kept
<1>0. edits' \in 0 .. MaxEdits + 1
  BY EditsAssumption DEF EditSpec, EditWorld, TouchObject, CalmDown, IndInv, TypeOK
<1>1. CASE EditSpec
  <2>1. spec' \in Specs /\ queue' \in [key: BOOLEAN, timer: BOOLEAN]
        /\ UNCHANGED <<scenario, world, store, seen, status, pc, pass>>
    BY <1>1, ScenariosAssumption DEF EditSpec, IndInv, TypeOK
  <2> QED
    BY <1>0, <2>1 DEF IndInv, TypeOK, TodoOK, ForeignOK, Kept
<1>2. CASE EditWorld
  <2>1. world' \in Worlds /\ queue' \in [key: BOOLEAN, timer: BOOLEAN]
        /\ UNCHANGED <<scenario, spec, store, seen, status, pc, pass>>
    <3>1. PICK w \in scenario.worlds :
             /\ world' = w
             /\ queue' = [queue EXCEPT !.key =
                    @ \/ instanceReferencesConfigMap(w) \/ instanceReferencesSecret(w)]
      BY <1>2 DEF EditWorld
    <3>2. instanceReferencesConfigMap(w) \in BOOLEAN /\ instanceReferencesSecret(w) \in BOOLEAN
      BY DEF instanceReferencesConfigMap, instanceReferencesSecret, IndInv, TypeOK, Specs
    <3>3. w \in Worlds
      BY ScenariosAssumption DEF IndInv, TypeOK
    <3> QED
      BY <1>2, <3>1, <3>2, <3>3 DEF EditWorld, IndInv, TypeOK
  <2> QED
    BY <1>0, <2>1 DEF IndInv, TypeOK, TodoOK, ForeignOK, Kept
<1>3. CASE TouchObject
  <2>1. PICK k \in scenario.touched, who \in {"none", "peer", "stranger"} :
           /\ Put(k, Owner(IF who = "none" THEN Absent ELSE Plain(<<"theirs">>), who))
           /\ pass' = [pass EXCEPT !.foreign = @ \ {k}]
    BY <1>3 DEF TouchObject
  <2>2. UNCHANGED <<scenario, spec, world, seen, status, queue, pc>>
    BY <1>3 DEF TouchObject
  <2>3. k \in Kinds
    BY ScenariosAssumption DEF IndInv, TypeOK
  <2>4. Owner(IF who = "none" THEN Absent ELSE Plain(<<"theirs">>), who) \in Objects
    <3>1. "theirs" \in Texts
      BY DEF Texts
    <3>2. <<"theirs">> \in Seq(Texts)
      BY <3>1
    <3>3. (IF who = "none" THEN Absent ELSE Plain(<<"theirs">>)) \in Objects
      BY <3>2, AbsentObject, PlainObject
    <3>4. who \in Owners
      BY DEF Owners
    <3> QED
      BY <3>3, <3>4, OwnedObject
  <2>5. store' \in [Kinds -> Objects] /\ \A j \in Kinds \ {k} : store'[j] = store[j]
    BY <2>1, <2>3, <2>4 DEF Put, IndInv, TypeOK
  <2>6. /\ pass' \in Passes /\ pass'.foreign = pass.foreign \ {k} /\ pass'.todo = pass.todo
        /\ pass'.excluded = pass.excluded /\ pass'.found = pass.found
        /\ pass.foreign \subseteq Kinds
    BY <2>1 DEF IndInv, TypeOK, Passes
  <2>7. TypeOK'
    BY <1>0, <2>2, <2>5, <2>6 DEF IndInv, TypeOK
  <2>8. TodoOK'
    BY <2>2, <2>6 DEF IndInv, TodoOK
  <2>9. ForeignOK' /\ Kept
    BY <2>2, <2>5, <2>6 DEF IndInv, ForeignOK, Kept
  <2> QED
    BY <2>7, <2>8, <2>9 DEF IndInv
<1>4. CASE CalmDown
  <2>1. UNCHANGED <<scenario, spec, world, store, seen, status, queue, pc, pass>>
    BY <1>4 DEF CalmDown
  <2> QED
    BY <1>0, <2>1 DEF IndInv, TypeOK, TodoOK, ForeignOK, Kept
<1> QED
  BY <1>1, <1>2, <1>3, <1>4

----------------------------------------------------------------------------
(* The invariant holds at the start.                                       *)
LEMMA InitOK == Init => IndInv
<1> SUFFICES ASSUME Init PROVE IndInv
  OBVIOUS
<1>1. spec \in Specs /\ world \in Worlds /\ store \in [Kinds -> Objects]
  BY ScenariosAssumption DEF Init
<1>2. seen \in [Cached -> Objects]
  BY <1>1, KindSets DEF Init
<1>3. TypeOK
  BY <1>1, <1>2, NoPassOK, EditsAssumption DEF Init, TypeOK, Steps
<1>4. TodoOK /\ ForeignOK
  BY NoPassOK DEF Init, TodoOK, ForeignOK
<1> QED
  BY <1>3, <1>4 DEF IndInv

(* Every step keeps the invariant and the foreign objects.                 *)
LEMMA NextOK ==
    ASSUME IndInv, Next
    PROVE  IndInv' /\ Kept
<1>1. CASE Start
  BY <1>1, StartKept
<1>2. CASE PassStep
  BY <1>2, EarlyStepsKept, BundleKept, RenderKept, DeleteKept, ManageKept, CreateKept,
     ReplaceKept, PatchKept, IngressKept, StatusKept DEF PassStep
<1>3. CASE CallFails
  BY <1>3, ErrorKept DEF CallFails
<1>4. CASE StatusWriteFails
  BY <1>4, StatusKept
<1>5. CASE Crash
  BY <1>5, CrashKept
<1>6. CASE \E k \in Cached : Sync(k)
  BY <1>6, SyncKept
<1>7. CASE EditSpec \/ EditWorld \/ TouchObject \/ CalmDown
  BY <1>7, EditsKept
<1> QED
  BY <1>1, <1>2, <1>3, <1>4, <1>5, <1>6, <1>7 DEF Next

(* And when nothing changes.                                               *)
LEMMA StutterOK ==
    ASSUME IndInv, UNCHANGED vars
    PROVE  IndInv' /\ Kept
  BY DEF IndInv, TypeOK, TodoOK, ForeignOK, Kept, vars

(* So it always holds.                                                     *)
LEMMA Inductive == Spec => []IndInv
<1>1. IndInv /\ [Next]_vars => IndInv'
  BY NextOK, StutterOK
<1> QED
  BY <1>1, InitOK, PTL DEF Spec

(* The state has its type; in particular a pass that creates, replaces or  *)
(* patches has a kind at hand, whatever failed before.                     *)
THEOREM TypeCorrect == Spec => []TypeOK
<1>1. IndInv => TypeOK
  BY DEF IndInv
<1> QED
  BY <1>1, Inductive, PTL

(* No step of a pass changes an object that belonged to someone else, and  *)
(* that the cache knew, when the pass began.                               *)
THEOREM ForeignUntouched == Spec => ForeignObjectsUntouched
<1>1. IndInv /\ [Next]_vars =>
        [\A k \in pass.foreign : k \in pass'.foreign => store'[k] = store[k]]_vars
  BY NextOK DEF Kept
<1> QED
  BY <1>1, Inductive, PTL DEF Spec, ForeignObjectsUntouched

(* Whatever took the name of a RoleBinding since the pass read it, only    *)
(* one that was this server's is deleted for a replacement.                *)
THEOREM ReplacedOwn == Spec => ReplacedRoleBindingIsOwn
<1> DEFINE Own == pc = "replace" /\ pc' = "create" =>
                    store["RoleBinding"].owner \in {"self", "none"}
<1>1. ASSUME IndInv, Next, pc = "replace", pc' = "create"
      PROVE  replaceOwnedRoleBinding
  <2>1. ~Start /\ ~CallFails /\ ~StatusWriteFails /\ ~Crash
    BY <1>1 DEF Start, CallFails, Error, StatusWriteFails, Crash, At
  <2>2. ~(\E k \in Cached : Sync(k)) /\ ~(EditSpec \/ EditWorld \/ TouchObject \/ CalmDown)
    BY <1>1 DEF Sync, EditSpec, EditWorld, TouchObject, CalmDown
  <2>3. PassStep
    BY <1>1, <2>1, <2>2 DEF Next
  <2> QED
    BY <1>1, <2>3 DEF PassStep, At, cleanupUnsafeOwnedIngress,
       reconcileOverrideAndCABundleConfigMaps, reconcileGeneratedConfig,
       reconcileManagedCABundle, reconcileAllManifestResources, deleteExcludedResources,
       manageResource, createResource, applyResourcePatch, reconcileIngress, updateStatus
<1>2. IndInv /\ [Next]_vars => [Own]_vars
  BY <1>1, ReplaceKept
<1> QED
  BY <1>2, Inductive, PTL DEF Spec, ReplacedRoleBindingIsOwn
================================================================================
