----------------------------- MODULE GeneratedConfig -----------------------------
(***************************************************************************)
(* The life cycle of the generated config.yaml ConfigMaps of one OGXServer *)
(* (controllers/configmap_reconciler.go): every content has an immutable   *)
(* ConfigMap named after its hash; a pass makes sure the wanted one exists,*)
(* points the Deployment at it and then deletes old ones beyond the        *)
(* retention, except those the Deployment or a ReplicaSet still refers to. *)
(*                                                                         *)
(* ConfigMaps, the Deployment and its ReplicaSets are read through the     *)
(* cache, which lags behind; the Deployment controller rolls out and users *)
(* change the spec and may delete a ConfigMap at any time.                 *)
(***************************************************************************)
EXTENDS Naturals, Sequences, FiniteSets, SequencesExt

CONSTANTS
    Contents,         \* generated contents; each stands for its ConfigMap too
    None,             \* no config to mount: the image's own is used
    Override,         \* spec.overrideConfig: the user's own ConfigMap is mounted
    Absent,           \* there is no Deployment yet
    Retention,        \* configMapRetention
    HistoryLimit,     \* the Deployment's revisionHistoryLimit
    MaxEdits          \* bound: things users do

ASSUME NoneAssumption ==
    /\ None \notin Contents /\ Override \notin Contents \cup {None}
    /\ Absent \notin Contents \cup {None, Override}
ASSUME NumberAssumption ==
    /\ Retention \in Nat \ {0} /\ HistoryLimit \in Nat \ {0}
    /\ MaxEdits \in Nat

VARIABLES
    spec,      \* [api, seen]: the content the CR calls for, stored and cached
    cms,       \* [api, seen]: the generated ConfigMaps, oldest first
    dep,       \* [api, seen]: the content the Deployment's template mounts, or Absent
    owned,     \* does the Deployment have the OGXServer as its owner?
    rs,        \* [api, seen]: contents of the ReplicaSets, oldest first
    running,   \* what running Pods were started with
    reported,  \* status.configGeneration.configMapName
    pc,        \* where the pass is
    want,      \* the content the pass generates
    doomed,    \* the ConfigMaps that cleanup has yet to delete
    fresh,     \* whether cleanup saw the workload as it was (for the properties)
    edits      \* things users did so far; more than MaxEdits once all is calm

vars == <<spec, cms, dep, owned, rs, running, reported, pc, want, doomed, fresh, edits>>
workload == <<dep, owned, rs, running>>
cleanup == <<doomed, fresh>>

Wanted == Contents \cup {None, Override}
Calm == edits > MaxEdits
Both(v) == [api |-> v, seen |-> v]
Without(s, c) == IF c \in Range(s) THEN RemoveAt(s, CHOOSE i \in DOMAIN s : s[i] = c) ELSE s
--------------------------------------------------------------------------------
Init ==
    /\ spec \in {Both(w) : w \in Wanted}
    /\ cms = Both(<<>>)
    /\ dep = Both(Absent) /\ owned = TRUE
    /\ rs = Both(<<>>)
    /\ running = {}
    /\ reported = None
    /\ pc = "idle"
    /\ want = None
    /\ doomed = {} /\ fresh = TRUE
    /\ edits = 0

(* A pass reads the CR; shouldGenerateConfig decides whether there is      *)
(* anything to generate.                                                   *)
Mutant_AlwaysGenerate ==
    /\ pc = "idle"
    /\ want' = spec.seen
    /\ pc' = "ensure"
    /\ UNCHANGED <<spec, cms, workload, reported, cleanup, edits>>

Begin ==
    /\ pc = "idle"
    /\ want' = spec.seen
    /\ pc' = IF spec.seen \in Contents THEN "ensure" ELSE "apply"
    /\ UNCHANGED <<spec, cms, workload, reported, cleanup, edits>>

(* ensureGeneratedConfigMap: created unless the cache has it; AlreadyExists *)
(* counts as success.                                                      *)
Mutant_TrustStatus ==
    /\ pc = "ensure"
    /\ pc' = "hash"
    /\ cms' = IF want \in Range(cms.seen) \/ want \in Range(cms.api) \/ reported = want THEN cms
              ELSE [cms EXCEPT !.api = Append(@, want)]
    /\ UNCHANGED <<spec, workload, reported, want, cleanup, edits>>

ensureGeneratedConfigMap ==
    /\ pc = "ensure"
    /\ pc' = "hash"
    /\ cms' = IF want \in Range(cms.seen) \/ want \in Range(cms.api) THEN cms
              ELSE [cms EXCEPT !.api = Append(@, want)]
    /\ UNCHANGED <<spec, workload, reported, want, cleanup, edits>>

(* getGeneratedConfigMapHashByName reads the ConfigMap just made from the  *)
(* cache; not finding it fails the pass, whose status keeps its            *)
(* configGeneration.                                                       *)
getGeneratedConfigMapHashByName ==
    /\ pc = "hash"
    /\ pc' = IF want \in Range(cms.seen) THEN "apply" ELSE "idle"
    /\ want' = IF want \in Range(cms.seen) THEN want ELSE None
    /\ UNCHANGED <<spec, cms, workload, reported, cleanup, edits>>

(* The Deployment is applied.  One that is not owned is skipped without an *)
(* error (patchResource); one whose user-config volume has to go is replaced*)
(* by an Update of the manifest, which names no owner.  Without generated  *)
(* config there is no cleanup (clearConfigGenerationStatus).               *)
hasStaleUserConfigVolume == dep.api \in Contents \cup {Override} /\ want = None

ApplyDeployment ==
    /\ pc = "apply"
    /\ \/ /\ dep.api # Absent /\ ~owned
          /\ UNCHANGED <<dep, owned>>
       \/ /\ dep.api = Absent \/ owned
          /\ dep' = [dep EXCEPT !.api = want]
          /\ owned' = ~hasStaleUserConfigVolume
    /\ pc' = IF want \in Contents THEN "cleanup" ELSE "status"
    /\ UNCHANGED <<spec, cms, rs, running, reported, want, cleanup, edits>>

(* The names cleanup spares.  The name in the status is the current one by *)
(* then (updateConfigGenerationStatus runs before).                        *)
Mutant_CurrentOnly == {want}
referencedRuntimeConfigMapNames ==
    ({want, dep.seen} \cup Range(rs.seen)) \cap Contents

(* The ConfigMaps cleanup deletes, given the ones whose Delete fails: the  *)
(* oldest unprotected ones, until enough are gone.                         *)
Mutant_KeepOneMore(failing) ==
    LET listed    == cms.seen
        protected == Range(listed) \cap referencedRuntimeConfigMapNames
        keep      == IF Cardinality(protected) > Retention + 1 THEN Cardinality(protected) ELSE Retention + 1
        old       == {i \in DOMAIN listed : listed[i] \notin protected \cup failing}
    IN  {listed[i] : i \in {j \in old : Cardinality({k \in old : k < j}) + keep < Len(listed)}}

Deletions(failing) ==
    LET listed    == cms.seen
        protected == Range(listed) \cap referencedRuntimeConfigMapNames
        keep      == IF Cardinality(protected) > Retention THEN Cardinality(protected) ELSE Retention
        old       == {i \in DOMAIN listed : listed[i] \notin protected \cup failing}
    IN  {listed[i] : i \in {j \in old : Cardinality({k \in old : k < j}) + keep < Len(listed)}}

(* cleanupOldGeneratedConfigMaps lists the ConfigMaps and what refers to   *)
(* them, and then deletes one after the other (in any order here: all that *)
(* are doomed go).  A failing List or Delete is logged and does not fail   *)
(* the pass; NotFound counts as deleted.                                   *)
WorkloadSeen == dep.seen = dep.api /\ rs.seen = rs.api

cleanupOldGeneratedConfigMaps ==
    /\ pc = "cleanup"
    /\ \E failing \in (IF Calm THEN {{}} ELSE {{}} \cup {{c} : c \in Contents}) :
          doomed' = Deletions(failing)
    /\ fresh' = (doomed' = {} \/ WorkloadSeen)
    /\ pc' = IF doomed' = {} THEN "status" ELSE "delete"
    /\ UNCHANGED <<spec, cms, workload, reported, want, edits>>

DeleteOld ==
    /\ pc = "delete"
    /\ \E c \in doomed :
          /\ cms' = [cms EXCEPT !.api = Without(@, c)]
          /\ doomed' = doomed \ {c}
    /\ fresh' = (doomed' = {} \/ fresh)
    /\ pc' = IF doomed' = {} THEN "status" ELSE "delete"
    /\ UNCHANGED <<spec, workload, reported, want, edits>>

(* updateStatus, after updateConfigGenerationStatus.                       *)
WriteStatus ==
    /\ pc = "status"
    /\ reported' = IF want \in Contents THEN want ELSE None
    /\ pc' = "idle"
    /\ want' = None
    /\ UNCHANGED <<spec, cms, workload, cleanup, edits>>

(* A call fails, or the process dies, at any point.                        *)
PassEnds ==
    /\ ~Calm
    /\ pc # "idle"
    /\ pc' = "idle"
    /\ want' = None /\ doomed' = {} /\ fresh' = TRUE
    /\ UNCHANGED <<spec, cms, workload, reported, edits>>
--------------------------------------------------------------------------------
(* The informers.                                                          *)
SyncSpec ==
    /\ spec.seen # spec.api
    /\ spec' = Both(spec.api)
    /\ UNCHANGED <<cms, workload, reported, pc, want, cleanup, edits>>

SyncConfigMaps ==
    /\ cms.seen # cms.api
    /\ cms' = Both(cms.api)
    /\ UNCHANGED <<spec, workload, reported, pc, want, cleanup, edits>>

SyncWorkload ==
    /\ \/ dep.seen # dep.api /\ dep' = Both(dep.api) /\ UNCHANGED rs
       \/ rs.seen # rs.api /\ rs' = Both(rs.api) /\ UNCHANGED dep
    /\ UNCHANGED <<spec, cms, owned, running, reported, pc, want, cleanup, edits>>

(* The Deployment controller: a ReplicaSet for the template, reusing an    *)
(* old one.                                                                *)
RollOut ==
    /\ dep.api # Absent
    /\ ~IsSuffix(<<dep.api>>, rs.api)
    /\ rs' = [rs EXCEPT !.api = Append(Without(@, dep.api), dep.api)]
    /\ UNCHANGED <<spec, cms, dep, owned, running, reported, pc, want, cleanup, edits>>

(* A rolling update: a Pod of the newest ReplicaSet starts once its        *)
(* ConfigMap can be mounted, and then those of older ones are stopped.     *)
PodStarts ==
    \E c \in Range(rs.api) :
        /\ c = Last(rs.api) /\ c \notin running
        /\ c \in Range(cms.api) \cup {None, Override}
        /\ running' = running \cup {c}
        /\ UNCHANGED <<spec, cms, dep, owned, rs, reported, pc, want, cleanup, edits>>

OldPodsStop ==
    \E c \in running :
        /\ c = Last(rs.api) /\ running # {c}
        /\ running' = {c}
        /\ UNCHANGED <<spec, cms, dep, owned, rs, reported, pc, want, cleanup, edits>>

(* A complete rollout lets go of the ReplicaSets beyond the history limit. *)
HistoryPruned ==
    /\ Len(rs.api) > HistoryLimit + 1
    /\ running = {Last(rs.api)} /\ dep.api = Last(rs.api)
    /\ rs' = [rs EXCEPT !.api = SubSeq(@, Len(@) - HistoryLimit, Len(@))]
    /\ UNCHANGED <<spec, cms, dep, owned, running, reported, pc, want, cleanup, edits>>
--------------------------------------------------------------------------------
UserStep == edits < MaxEdits /\ edits' = edits + 1

UserEditsSpec ==
    /\ UserStep
    /\ \E w \in Wanted \ {spec.api} : spec' = [spec EXCEPT !.api = w]
    /\ UNCHANGED <<cms, workload, reported, pc, want, cleanup>>

UserDeletesConfigMap ==
    /\ UserStep
    /\ \E c \in Range(cms.api) :
          cms' = [cms EXCEPT !.api = Without(@, c)]
    /\ UNCHANGED <<spec, workload, reported, pc, want, cleanup>>

CalmDown ==
    /\ ~Calm
    /\ edits' = MaxEdits + 1
    /\ UNCHANGED <<spec, cms, workload, reported, pc, want, cleanup>>
--------------------------------------------------------------------------------
PassStep ==
    \/ ensureGeneratedConfigMap \/ getGeneratedConfigMapHashByName \/ ApplyDeployment
    \/ cleanupOldGeneratedConfigMaps \/ DeleteOld \/ WriteStatus

Cluster == RollOut \/ PodStarts \/ OldPodsStop \/ HistoryPruned

Next ==
    \/ Begin \/ PassStep \/ PassEnds
    \/ SyncSpec \/ SyncConfigMaps \/ SyncWorkload
    \/ Cluster
    \/ UserEditsSpec \/ UserDeletesConfigMap \/ CalmDown

Spec == Init /\ [][Next]_vars

(* Passes recur (Reconcile asks to be requeued, or fails and is retried)   *)
(* and make progress, as do the informers and the Deployment controller.   *)
Fairness ==
    /\ WF_vars(Begin) /\ WF_vars(PassStep)
    /\ WF_vars(SyncSpec) /\ WF_vars(SyncConfigMaps) /\ WF_vars(SyncWorkload)
    /\ WF_vars(RollOut) /\ WF_vars(PodStarts) /\ WF_vars(OldPodsStop) /\ WF_vars(HistoryPruned)

FairSpec == Spec /\ Fairness
--------------------------------------------------------------------------------
(* Every variable has its type: a ConfigMap of each name exists once, and a *)
(* pass that makes, mounts or deletes one has a content to make one for.   *)
TypeOK ==
    /\ spec \in [api: Wanted, seen: Wanted]
    /\ cms \in [api: Seq(Contents), seen: Seq(Contents)]
    /\ rs \in [api: Seq(Wanted), seen: Seq(Wanted)]
    /\ IsInjective(cms.api) /\ IsInjective(cms.seen)
    /\ IsInjective(rs.api) /\ IsInjective(rs.seen)
    /\ dep \in [api: Wanted \cup {Absent}, seen: Wanted \cup {Absent}]
    /\ owned \in BOOLEAN
    /\ running \subseteq Wanted
    /\ reported \in Contents \cup {None}
    /\ pc \in {"idle", "ensure", "hash", "apply", "cleanup", "delete", "status"}
    /\ want \in Wanted
    /\ pc \in {"ensure", "hash", "cleanup", "delete"} => want \in Contents
    /\ doomed \subseteq Contents /\ fresh \in BOOLEAN
    /\ edits \in 0..(MaxEdits + 1)

(* controllers/configmap_reconciler.go, reconcileGeneratedConfig: in-flight *)
(* rollouts keep their referenced inputs.  Cleanup that saw the Deployment *)
(* and its ReplicaSets as they were never deletes the ConfigMap the        *)
(* Deployment's template names or running Pods have mounted, not even while *)
(* they are being replaced by Pods that cannot start yet, nor when the list *)
(* of ConfigMaps is old, a Delete fails, or rollouts go on between the read *)
(* and the last Delete.  Cleanup that sees an older Deployment or older    *)
(* ReplicaSets may.                                                        *)
InUseConfigKept ==
    [][(DeleteOld /\ fresh) =>
          Range(cms.api) \ Range(cms'.api) \subseteq Contents \ (running \cup {dep.api})]_vars

(* Once all is calm the wanted content exists and is reported for good, and*)
(* mounted for good by a Deployment that is still owned, also when its     *)
(* ConfigMap was just deleted, by a user or by cleanup after an earlier    *)
(* change of the spec, and the cache does not know yet                     *)
(* (ensureGeneratedConfigMap).  A Deployment that had to drop its config   *)
(* volume in between has lost its owner and is left as it is, while the    *)
(* status reports the content as if it were mounted.                       *)
RolloutConverges ==
    \A c \in Contents :
        (Calm /\ spec.api = c)
            ~> [](/\ reported = c /\ c \in Range(cms.api)
                  /\ owned => dep.api = c /\ running = {c})

(* Once all is calm and there is generated config, what is left beyond the *)
(* retention is in use: it is the wanted one, or the Deployment or a       *)
(* ReplicaSet has it (cleanupOldGeneratedConfigMaps).                      *)
StaleConfigsCollected ==
    (Calm /\ spec.api \in Contents)
        ~> [](Len(cms.api) > Retention =>
                 Range(cms.api) \subseteq Range(rs.api) \cup {dep.api, spec.api})
================================================================================
