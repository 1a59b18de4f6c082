------------------------------- MODULE OgxModule -------------------------------
(***************************************************************************)
(* The ODH-facing module controller                                        *)
(* (ogx-module/internal/controller/ogx/reconciler.go): it deploys the      *)
(* manifests of the root operator while the OGX CR is Managed, removes     *)
(* them when it is Removed or deleted, and guards the removal with a       *)
(* finalizer.                                                              *)
(*                                                                         *)
(* A pass is split at its calls to the API server: read the CR from the    *)
(* cache, add the finalizer, deploy or clean up, check readiness, re-read  *)
(* the CR and write its status, clear the finalizer.  Unlike the OGXServer *)
(* reconciler it is not run periodically, so what wakes it is modelled.    *)
(***************************************************************************)
EXTENDS Naturals, Sequences

CONSTANTS
    Objects,       \* the rendered manifests
    MaxLag,        \* bound: versions of the CR from the cached to the stored one
    MaxEdits       \* bound: things users do

ASSUME BoundAssumption == MaxLag \in Nat \ {0} /\ MaxEdits \in Nat
ASSUME ObjectsAssumption == Objects # {}

VARIABLES
    versions,   \* CR versions: versions[1] is cached, the last one is stored
    deployed,   \* the manifests that exist
    world,      \* [available, certs]: are the root Deployment's replicas available,
                \*   is its webhook Secret there?
    queue,      \* [key, timer]: is the CR in the work queue, is a requeue pending
    pc,         \* where the pass is
    pass,       \* the pass's copy of the CR, whether it is the stored one, and its findings
    edits,      \* things users did so far; more than MaxEdits once all is calm
    unguarded   \* history: did a removing pass clear the finalizer of a CR that
                \*   had been switched back to Managed?

vars == <<versions, deployed, world, queue, pc, pass, edits, unguarded>>

Reasons == {"Unset", "Removed", "DeployFailed", "Provisioned", "Unknown"}
Status == [reason: Reasons, operator: BOOLEAN, webhook: BOOLEAN]
CRs == [exists: BOOLEAN, state: {"Managed", "Removed"}, deleting: BOOLEAN,
        finalizer: BOOLEAN, status: Status]

NewStatus == [reason |-> "Unset", operator |-> FALSE, webhook |-> FALSE]
NewCR(state) == [exists |-> TRUE, state |-> state, deleting |-> FALSE,
                 finalizer |-> FALSE, status |-> NewStatus]
NoCR == [NewCR("Managed") EXCEPT !.exists = FALSE]

Cached == versions[1]
Stored == versions[Len(versions)]
Calm == edits > MaxEdits

(* What a pass found out.                                                  *)
Findings == [failed: BOOLEAN, provisioned: BOOLEAN, operator: BOOLEAN,
             webhook: BOOLEAN]
NoFindings == [failed |-> FALSE, provisioned |-> FALSE, operator |-> FALSE,
               webhook |-> FALSE]
IdlePass == [cr |-> NoCR, current |-> FALSE, cleanup |-> FALSE, found |-> NoFindings]

(* A write by the pass becomes the stored version, and the pass's copy.    *)
Write(cr) == versions' = Append(versions, cr)

Done(q) ==
    /\ pc' = "idle"
    /\ pass' = IdlePass
    /\ queue' = q
(* An error puts the CR back into the queue.                               *)
Retry == Done([queue EXCEPT !.key = TRUE])
--------------------------------------------------------------------------------
Init ==
    /\ versions \in {<<NewCR(s)>> : s \in {"Managed", "Removed"}}
    /\ deployed = {}
    /\ world = [available |-> FALSE, certs |-> FALSE]
    /\ queue = [key |-> TRUE, timer |-> FALSE]
    /\ pc = "idle"
    /\ pass = IdlePass
    /\ edits = 0
    /\ unguarded = FALSE

(* Reconcile reads the CR; one that is gone is ignored.                    *)
Begin ==
    /\ pc = "idle" /\ queue.key
    /\ queue' = [queue EXCEPT !.key = FALSE]
    /\ IF Cached.exists
       THEN /\ pc' = "finalizer"
            /\ pass' = [IdlePass EXCEPT !.cr = Cached, !.current = (Len(versions) = 1)]
       ELSE UNCHANGED <<pc, pass>>
    /\ UNCHANGED <<versions, deployed, world, edits, unguarded>>

(* ensureFinalizer; the API server refuses a stale copy, and a finalizer   *)
(* for a CR that is being deleted.                                         *)
ensureFinalizer ==
    LET cr == [pass.cr EXCEPT !.finalizer = TRUE]
    IN  /\ pc = "finalizer"
        /\ \/ /\ pass.cr.state = "Removed" \/ pass.cr.finalizer
              /\ pc' = "work"
              /\ UNCHANGED <<versions, pass, queue>>
           \/ /\ pass.cr.state = "Managed" /\ ~pass.cr.finalizer
              /\ IF pass.current /\ ~pass.cr.deleting
                 THEN /\ Len(versions) <= MaxLag
                      /\ Write(cr)
                      /\ pass' = [pass EXCEPT !.cr = cr]
                      /\ pc' = "work"
                      /\ UNCHANGED queue
                 ELSE Retry /\ UNCHANGED versions
        /\ UNCHANGED <<deployed, world, edits, unguarded>>

Mutant_RemovedKeepsRunning(cr) == cr.deleting
mustCleanUp(cr) == cr.deleting \/ cr.state = "Removed"

(* The platform ConfigMap cannot be read or the manifests not rendered:    *)
(* the error is reported, whatever the pass was going to do.               *)
renderFails ==
    /\ ~Calm
    /\ pc = "work"
    /\ pc' = "status"
    /\ pass' = [pass EXCEPT !.found.failed = TRUE]
    /\ UNCHANGED <<versions, deployed, world, queue, edits, unguarded>>

(* cleanupRootOperatorResources; a failure may leave anything behind.  The *)
(* owned objects that went wake the controller up.                         *)
cleanupRootOperatorResources ==
    /\ pc = "work" /\ mustCleanUp(pass.cr)
    /\ \E left \in (IF Calm THEN {{}} ELSE SUBSET deployed), ok \in BOOLEAN :
          /\ ok => left = {}
          /\ ~ok => ~Calm
          /\ deployed' = left
          /\ world' = [world EXCEPT !.available = @ /\ left = Objects]
          /\ queue' = [queue EXCEPT !.key = @ \/ left # deployed]
          /\ pass' = [pass EXCEPT !.cleanup = TRUE, !.found.failed = ~ok]
    /\ pc' = "status"
    /\ UNCHANGED <<versions, edits, unguarded>>

(* Deployer.Deploy; a failure may have applied some of the manifests.      *)
Deploy ==
    /\ pc = "work" /\ ~mustCleanUp(pass.cr)
    /\ \E applied \in (IF Calm THEN {Objects} ELSE SUBSET Objects), ok \in BOOLEAN :
          /\ ok => applied = Objects
          /\ ~ok => ~Calm
          /\ deployed' = deployed \cup applied
          /\ queue' = [queue EXCEPT !.key = @ \/ deployed' # deployed]
          /\ pc' = IF ok THEN "check" ELSE "status"
          /\ pass' = [pass EXCEPT !.found.failed = ~ok]
    /\ UNCHANGED <<versions, world, edits, unguarded>>

(* rootDeploymentsReady, rootWebhookResourcesReady and                     *)
(* aggregateOGXServerHealth; a Deployment that is gone is an error.  The   *)
(* health of OGXServers changes nothing but the Degraded condition, which  *)
(* is left out.                                                            *)
CheckReadiness ==
    /\ pc = "check"
    /\ \E ok \in BOOLEAN :
          /\ ok => deployed = Objects
          /\ ~ok => ~Calm \/ deployed # Objects
          /\ pass' = [pass EXCEPT !.found =
                 IF ok
                 THEN [failed |-> FALSE, provisioned |-> TRUE, operator |-> world.available,
                       webhook |-> world.certs]
                 ELSE [NoFindings EXCEPT !.failed = TRUE, !.provisioned = TRUE]]
    /\ pc' = "status"
    /\ UNCHANGED <<versions, deployed, world, queue, edits, unguarded>>

(* The conditions updateStatus sets.                                       *)
StatusOf(state, found) ==
    LET reason == IF state = "Removed" THEN "Removed"
                  ELSE IF found.failed THEN "DeployFailed"
                  ELSE IF found.operator \/ found.provisioned THEN "Provisioned"
                  ELSE "Unknown"
    IN  [reason   |-> reason,
         operator |-> reason = "Provisioned" /\ found.operator,
         webhook  |-> reason = "Provisioned" /\ found.operator /\ found.webhook]

Mutant_ClearAnyway(written) == written
CleanupSucceeded(written) == written /\ ~pass.found.failed

Mutant_NoRequeue == FALSE
NeedsRequeue == ~pass.found.operator \/ ~pass.found.webhook

(* What Reconcile does after updateStatus worked on the copy cr, whose     *)
(* status it wrote or not.                                                 *)
Mutant_AlwaysClear(cr, written, current) ==
    \/ /\ pass.cleanup /\ CleanupSucceeded(written)
       /\ pc' = "clear"
       /\ pass' = [pass EXCEPT !.cr = cr, !.current = current]
       /\ UNCHANGED queue
    \/ /\ ~pass.cleanup
       /\ Retry

AfterStatus(cr, written, current) ==
    \/ /\ pass.cleanup /\ CleanupSucceeded(written) /\ cr.finalizer
       /\ pc' = "clear"
       /\ pass' = [pass EXCEPT !.cr = cr, !.current = current]
       /\ UNCHANGED queue
    \/ /\ pass.cleanup /\ CleanupSucceeded(written) /\ ~cr.finalizer
       /\ Done(queue)
    \/ /\ pass.cleanup /\ ~CleanupSucceeded(written)
       /\ Retry
    \/ /\ ~pass.cleanup /\ (pass.found.failed \/ ~written)
       /\ Retry
    \/ /\ ~pass.cleanup /\ ~pass.found.failed /\ written
       /\ Done([queue EXCEPT !.timer = @ \/ NeedsRequeue])

(* updateStatus re-reads the CR from the cache: one that is gone counts as *)
(* written; a copy that is not the stored one is refused; a status that is *)
(* the same makes no new version.                                          *)
updateStatus ==
    LET cr == [Cached EXCEPT !.status = StatusOf(Cached.state, pass.found)]
    IN  /\ pc = "status"
        /\ \/ /\ ~Cached.exists
              /\ AfterStatus(pass.cr, TRUE, FALSE)
              /\ UNCHANGED versions
           \/ /\ Cached.exists
              /\ Len(versions) > 1 \/ ~Calm
              /\ AfterStatus(Cached, FALSE, FALSE)
              /\ UNCHANGED versions
           \/ /\ Cached.exists /\ Len(versions) = 1
              /\ AfterStatus(cr, TRUE, TRUE)
              /\ IF cr = Cached THEN UNCHANGED versions ELSE Write(cr)
        /\ UNCHANGED <<deployed, world, edits, unguarded>>

(* clearFinalizer on the copy updateStatus re-read; the last finalizer of  *)
(* a CR that is being deleted lets it go.                                  *)
clearFinalizer ==
    /\ pc = "clear"
    /\ \/ /\ pass.current
          /\ Len(versions) <= MaxLag
          /\ Write(IF pass.cr.deleting THEN NoCR ELSE [pass.cr EXCEPT !.finalizer = FALSE])
          /\ unguarded' = (unguarded \/ ~mustCleanUp(pass.cr))
          /\ Done(queue)
       \/ /\ ~pass.current \/ ~Calm
          /\ Retry
          /\ UNCHANGED <<versions, unguarded>>
    /\ UNCHANGED <<deployed, world, edits>>

(* The process dies, and puts every CR into the queue when it is back.     *)
Crash ==
    /\ ~Calm
    /\ pc # "idle"
    /\ Done([key |-> TRUE, timer |-> FALSE])
    /\ UNCHANGED <<versions, deployed, world, edits, unguarded>>
--------------------------------------------------------------------------------
(* The cache gets the next version of the CR, which is an event.           *)
SyncCache ==
    /\ Len(versions) > 1
    /\ versions' = Tail(versions)
    /\ queue' = [queue EXCEPT !.key = TRUE]
    /\ UNCHANGED <<deployed, world, pc, pass, edits, unguarded>>

TimerFires ==
    /\ queue.timer
    /\ queue' = [key |-> TRUE, timer |-> FALSE]
    /\ UNCHANGED <<versions, deployed, world, pc, pass, edits, unguarded>>

(* The root Deployment gets its replicas; the Deployment is watched.       *)
DeploymentBecomesAvailable ==
    /\ deployed = Objects /\ ~world.available
    /\ world' = [world EXCEPT !.available = TRUE]
    /\ queue' = [queue EXCEPT !.key = TRUE]
    /\ UNCHANGED <<versions, deployed, pc, pass, edits, unguarded>>

(* The webhook's Secret appears; Secrets are not watched.                  *)
WebhookSecretAppears ==
    /\ ~world.certs
    /\ world' = [world EXCEPT !.certs = TRUE]
    /\ UNCHANGED <<versions, deployed, queue, pc, pass, edits, unguarded>>

(* The objects' owner references let Kubernetes collect what is left.      *)
KubernetesCollects ==
    /\ ~Stored.exists /\ deployed # {}
    /\ deployed' = {}
    /\ world' = [world EXCEPT !.available = FALSE]
    /\ queue' = [queue EXCEPT !.key = TRUE]
    /\ UNCHANGED <<versions, pc, pass, edits, unguarded>>

(* Users switch managementState, or delete the CR.                         *)
UserActs(step) ==
    /\ edits < MaxEdits
    /\ edits' = edits + 1
    /\ Len(versions) <= MaxLag
    /\ Stored.exists
    /\ IF step = "delete"
       THEN /\ ~Stored.deleting
            /\ Write(IF Stored.finalizer THEN [Stored EXCEPT !.deleting = TRUE] ELSE NoCR)
       ELSE /\ Stored.state # step
            /\ Write([Stored EXCEPT !.state = step])
    /\ pass' = [pass EXCEPT !.current = FALSE]
    /\ UNCHANGED <<deployed, world, queue, pc, unguarded>>

CalmDown ==
    /\ ~Calm
    /\ edits' = MaxEdits + 1
    /\ UNCHANGED <<versions, deployed, world, queue, pc, pass, unguarded>>
--------------------------------------------------------------------------------
PassStep ==
    \/ ensureFinalizer \/ cleanupRootOperatorResources \/ Deploy
    \/ CheckReadiness \/ updateStatus \/ clearFinalizer

Next ==
    \/ Begin \/ PassStep \/ renderFails \/ Crash
    \/ SyncCache \/ TimerFires
    \/ DeploymentBecomesAvailable \/ WebhookSecretAppears \/ KubernetesCollects
    \/ \E step \in {"Managed", "Removed", "delete"} : UserActs(step)
    \/ CalmDown

Spec == Init /\ [][Next]_vars

(* The controller works off its queue, timers fire, informers catch up and *)
(* Kubernetes makes the Deployment available and collects garbage.         *)
Fairness ==
    /\ WF_vars(Begin) /\ WF_vars(PassStep)
    /\ WF_vars(SyncCache) /\ WF_vars(TimerFires)
    /\ WF_vars(DeploymentBecomesAvailable) /\ WF_vars(WebhookSecretAppears)
    /\ WF_vars(KubernetesCollects)

FairSpec == Spec /\ Fairness
--------------------------------------------------------------------------------
(* Every variable has its type; a CR that is gone stays gone, and a pass   *)
(* about to clear the finalizer has cleaned up and found one               *)
(* (Reconcile).                                                            *)
TypeOK ==
    /\ versions \in Seq(CRs) /\ Len(versions) \in 1..(MaxLag + 1)
    /\ \A i \in 1..(Len(versions) - 1) : versions[i].exists
    /\ deployed \subseteq Objects
    /\ world \in [available: BOOLEAN, certs: BOOLEAN]
    /\ queue \in [key: BOOLEAN, timer: BOOLEAN]
    /\ pc \in {"idle", "finalizer", "work", "check", "status", "clear"}
    /\ pass \in [cr: CRs, current: BOOLEAN, cleanup: BOOLEAN, found: Findings]
    /\ pc = "clear" => pass.cleanup /\ pass.cr.finalizer
    /\ edits \in 0..(MaxEdits + 1)
    /\ unguarded \in BOOLEAN

(* tests/e2e/deletion_test.go: the CR is deleted after its resources are   *)
(* removed, which leaves no orphans.  The finalizer keeps the CR until the *)
(* cleanup has removed everything a pass deployed, whatever fails; unless  *)
(* a removing pass re-read the CR as Managed again and cleared the         *)
(* finalizer all the same, which Reconcile does not check.                 *)
GoneMeansCleaned == ~Stored.exists /\ ~unguarded => deployed = {}

(* Once all is calm a CR that is Managed gets everything deployed, its     *)
(* finalizer, and reports it, although the webhook's Secret and the re-read*)
(* of a stale CR wake nobody up (Reconcile's RequeueAfter and errors).     *)
ManagedConverges ==
    (Calm /\ Stored.exists /\ Stored.state = "Managed" /\ ~Stored.deleting)
        ~> [](/\ deployed = Objects /\ Stored.finalizer
              /\ Stored.status.reason = "Provisioned"
              /\ Stored.status.operator /\ Stored.status.webhook)

(* Once all is calm a CR that is Removed, deleted or both has nothing left *)
(* deployed, gives up its finalizer and, if it is being deleted, goes      *)
(* (Reconcile's cleanup branch).                                           *)
RemovalCompletes ==
    (Calm /\ (~Stored.exists \/ Stored.deleting \/ Stored.state = "Removed"))
        ~> [](/\ deployed = {} /\ ~Stored.finalizer /\ ~Stored.deleting
              /\ Stored.exists => Stored.status.reason = "Removed")

(* updateStatus tells users "OGX module resources were removed": when it   *)
(* starts to say so, they are.                                             *)
RemovedReportIsTrue ==
    [][updateStatus /\ Stored'.status.reason = "Removed" /\ Stored.status.reason # "Removed"
          => deployed = {}]_vars
================================================================================
