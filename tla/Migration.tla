------------------------------- MODULE Migration -------------------------------
(***************************************************************************)
(* The operator-managed migration of Responses/Conversations state to      *)
(* Praxis (controllers/migration_job.go), as run by the OGXServer          *)
(* reconciler against the API server, its informer cache, the Kubernetes   *)
(* Job controller and the users who edit the CR, the Secrets and the Job.  *)
(*                                                                         *)
(* One reconcile pass is split at the points where another actor can       *)
(* intervene: read the CR from the cache (Begin), read the Secrets for the *)
(* preflight (Preflight), read them again for the attempt key              *)
(* (migrationAttemptKey), read the Job from the API server                 *)
(* (getMigrationJob), act on the Job (Act), and write the status back      *)
(* (WriteStatus).  The operator may crash between any two of them.         *)
(***************************************************************************)
EXTENDS Integers, Sequences

CONSTANTS
    SrcConns,        \* connection strings the OGX Secret may hold
    DstConns,        \* connection strings the Praxis Secret may hold
    Missing,         \* the Secret is absent
    Keyless,         \* the Secret is there, without its key or its watch label
    NoKey,           \* the empty attempt key
    ForeignKey,      \* the attempt annotation of a Job somebody else created
    SpecChoices,     \* the values of spec.praxisMode users choose from
    MaxLag,          \* bound: versions of the CR from the cached to the stored one
    MaxEdits         \* bound: things users do (edits, deletions)

ASSUME MissingAssumption ==
    /\ Missing \notin SrcConns \cup DstConns \cup {Keyless}
    /\ Keyless \notin SrcConns \cup DstConns
ASSUME KeyAssumption ==
    LET AllKeys == (SrcConns \cup {Keyless}) \X (DstConns \cup {Keyless})
    IN  NoKey \notin AllKeys /\ ForeignKey \notin AllKeys /\ ForeignKey # NoKey
ASSUME BoundAssumption == MaxLag \in Nat \ {0} /\ MaxEdits \in Nat

VARIABLES
    versions,   \* CR versions: versions[1] is cached, the last one is stored
    inputs,     \* what the two Secrets hold: [src, dst]
    job,        \* the Job named <ogxserver>-praxis-migration in the API server
    pc,         \* where the reconcile pass is
    pass,       \* the pass's locals: the CR copy, the attempt key, the Job copy
    edits,      \* things users did so far; more than MaxEdits once all is calm
    completed,  \* history: attempt keys of owned Jobs that reached Complete
    optedIn,    \* history: was migration ever requested?
    owed        \* history: Jobs the operator may still create: the first one,
                \*   and one for every opt-out, Secret edit and Job deletion
                \*   of the users, less those it created

vars == <<versions, inputs, job, pc, pass, edits, completed, optedIn, owed>>
world == <<inputs, edits, optedIn>>
history == <<completed, optedIn>>
--------------------------------------------------------------------------------
(* The CR: spec.praxisMode and status.migration with its conditions.       *)

Keys == (SrcConns \cup {Keyless}) \X (DstConns \cup {Keyless})
Inputs == [src: SrcConns \cup {Missing, Keyless}, dst: DstConns \cup {Missing, Keyless}]
Phases == {"", "Pending", "PreflightFailed", "Running", "Failed", "Validated"}
CondTypes == {"MigrationPreflightReady", "MigrationJobSucceeded",
              "MigrationValidated", "PraxisCutoverReady", "SoftRollbackAvailable"}
Gates == {"MigrationJobSucceeded", "MigrationValidated", "PraxisCutoverReady"}

Specs == [praxisEnabled: BOOLEAN, migrationJob: {"absent", "disabled", "enabled"}]
ASSUME SpecAssumption == SpecChoices \subseteq Specs

MigrationStatus ==
    [present: BOOLEAN, phase: Phases, key: Keys \cup {NoKey},
     jobName: BOOLEAN, warning: BOOLEAN]

NoMigrationStatus ==
    [present |-> FALSE, phase |-> "", key |-> NoKey,
     jobName |-> FALSE, warning |-> FALSE]

NoConditions == [c \in CondTypes |-> "Unset"]

Statuses == [mig: MigrationStatus, conds: [CondTypes -> {"Unset", "True", "False"}]]
Versions == [spec: Specs, status: Statuses]

Cached == versions[1]
Stored == versions[Len(versions)]

isMigrationRequested(spec) ==
    spec.praxisEnabled /\ spec.migrationJob = "enabled"

Mutant_AlwaysHistory(status) == TRUE

hasMigrationHistory(status) ==
    \/ /\ status.mig.present
       /\ \/ status.mig.warning
          \/ status.mig.jobName
          \/ status.mig.key # NoKey
          \/ status.mig.phase \notin {"", "Pending"}
    \/ \E c \in CondTypes : status.conds[c] # "Unset"

(* The Job object; Complete and Failed are its terminal conditions.  A Job *)
(* deleted with foreground propagation stays, marked deleting, until its   *)
(* Pods are gone.                                                          *)
JobStates == {"pending", "active", "Complete", "Failed"}
Jobs == [exists: BOOLEAN, owned: BOOLEAN, key: Keys \cup {NoKey, ForeignKey},
         state: JobStates, deleting: BOOLEAN]
NoJob == [exists |-> FALSE, owned |-> FALSE, key |-> NoKey,
          state |-> "pending", deleting |-> FALSE]
NewJob(key) == [exists |-> TRUE, owned |-> TRUE, key |-> key,
                state |-> "pending", deleting |-> FALSE]
ForeignJob == [exists |-> TRUE, owned |-> FALSE, key |-> ForeignKey,
               state |-> "active", deleting |-> FALSE]
--------------------------------------------------------------------------------
(* The status a pass computes.                                             *)

WithConds(conds, types, value) ==
    [c \in CondTypes |-> IF c \in types THEN value ELSE conds[c]]

NewMigrationStatus(phase, key, jobName) ==
    [present |-> TRUE, phase |-> phase, key |-> key,
     jobName |-> jobName, warning |-> TRUE]

ensureSoftRollbackWarning(status) ==
    [mig   |-> [status.mig EXCEPT !.present = TRUE, !.warning = TRUE],
     conds |-> WithConds(status.conds, {"SoftRollbackAvailable"}, "True")]

applyPreflightSuccess(status) ==
    [mig   |-> status.mig,
     conds |-> WithConds(status.conds, {"MigrationPreflightReady"}, "True")]

applyPreflightFailure(status) ==
    [mig   |-> NewMigrationStatus("PreflightFailed", NoKey, FALSE),
     conds |-> WithConds(
                 WithConds(status.conds, Gates \cup {"MigrationPreflightReady"}, "False"),
                 {"SoftRollbackAvailable"}, "True")]

Mutant_WaitingKeepsGates(status, key) ==
    [mig   |-> NewMigrationStatus("Running", key, TRUE),
     conds |-> WithConds(status.conds, {"SoftRollbackAvailable"}, "True")]

markMigrationWaiting(status, key) ==
    [mig   |-> NewMigrationStatus("Running", key, TRUE),
     conds |-> WithConds(WithConds(status.conds, Gates, "False"),
                         {"SoftRollbackAvailable"}, "True")]

Mutant_FinishedMeansComplete(status, j, key) ==
    LET finished == j.state \in {"Complete", "Failed"}
    IN  [mig   |-> NewMigrationStatus(IF finished THEN "Validated" ELSE "Running", key, TRUE),
         conds |-> WithConds(WithConds(status.conds, Gates, IF finished THEN "True" ELSE "False"),
                             {"SoftRollbackAvailable"}, "True")]

observeMigrationJob(status, j, key) ==
    LET phase == IF j.state = "Complete" THEN "Validated"
                 ELSE IF j.state = "Failed" THEN "Failed" ELSE "Running"
        gate  == IF j.state = "Complete" THEN "True" ELSE "False"
    IN  [mig   |-> NewMigrationStatus(phase, key, TRUE),
         conds |-> WithConds(WithConds(status.conds, Gates, gate),
                             {"SoftRollbackAvailable"}, "True")]

warnSoftRollbackOnPraxisDisable(status) ==
    IF status.mig.present THEN ensureSoftRollbackWarning(status) ELSE status

Mutant_ClearKeepsCutover(status) ==
    LET keep == status.mig.phase = "Validated"
    IN  [mig   |-> [present |-> TRUE,
                    phase   |-> IF keep THEN "Validated" ELSE "Pending",
                    key     |-> IF keep THEN status.mig.key ELSE NoKey,
                    jobName |-> FALSE,
                    warning |-> status.mig.warning],
         conds |-> WithConds(status.conds, {"MigrationPreflightReady", "MigrationJobSucceeded",
                                            "MigrationValidated"}, "False")]

clearMigrationState(status) ==
    LET keep      == status.mig.phase = "Validated"
        warned    == status.mig.warning
        closed    == WithConds(status.conds, Gates \cup {"MigrationPreflightReady"}, "False")
    IN  [mig   |-> [present |-> TRUE,
                    phase   |-> IF keep THEN "Validated" ELSE "Pending",
                    key     |-> IF keep THEN status.mig.key ELSE NoKey,
                    jobName |-> FALSE,
                    warning |-> warned],
         conds |-> IF warned THEN closed
                   ELSE WithConds(closed, {"SoftRollbackAvailable"}, "False")]

migrationJobIsCurrent(j, key) == ~j.deleting /\ j.key = key

migrationAlreadyValidated(status) == status.mig.phase = "Validated"

Mutant_AnyOwner(j) == TRUE
assertOwnedMigrationJob(j) == j.owned

(* A Job of an earlier attempt that reconcileExistingMigrationJob replaces; *)
(* one that completed is kept, whatever its attempt.                       *)
Mutant_RetryFailed(j, key) ==
    ~j.deleting /\ j.state # "Complete" /\ (j.key # key \/ j.state = "Failed")
Mutant_KeepFailedJobs(j, key) ==
    ~j.deleting /\ j.key # key /\ j.state \notin {"Complete", "Failed"}
StaleJob(j, key) ==
    ~j.deleting /\ j.key # key /\ j.state # "Complete"

(* What reconcileMigration reports of the Job ensureMigrationJob returned. *)
ReportJob(status, j, key) ==
    IF migrationJobIsCurrent(j, key)
    THEN observeMigrationJob(status, j, key)
    ELSE IF ~j.deleting /\ j.state = "Complete"
         THEN observeMigrationJob(status, j, j.key)
         ELSE markMigrationWaiting(status, key)
--------------------------------------------------------------------------------
InitialStatus == [mig |-> NoMigrationStatus, conds |-> NoConditions]
IdlePass == [spec |-> [praxisEnabled |-> FALSE, migrationJob |-> "absent"],
             status |-> InitialStatus, key |-> NoKey, job |-> NoJob]

Init ==
    /\ \E s \in SpecChoices :
          /\ versions = <<[spec |-> s, status |-> InitialStatus]>>
          /\ optedIn = isMigrationRequested(s)
    /\ inputs \in [src: SrcConns, dst: DstConns]
    /\ job \in {NoJob, ForeignJob}
    /\ pc = "idle"
    /\ pass = IdlePass
    /\ edits = 0
    /\ completed = {}
    /\ owed = 1

Calm == edits > MaxEdits

(* fetchInstance: the pass works on a copy of the cached CR.               *)
Begin ==
    /\ pc = "idle"
    /\ pc' = "resources"
    /\ pass' = [spec |-> Cached.spec, status |-> Cached.status,
                key |-> NoKey, job |-> NoJob]
    /\ UNCHANGED <<versions, job, world, completed, owed>>

(* reconcileMigration is over: only the status survives it.                *)
Finish(status) ==
    /\ pc' = "status"
    /\ pass' = [IdlePass EXCEPT !.status = status]

(* The steps of reconcileResources before the migration succeed, and       *)
(* reconcileMigration dispatches on whether migration is requested.        *)
Dispatch ==
    /\ pc = "resources"
    /\ IF isMigrationRequested(pass.spec)
       THEN /\ pc' = "preflight"
            /\ pass' = [pass EXCEPT !.status = ensureSoftRollbackWarning(@)]
       ELSE /\ pc' = "getJob"
            /\ UNCHANGED pass
    /\ UNCHANGED <<versions, job, world, completed, owed>>

(* One of those steps, or a later call to the API server, fails:           *)
(* reconcileResources returns the error and Reconcile still writes the     *)
(* status of the copy.                                                     *)
CallFails ==
    /\ ~Calm
    /\ pc \in {"resources", "key", "getJob", "act"}
    /\ Finish(pass.status)
    /\ UNCHANGED <<versions, job, world, completed, owed>>

(* runMigrationPreflight.  A Get of its that fails is reported as a failed *)
(* preflight too.  Its other checks (storage configured, runtime           *)
(* ConfigMap, CA bundle, image) fail the same way as a keyless Secret, when*)
(* migrationAttemptKey does not repeat them, or a missing one, when it does.*)
PreflightPasses ==
    /\ inputs.src \in SrcConns
    /\ inputs.dst \in DstConns
    /\ inputs.src # inputs.dst

Preflight ==
    /\ pc = "preflight"
    /\ \/ /\ PreflightPasses
          /\ pc' = "key"
          /\ pass' = [pass EXCEPT !.status = applyPreflightSuccess(@)]
       \/ /\ ~PreflightPasses \/ ~Calm
          /\ Finish(applyPreflightFailure(pass.status))
    /\ UNCHANGED <<versions, job, world, completed, owed>>

(* migrationAttemptKey reads the Secrets again; a Secret that went missing *)
(* since the preflight is an error; one that lost its key is fingerprinted *)
(* as empty, and Secrets made equal since then are not looked for.         *)
Mutant_MissingSecretIgnored ==
    /\ pc = "key"
    /\ pc' = "getJob"
    /\ pass' = [pass EXCEPT !.key = <<inputs.src, inputs.dst>>]
    /\ UNCHANGED <<versions, job, world, completed, owed>>

migrationAttemptKey ==
    /\ pc = "key"
    /\ IF inputs.src # Missing /\ inputs.dst # Missing
       THEN /\ pc' = "getJob"
            /\ pass' = [pass EXCEPT !.key = <<inputs.src, inputs.dst>>]
       ELSE Finish(pass.status)
    /\ UNCHANGED <<versions, job, world, completed, owed>>

(* getMigrationJob: an uncached read.                                      *)
getMigrationJob ==
    /\ pc = "getJob"
    /\ pc' = "act"
    /\ pass' = [pass EXCEPT !.job = job]
    /\ UNCHANGED <<versions, job, world, completed, owed>>

(* Delete by name with foreground propagation; NotFound is ignored.        *)
deleteMigrationJobObject ==
    job' = IF job.exists THEN [job EXCEPT !.deleting = TRUE] ELSE job

(* handleMigrationNotRequested                                             *)
ActNotRequested ==
    /\ pc = "act"
    /\ ~isMigrationRequested(pass.spec)
    /\ LET live == pass.job.exists /\ ~pass.job.deleting
       IN  /\ IF live /\ assertOwnedMigrationJob(pass.job)
              THEN deleteMigrationJobObject
              ELSE UNCHANGED job
           /\ Finish(IF (live /\ ~assertOwnedMigrationJob(pass.job)) \/ ~hasMigrationHistory(pass.status)
                     THEN pass.status
                     ELSE clearMigrationState(warnSoftRollbackOnPraxisDisable(pass.status)))
    /\ UNCHANGED <<versions, world, completed, owed>>

(* reconcileExistingMigrationJob, and reporting the Job it returns; a Job  *)
(* of another owner is an error.                                           *)
ActExistingJob ==
    /\ pc = "act"
    /\ isMigrationRequested(pass.spec)
    /\ pass.job.exists
    /\ IF assertOwnedMigrationJob(pass.job) /\ StaleJob(pass.job, pass.key)
       THEN deleteMigrationJobObject
       ELSE UNCHANGED job
    /\ Finish(IF assertOwnedMigrationJob(pass.job)
              THEN ReportJob(pass.status, pass.job, pass.key)
              ELSE pass.status)
    /\ UNCHANGED <<versions, world, completed, owed>>

(* ensureMigrationJob when the Job was not found: nothing to do once       *)
(* Validated, otherwise create it.  A Job that appeared meanwhile makes    *)
(* the Create fail with AlreadyExists; it is read again and rejected if    *)
(* it is not owned.                                                        *)
ActNoJob ==
    /\ pc = "act"
    /\ isMigrationRequested(pass.spec)
    /\ ~pass.job.exists
    /\ \/ /\ migrationAlreadyValidated(pass.status)
          /\ Finish(pass.status)
          /\ UNCHANGED <<job, owed>>
       \/ /\ ~migrationAlreadyValidated(pass.status)
          /\ ~job.exists
          /\ job' = NewJob(pass.key)
          /\ owed' = owed - 1
          /\ Finish(ReportJob(pass.status, NewJob(pass.key), pass.key))
       \/ /\ ~migrationAlreadyValidated(pass.status)
          /\ job.exists
          /\ Finish(IF assertOwnedMigrationJob(job) THEN ReportJob(pass.status, job, pass.key)
                    ELSE pass.status)
          /\ UNCHANGED <<job, owed>>
    /\ UNCHANGED <<versions, world, completed>>

(* updateStatus: read the CR from the cache, put the computed status on it *)
(* and update; the update conflicts, and is retried, while the cache is    *)
(* behind.                                                                 *)
WriteStatus ==
    /\ pc = "status"
    /\ Len(versions) = 1
    /\ versions' = Append(versions, [spec |-> Cached.spec, status |-> pass.status])
    /\ pc' = "idle"
    /\ pass' = IdlePass
    /\ UNCHANGED <<job, world, completed, owed>>

(* The retries run out or the update fails otherwise; the pass's status is *)
(* lost and the request is queued again.                                   *)
WriteStatusFails ==
    /\ ~Calm
    /\ pc = "status"
    /\ pc' = "idle"
    /\ pass' = IdlePass
    /\ UNCHANGED <<versions, job, world, completed, owed>>

Crash ==
    /\ ~Calm
    /\ pc # "idle"
    /\ pc' = "idle"
    /\ pass' = IdlePass
    /\ UNCHANGED <<versions, job, world, completed, owed>>
--------------------------------------------------------------------------------
(* The informer delivers the next version of the CR.                       *)
SyncCache ==
    /\ Len(versions) > 1
    /\ versions' = Tail(versions)
    /\ UNCHANGED <<job, pc, pass, world, completed, owed>>

(* The Job controller and the garbage collector.                           *)
JobStarts ==
    /\ job.exists /\ ~job.deleting /\ job.state = "pending"
    /\ job' = [job EXCEPT !.state = "active"]
    /\ UNCHANGED <<versions, pc, pass, world, completed, owed>>

JobFinishes ==
    /\ job.exists /\ ~job.deleting /\ job.state = "active"
    /\ \E s \in {"Complete", "Failed"} :
          /\ job' = [job EXCEPT !.state = s]
          /\ completed' = IF s = "Complete" /\ job.owned
                          THEN completed \cup {job.key} ELSE completed
    /\ UNCHANGED <<versions, pc, pass, world, owed>>

(* The Pods of a deleted Job are gone, and with them the Job.              *)
JobRemoved ==
    /\ job.exists /\ job.deleting
    /\ job' = NoJob
    /\ UNCHANGED <<versions, pc, pass, world, completed, owed>>
--------------------------------------------------------------------------------
(* Users edit the CR and the Secrets, and delete the Job (the documented   *)
(* way to retry) with kubectl's background propagation: the Job object goes*)
(* at once.                                                                *)
UserStep == edits < MaxEdits /\ edits' = edits + 1

UserEditsSpec ==
    /\ UserStep
    /\ Len(versions) < MaxLag
    /\ \E s \in SpecChoices \ {Stored.spec} :
          /\ versions' = Append(versions, [Stored EXCEPT !.spec = s])
          /\ optedIn' = (optedIn \/ isMigrationRequested(s))
          /\ owed' = IF isMigrationRequested(Stored.spec) /\ ~isMigrationRequested(s)
                     THEN owed + 1 ELSE owed
    /\ UNCHANGED <<inputs, job, pc, pass, completed>>

UserEditsSecrets ==
    /\ UserStep
    /\ inputs' \in Inputs \ {inputs}
    /\ owed' = owed + 1
    /\ UNCHANGED <<versions, job, pc, pass, history>>

UserDeletesJob ==
    /\ UserStep
    /\ job.exists /\ ~job.deleting
    /\ job' = NoJob
    /\ owed' = owed + 1
    /\ UNCHANGED <<versions, inputs, pc, pass, history>>

UserCreatesForeignJob ==
    /\ UserStep
    /\ ~job.exists
    /\ job' = ForeignJob
    /\ UNCHANGED <<versions, inputs, pc, pass, history, owed>>

(* From here on users leave things alone and nothing fails any more.       *)
CalmDown ==
    /\ ~Calm
    /\ edits' = MaxEdits + 1
    /\ UNCHANGED <<versions, inputs, job, pc, pass, history, owed>>
--------------------------------------------------------------------------------
Act == ActNotRequested \/ ActExistingJob \/ ActNoJob

Operator ==
    \/ Begin \/ Dispatch \/ CallFails \/ Preflight \/ migrationAttemptKey
    \/ getMigrationJob \/ Act \/ WriteStatus \/ WriteStatusFails \/ Crash

Cluster == SyncCache \/ JobStarts \/ JobFinishes \/ JobRemoved

Users ==
    \/ UserEditsSpec \/ UserEditsSecrets \/ UserDeletesJob
    \/ UserCreatesForeignJob \/ CalmDown

Next == Operator \/ Cluster \/ Users

Spec == Init /\ [][Next]_vars

(* A pass is begun again and again (Reconcile asks to be requeued after 10 *)
(* seconds, 15 seconds, 5 minutes or, on an error, with backoff) and takes *)
(* its steps; the informer and the Job controller make progress.  Nothing  *)
(* is assumed of users, crashes and failing calls: the liveness properties *)
(* speak of what happens if they ever stop (Calm).                         *)
Fairness ==
    /\ WF_vars(Begin) /\ WF_vars(Dispatch) /\ WF_vars(Preflight)
    /\ WF_vars(migrationAttemptKey) /\ WF_vars(getMigrationJob) /\ WF_vars(Act)
    /\ WF_vars(WriteStatus)
    /\ WF_vars(SyncCache) /\ WF_vars(JobStarts) /\ WF_vars(JobFinishes)
    /\ WF_vars(JobRemoved)

FairSpec == Spec /\ Fairness
--------------------------------------------------------------------------------
(* Every variable has its type; the Job a pass remembers is one it may have *)
(* read, and the attempt key it computed is one migrationAttemptKey makes.  *)
TypeOK ==
    /\ versions \in Seq(Versions)
    /\ Len(versions) > 0
    /\ inputs \in Inputs
    /\ job \in Jobs
    /\ pc \in {"idle", "resources", "preflight", "key", "getJob", "act", "status"}
    /\ pass \in [spec: Specs, status: Statuses, key: Keys \cup {NoKey}, job: Jobs]
    /\ edits \in 0..(MaxEdits + 1)
    /\ completed \subseteq Keys
    /\ optedIn \in BOOLEAN
    /\ owed \in Int

(* PraxisCutoverReady=True means a migration Job of this OGXServer really  *)
(* completed for the attempt the status names, and the status says so      *)
(* consistently: the cutover gate (applyMigrationJobComplete) is never     *)
(* opened or kept open by a stale cache, a crash or a half-done pass.      *)
CutoverMeansCompleted(status) ==
    status.conds["PraxisCutoverReady"] = "True" =>
        /\ status.mig.phase = "Validated"
        /\ status.mig.key \in completed
        /\ \A c \in Gates : status.conds[c] = "True"
CutoverImpliesCompleted == CutoverMeansCompleted(Stored.status)

(* A CR that never opted in is status-unaffected: handleMigrationNotRequested *)
(* writes no status.migration and no migration condition, and no Job of the *)
(* OGXServer exists, whatever Secrets change or Jobs of that name appear.  *)
NeverOptedInUntouched ==
    ~optedIn => /\ Stored.status = InitialStatus
                /\ job.exists => ~job.owned

(* docs/upgrade-praxis-migration.md: an attempt in flight, succeeded or    *)
(* failed is not duplicated.  Whatever the cache lags, calls fail and the  *)
(* operator crashes between creating the Job and writing the status, every *)
(* Job beyond the first that createMigrationJob creates is owed to a       *)
(* different thing a user did: an opt-out, an edit of a Secret, or a       *)
(* deletion of the Job.                                                    *)
AttemptsNotDuplicated == owed >= 0

(* A Job of the migration's name that the OGXServer does not own is left   *)
(* untouched by every step of the operator, whether the pass read it or it *)
(* appeared after the pass read none (assertOwnedMigrationJob,             *)
(* createMigrationJob).  One put in the place of an owned Job between the  *)
(* read and the Delete is not spared: the Delete goes by name.             *)
ForeignJobUntouched ==
    [][(Operator /\ job.exists /\ ~job.owned /\ ~(pass.job.exists /\ pass.job.owned))
          => UNCHANGED job]_vars

(* Once all is calm, a requested migration with good inputs and no foreign  *)
(* Job in its way ends: the stored phase becomes Validated or Failed, also *)
(* when a stale or terminating Job has to be replaced first.               *)
ForeignInTheWay == job.exists /\ ~job.owned
RequestedMigrationSettles ==
    (Calm /\ isMigrationRequested(Stored.spec) /\ PreflightPasses /\ ~ForeignInTheWay)
        ~> Stored.status.mig.phase \in {"Validated", "Failed"}

(* Once all is calm, opting out deletes the Job and closes the cutover gate, *)
(* and both stay that way (handleMigrationNotRequested).                   *)
OptOutCleansUp ==
    (Calm /\ ~isMigrationRequested(Stored.spec) /\ ~ForeignInTheWay)
        ~> [](~job.exists /\ Stored.status.conds["PraxisCutoverReady"] # "True")

(* docs/upgrade-praxis-migration.md, "Orchestration": Validated leads to   *)
(* PraxisCutoverReady=True.  Once all is calm, a requested migration with   *)
(* good inputs that is Validated gets its cutover gate opened, or at least *)
(* does not stay Validated.                                                *)
ValidatedOpensCutover ==
    (Calm /\ isMigrationRequested(Stored.spec) /\ PreflightPasses
           /\ Stored.status.mig.phase = "Validated")
        ~> \/ Stored.status.conds["PraxisCutoverReady"] = "True"
           \/ Stored.status.mig.phase # "Validated"

Gate == INSTANCE MigrationGate WITH
            Keys <- Keys,
            Closed <- NoKey,
            done <- completed,
            gate <- IF Stored.status.conds["PraxisCutoverReady"] = "True"
                    THEN Stored.status.mig.key ELSE NoKey

(* The migration implements the cutover gate of MigrationGate: seen from   *)
(* outside, the gate opens for an attempt only after that attempt's Job    *)
(* completed, and completions are never forgotten.                         *)
GateRefinement == Gate!Spec
================================================================================
