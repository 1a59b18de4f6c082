---------------------------- MODULE MigrationProofs ----------------------------
(***************************************************************************)
(* Proofs about Migration, for every choice of Secrets, users' specs and   *)
(* bounds: its type invariant, the meaning of PraxisCutoverReady, and that *)
(* the migration implements the cutover gate of MigrationGate.             *)
(***************************************************************************)
EXTENDS Migration, FiniteSetTheorems, TLAPS

--------------------------------------------------------------------------------
(* The inductive invariant.  Beyond the stored status it constrains every  *)
(* place a later status can come from: the versions the cache has still to *)
(* deliver, the copy the running pass works on, the Job in the API server  *)
(* and the copy of it the pass read.                                       *)

StatusOK(status) == status \in Statuses /\ CutoverMeansCompleted(status)

JobOK(j) ==
    /\ j \in Jobs
    /\ j.owned => j.key \in Keys
    /\ j.owned /\ j.state = "Complete" => j.key \in completed

VersionsOK ==
    /\ versions \in Seq(Versions)
    /\ Len(versions) > 0
    /\ \A i \in 1..Len(versions) : StatusOK(versions[i].status)

PassOK ==
    /\ pass \in [spec: Specs, status: Statuses, key: Keys \cup {NoKey}, job: Jobs]
    /\ StatusOK(pass.status)
    /\ JobOK(pass.job)
    /\ pc \in {"getJob", "act"} /\ isMigrationRequested(pass.spec) => pass.key \in Keys

WorldOK ==
    /\ inputs \in Inputs
    /\ pc \in {"idle", "resources", "preflight", "key", "getJob", "act", "status"}
    /\ edits \in 0..(MaxEdits + 1)
    /\ completed \subseteq Keys
    /\ optedIn \in BOOLEAN
    /\ owed \in Int

IndInv == VersionsOK /\ PassOK /\ JobOK(job) /\ WorldOK

--------------------------------------------------------------------------------
(* What the status operators return.                                       *)

CondMaps == [CondTypes -> {"Unset", "True", "False"}]

(* WithConds, the set of condition setters, yields a condition map.        *)
LEMMA WithCondsType ==
    ASSUME NEW conds \in CondMaps, NEW types, NEW value \in {"Unset", "True", "False"}
    PROVE  /\ WithConds(conds, types, value) \in CondMaps
           /\ \A c \in CondTypes :
                 WithConds(conds, types, value)[c] = IF c \in types THEN value ELSE conds[c]
BY DEF WithConds, CondMaps

(* Every status the helpers build has the shape of status.migration.       *)
LEMMA NewMigrationStatusType ==
    ASSUME NEW phase \in Phases, NEW key \in Keys \cup {NoKey}, NEW jobName \in BOOLEAN
    PROVE  /\ NewMigrationStatus(phase, key, jobName) \in MigrationStatus
           /\ NewMigrationStatus(phase, key, jobName).phase = phase
           /\ NewMigrationStatus(phase, key, jobName).key = key
BY DEF NewMigrationStatus, MigrationStatus

(* Setting conditions other than the gates leaves the gates' meaning alone. *)
LEMMA ensureSoftRollbackWarningOK ==
    ASSUME NEW status, StatusOK(status)
    PROVE  StatusOK(ensureSoftRollbackWarning(status))
<1> DEFINE new == ensureSoftRollbackWarning(status)
           conds == WithConds(status.conds, {"SoftRollbackAvailable"}, "True")
<1>1. status.conds \in CondMaps /\ status.mig \in MigrationStatus
  BY DEF StatusOK, Statuses, CondMaps
<1>2. /\ conds \in CondMaps
      /\ \A c \in Gates : conds[c] = status.conds[c]
  BY <1>1, WithCondsType DEF Gates, CondTypes
<1>3. new.conds = conds /\ new.mig \in MigrationStatus
      /\ new.mig.phase = status.mig.phase /\ new.mig.key = status.mig.key
  BY <1>1 DEF ensureSoftRollbackWarning, MigrationStatus
<1>4. new \in Statuses
  BY <1>2, <1>3 DEF Statuses, CondMaps, ensureSoftRollbackWarning
<1> QED
  BY <1>2, <1>3, <1>4 DEF StatusOK, CutoverMeansCompleted, Gates

(* A passed preflight leaves the gates alone.                              *)
LEMMA applyPreflightSuccessOK ==
    ASSUME NEW status, StatusOK(status)
    PROVE  StatusOK(applyPreflightSuccess(status))
<1> DEFINE conds == WithConds(status.conds, {"MigrationPreflightReady"}, "True")
<1>1. status.conds \in CondMaps /\ status.mig \in MigrationStatus
  BY DEF StatusOK, Statuses, CondMaps
<1>2. conds \in CondMaps /\ \A c \in Gates : conds[c] = status.conds[c]
  BY <1>1, WithCondsType DEF Gates, CondTypes
<1>3. applyPreflightSuccess(status) = [mig |-> status.mig, conds |-> conds]
  BY DEF applyPreflightSuccess
<1> HIDE DEF conds
<1> QED
  BY <1>1, <1>2, <1>3 DEF StatusOK, Statuses, CondMaps, CutoverMeansCompleted, Gates

(* A failed preflight closes every gate.                                   *)
LEMMA applyPreflightFailureOK ==
    ASSUME NEW status, StatusOK(status)
    PROVE  StatusOK(applyPreflightFailure(status))
<1> DEFINE new == applyPreflightFailure(status)
           closed == WithConds(status.conds, Gates \cup {"MigrationPreflightReady"}, "False")
           conds == WithConds(closed, {"SoftRollbackAvailable"}, "True")
<1>1. status.conds \in CondMaps
  BY DEF StatusOK, Statuses, CondMaps
<1>2. closed \in CondMaps /\ closed["PraxisCutoverReady"] = "False"
  BY <1>1, WithCondsType DEF Gates, CondTypes
<1>3. conds \in CondMaps /\ conds["PraxisCutoverReady"] = "False"
  BY <1>2, WithCondsType DEF CondTypes
<1>4. new = [mig |-> NewMigrationStatus("PreflightFailed", NoKey, FALSE), conds |-> conds]
  BY DEF applyPreflightFailure
<1>5. NewMigrationStatus("PreflightFailed", NoKey, FALSE) \in MigrationStatus
  BY NewMigrationStatusType DEF Phases
<1> HIDE DEF new, closed, conds
<1>6. new \in Statuses
  BY <1>3, <1>4, <1>5 DEF Statuses, CondMaps
<1>7. new.conds["PraxisCutoverReady"] = "False"
  BY <1>3, <1>4
<1> QED
  BY <1>6, <1>7 DEF StatusOK, CutoverMeansCompleted, new

(* Waiting for another Job closes every gate.                              *)
LEMMA markMigrationWaitingOK ==
    ASSUME NEW status, StatusOK(status), NEW key \in Keys
    PROVE  StatusOK(markMigrationWaiting(status, key))
<1> DEFINE new == markMigrationWaiting(status, key)
           closed == WithConds(status.conds, Gates, "False")
           conds == WithConds(closed, {"SoftRollbackAvailable"}, "True")
<1>1. status.conds \in CondMaps
  BY DEF StatusOK, Statuses, CondMaps
<1>2. closed \in CondMaps /\ closed["PraxisCutoverReady"] = "False"
  BY <1>1, WithCondsType DEF Gates, CondTypes
<1>3. conds \in CondMaps /\ conds["PraxisCutoverReady"] = "False"
  BY <1>2, WithCondsType DEF CondTypes
<1>4. new = [mig |-> NewMigrationStatus("Running", key, TRUE), conds |-> conds]
  BY DEF markMigrationWaiting
<1>5. NewMigrationStatus("Running", key, TRUE) \in MigrationStatus
  BY NewMigrationStatusType DEF Phases
<1> HIDE DEF new, closed, conds
<1>6. new \in Statuses
  BY <1>3, <1>4, <1>5 DEF Statuses, CondMaps
<1>7. new.conds["PraxisCutoverReady"] = "False"
  BY <1>3, <1>4
<1> QED
  BY <1>6, <1>7 DEF StatusOK, CutoverMeansCompleted, new

(* Observing an honest Job opens the gates only for a completed attempt.   *)
LEMMA observeMigrationJobOK ==
    ASSUME NEW status, StatusOK(status),
           NEW j, NEW key \in Keys,
           j.state = "Complete" => key \in completed
    PROVE  StatusOK(observeMigrationJob(status, j, key))
<1> DEFINE new == observeMigrationJob(status, j, key)
           phase == IF j.state = "Complete" THEN "Validated"
                    ELSE IF j.state = "Failed" THEN "Failed" ELSE "Running"
           gate == IF j.state = "Complete" THEN "True" ELSE "False"
           gates == WithConds(status.conds, Gates, gate)
           conds == WithConds(gates, {"SoftRollbackAvailable"}, "True")
           mig == NewMigrationStatus(phase, key, TRUE)
<1>1. status.conds \in CondMaps
  BY DEF StatusOK, Statuses, CondMaps
<1>2. phase \in Phases /\ (j.state = "Complete" => phase = "Validated")
  BY DEF Phases
<1>3. gates \in CondMaps /\ \A c \in Gates : gates[c] = gate
  BY <1>1, WithCondsType DEF Gates, CondTypes
<1>4. conds \in CondMaps /\ \A c \in Gates : conds[c] = gate
  BY <1>3, WithCondsType DEF CondTypes, Gates
<1>5. new = [mig |-> mig, conds |-> conds]
  BY DEF observeMigrationJob
<1>6. gate = "True" <=> j.state = "Complete"
  OBVIOUS
<1> HIDE DEF new, phase, gate, gates, conds
<1>7. mig \in MigrationStatus /\ mig.phase = phase /\ mig.key = key
  BY <1>2, NewMigrationStatusType
<1> HIDE DEF mig
<1>8. new \in Statuses
  BY <1>4, <1>5, <1>7 DEF Statuses, CondMaps
<1> QED
  BY <1>2, <1>4, <1>5, <1>6, <1>7, <1>8 DEF StatusOK, CutoverMeansCompleted, Gates, new

(* Opting out closes every gate, whether or not it keeps Validated.        *)
LEMMA clearMigrationStateOK ==
    ASSUME NEW status, StatusOK(status)
    PROVE  StatusOK(clearMigrationState(status))
<1> DEFINE new == clearMigrationState(status)
           closed == WithConds(status.conds, Gates \cup {"MigrationPreflightReady"}, "False")
           unwarned == WithConds(closed, {"SoftRollbackAvailable"}, "False")
<1>1. status.conds \in CondMaps /\ status.mig \in MigrationStatus
  BY DEF StatusOK, Statuses, CondMaps
<1>2. closed \in CondMaps /\ closed["PraxisCutoverReady"] = "False"
  BY <1>1, WithCondsType DEF Gates, CondTypes
<1>3. unwarned \in CondMaps /\ unwarned["PraxisCutoverReady"] = "False"
  BY <1>2, WithCondsType DEF CondTypes
<1>4. new = [mig   |-> [present |-> TRUE,
                        phase   |-> IF status.mig.phase = "Validated" THEN "Validated"
                                    ELSE "Pending",
                        key     |-> IF status.mig.phase = "Validated" THEN status.mig.key
                                    ELSE NoKey,
                        jobName |-> FALSE,
                        warning |-> status.mig.warning],
             conds |-> IF status.mig.warning THEN closed ELSE unwarned]
  BY DEF clearMigrationState
<1> HIDE DEF new, closed, unwarned
<1>5. new.mig \in MigrationStatus
  BY <1>1, <1>4 DEF MigrationStatus, Phases
<1>6. new.conds \in CondMaps /\ new.conds["PraxisCutoverReady"] = "False"
  BY <1>2, <1>3, <1>4
<1>7. new \in Statuses
  BY <1>4, <1>5, <1>6 DEF Statuses, CondMaps
<1> QED
  BY <1>6, <1>7 DEF StatusOK, CutoverMeansCompleted, new

(* Reporting an honest, owned Job keeps the status honest.                 *)
LEMMA ReportJobOK ==
    ASSUME NEW status, StatusOK(status),
           NEW j, JobOK(j), j.owned, NEW key \in Keys
    PROVE  StatusOK(ReportJob(status, j, key))
<1>1. CASE migrationJobIsCurrent(j, key)
  BY <1>1, observeMigrationJobOK DEF ReportJob, migrationJobIsCurrent, JobOK
<1>2. CASE ~migrationJobIsCurrent(j, key) /\ ~j.deleting /\ j.state = "Complete"
  BY <1>2, observeMigrationJobOK DEF ReportJob, JobOK
<1>3. CASE ~migrationJobIsCurrent(j, key) /\ ~(~j.deleting /\ j.state = "Complete")
  BY <1>3, markMigrationWaitingOK DEF ReportJob
<1> QED
  BY <1>1, <1>2, <1>3
--------------------------------------------------------------------------------
(* Steps that leave a part of the state alone keep that part honest.       *)

(* No Job is an honest Job, and so is the Job the operator creates.        *)
LEMMA NewJobsOK ==
    /\ JobOK(NoJob)
    /\ JobOK(ForeignJob)
    /\ \A key \in Keys : JobOK(NewJob(key)) /\ NewJob(key).owned
BY DEF JobOK, NoJob, ForeignJob, NewJob, Jobs, JobStates

(* A status nobody wrote yet is honest.                                    *)
LEMMA InitialStatusOK == StatusOK(InitialStatus)
<1>1. NoConditions \in CondMaps /\ NoConditions["PraxisCutoverReady"] = "Unset"
  BY DEF NoConditions, CondMaps, CondTypes
<1>2. NoMigrationStatus \in MigrationStatus
  BY DEF NoMigrationStatus, MigrationStatus, Phases
<1> QED
  BY <1>1, <1>2 DEF InitialStatus, StatusOK, Statuses, CondMaps, CutoverMeansCompleted

(* The empty pass, what Reconcile holds between two requests, is well typed.  *)
LEMMA IdlePassType ==
    IdlePass \in [spec: Specs, status: Statuses, key: Keys \cup {NoKey}, job: Jobs]
BY InitialStatusOK, NewJobsOK DEF IdlePass, StatusOK, JobOK, Specs

(* A pass that is over carries an honest status and nothing else.          *)
LEMMA FinishOK ==
    ASSUME NEW status, StatusOK(status), Finish(status), completed' = completed
    PROVE  PassOK' /\ pc' \in {"idle", "resources", "preflight", "key", "getJob", "act", "status"}
<1>1. pass' = [IdlePass EXCEPT !.status = status] /\ pc' = "status"
  BY DEF Finish
<1>2. pass'.status = status /\ pass'.job = NoJob
      /\ pass' \in [spec: Specs, status: Statuses, key: Keys \cup {NoKey}, job: Jobs]
  BY <1>1, IdlePassType DEF StatusOK, IdlePass
<1>3. StatusOK(pass.status)'
  BY <1>2 DEF StatusOK, CutoverMeansCompleted
<1>4. JobOK(pass.job)'
  BY <1>2, NewJobsOK DEF JobOK
<1> QED
  BY <1>1, <1>2, <1>3, <1>4 DEF PassOK

(* A pass that ended, crashed or lost its status write holds nothing.      *)
LEMMA IdleOK ==
    ASSUME pass' = IdlePass, pc' = "idle", completed' = completed
    PROVE  PassOK'
<1>1. StatusOK(pass.status)'
  BY InitialStatusOK DEF IdlePass, StatusOK, CutoverMeansCompleted
<1>2. JobOK(pass.job)'
  BY NewJobsOK DEF JobOK, IdlePass
<1> QED
  BY <1>1, <1>2, IdlePassType DEF PassOK

(* Completions are never forgotten, so what was honest stays honest.       *)
LEMMA StableOK ==
    ASSUME IndInv, completed \subseteq completed'
    PROVE  /\ versions' = versions => VersionsOK'
           /\ pass' = pass /\ pc' = pc => PassOK'
           /\ job' = job => JobOK(job)'
<1>1. versions' = versions => VersionsOK'
  BY DEF IndInv, VersionsOK, StatusOK, CutoverMeansCompleted
<1>2. pass' = pass /\ pc' = pc => PassOK'
  BY DEF IndInv, PassOK, StatusOK, CutoverMeansCompleted, JobOK
<1>3. job' = job => JobOK(job)'
  BY DEF IndInv, JobOK
<1> QED
  BY <1>1, <1>2, <1>3

(* Appending an honest version, or dropping the oldest, keeps all honest.  *)
LEMMA AppendVersionOK ==
    ASSUME VersionsOK, NEW v \in Versions, StatusOK(v.status),
           versions' = Append(versions, v), completed' = completed
    PROVE  VersionsOK'
<1>1. versions' \in Seq(Versions) /\ Len(versions') = Len(versions) + 1
  BY DEF VersionsOK
<1>2. ASSUME NEW i \in 1..Len(versions') PROVE StatusOK(versions'[i].status)
  BY <1>1, <1>2 DEF VersionsOK
<1>3. (\A i \in 1..Len(versions) : StatusOK(versions[i].status))'
  BY <1>2 DEF StatusOK, CutoverMeansCompleted
<1> QED
  BY <1>1, <1>3 DEF VersionsOK

(* The informer's step to the next version of the CR keeps all honest.     *)
LEMMA TailVersionsOK ==
    ASSUME VersionsOK, Len(versions) > 1, versions' = Tail(versions), completed' = completed
    PROVE  VersionsOK'
<1>1. versions' \in Seq(Versions) /\ Len(versions') = Len(versions) - 1
  BY DEF VersionsOK
<1>2. ASSUME NEW i \in 1..Len(versions') PROVE StatusOK(versions'[i].status)
  BY <1>1, <1>2 DEF VersionsOK
<1>3. (\A i \in 1..Len(versions) : StatusOK(versions[i].status))'
  BY <1>2 DEF StatusOK, CutoverMeansCompleted
<1> QED
  BY <1>1, <1>3 DEF VersionsOK

(* The cached and the stored version are honest versions.                  *)
LEMMA StoredOK ==
    ASSUME VersionsOK
    PROVE  /\ Cached \in Versions /\ StatusOK(Cached.status)
           /\ Stored \in Versions /\ StatusOK(Stored.status)
BY DEF VersionsOK, Cached, Stored

--------------------------------------------------------------------------------
(* The invariant holds initially.                                          *)
LEMMA InitOK == Init => IndInv
<1> SUFFICES ASSUME Init PROVE IndInv
  OBVIOUS
<1>1. PICK s \in SpecChoices : /\ versions = <<[spec |-> s, status |-> InitialStatus]>>
                              /\ optedIn = isMigrationRequested(s)
  BY DEF Init
<1>2. [spec |-> s, status |-> InitialStatus] \in Versions
  BY <1>1, SpecAssumption, InitialStatusOK DEF Versions, StatusOK
<1>3. VersionsOK
  BY <1>1, <1>2, InitialStatusOK DEF VersionsOK
<1>4. PassOK
  BY InitialStatusOK, NewJobsOK, IdlePassType DEF Init, PassOK, IdlePass
<1>5. JobOK(job)
  BY NewJobsOK DEF Init
<1>6. optedIn \in BOOLEAN
  BY <1>1 DEF isMigrationRequested
<1>7. inputs \in Inputs
  BY DEF Init, Inputs
<1>8. edits \in 0..(MaxEdits + 1)
  BY BoundAssumption DEF Init
<1>9. owed = 1 /\ pc = "idle" /\ completed = {}
  BY DEF Init
<1>10. WorldOK
  BY <1>6, <1>7, <1>8, <1>9 DEF WorldOK
<1> QED
  BY <1>3, <1>4, <1>5, <1>10 DEF IndInv

(* Every step of the operator, the cluster and the users preserves it.     *)
LEMMA NextOK == IndInv /\ [Next]_vars => IndInv'
<1> SUFFICES ASSUME IndInv, [Next]_vars PROVE IndInv'
  OBVIOUS
<1> USE DEF IndInv
<1>1. CASE Begin
  <2>1. VersionsOK' /\ JobOK(job)'
    BY <1>1, StableOK DEF Begin
  <2>2. Cached \in Versions /\ StatusOK(Cached.status)
    BY StoredOK
  <2>3. PassOK'
    BY <1>1, <2>2, NewJobsOK
       DEF Begin, PassOK, Versions, StatusOK, CutoverMeansCompleted, JobOK
  <2> QED
    BY <1>1, <2>1, <2>3 DEF Begin, WorldOK, world
<1>2. CASE Dispatch
  <2>1. VersionsOK' /\ JobOK(job)'
    BY <1>2, StableOK DEF Dispatch
  <2>2. StatusOK(ensureSoftRollbackWarning(pass.status))
    BY ensureSoftRollbackWarningOK DEF PassOK
  <2>3. PassOK'
    BY <1>2, <2>2 DEF Dispatch, PassOK, StatusOK, CutoverMeansCompleted, JobOK
  <2> QED
    BY <1>2, <2>1, <2>3 DEF Dispatch, WorldOK, world
<1>3. CASE CallFails
  <2>1. VersionsOK' /\ JobOK(job)'
    BY <1>3, StableOK DEF CallFails
  <2>2. PassOK' /\ WorldOK'
    BY <1>3, FinishOK DEF CallFails, PassOK, WorldOK, world
  <2> QED
    BY <2>1, <2>2
<1>4. CASE Preflight
  <2>1. VersionsOK' /\ JobOK(job)'
    BY <1>4, StableOK DEF Preflight
  <2>2. StatusOK(applyPreflightSuccess(pass.status)) /\ StatusOK(applyPreflightFailure(pass.status))
    BY applyPreflightSuccessOK, applyPreflightFailureOK DEF PassOK
  <2>3. CASE pc' = "key" /\ pass' = [pass EXCEPT !.status = applyPreflightSuccess(@)]
    <3>1. PassOK'
      BY <1>4, <2>2, <2>3 DEF Preflight, PassOK, StatusOK, CutoverMeansCompleted, JobOK
    <3> QED
      BY <1>4, <2>1, <2>3, <3>1 DEF Preflight, WorldOK, world
  <2>4. CASE Finish(applyPreflightFailure(pass.status))
    BY <1>4, <2>1, <2>2, <2>4, FinishOK DEF Preflight, WorldOK, world
  <2> QED
    BY <1>4, <2>3, <2>4 DEF Preflight
<1>5. CASE migrationAttemptKey
  <2>1. VersionsOK' /\ JobOK(job)'
    BY <1>5, StableOK DEF migrationAttemptKey
  <2>2. CASE inputs.src # Missing /\ inputs.dst # Missing
    <3>1. <<inputs.src, inputs.dst>> \in Keys
      BY <2>2 DEF WorldOK, Inputs, Keys
    <3>2. PassOK'
      BY <1>5, <2>2, <3>1 DEF migrationAttemptKey, PassOK, StatusOK, CutoverMeansCompleted, JobOK
    <3> QED
      BY <1>5, <2>1, <2>2, <3>2 DEF migrationAttemptKey, WorldOK, world
  <2>3. CASE ~(inputs.src # Missing /\ inputs.dst # Missing)
    BY <1>5, <2>1, <2>3, FinishOK DEF migrationAttemptKey, PassOK, WorldOK, world
  <2> QED
    BY <2>2, <2>3
<1>6. CASE getMigrationJob
  <2>1. VersionsOK' /\ JobOK(job)'
    BY <1>6, StableOK DEF getMigrationJob
  <2>2. PassOK'
    BY <1>6 DEF getMigrationJob, PassOK, StatusOK, CutoverMeansCompleted, JobOK
  <2> QED
    BY <1>6, <2>1, <2>2 DEF getMigrationJob, WorldOK, world
<1>7. ASSUME deleteMigrationJobObject \/ UNCHANGED job, completed' = completed
      PROVE  JobOK(job)'
  <2>1. CASE deleteMigrationJobObject
    BY <1>7, <2>1 DEF deleteMigrationJobObject, JobOK, Jobs
  <2>2. CASE UNCHANGED job
    BY <1>7, <2>2, StableOK
  <2> QED
    BY <1>7, <2>1, <2>2
<1>8. CASE ActNotRequested
  <2> DEFINE cleared == clearMigrationState(warnSoftRollbackOnPraxisDisable(pass.status))
             kept == \/ /\ pass.job.exists /\ ~pass.job.deleting
                        /\ ~assertOwnedMigrationJob(pass.job)
                     \/ ~hasMigrationHistory(pass.status)
  <2>1. completed' = completed /\ VersionsOK' /\ UNCHANGED <<inputs, edits, optedIn, owed>>
    BY <1>8, StableOK DEF ActNotRequested, world
  <2>2. JobOK(job)'
    BY <1>7, <1>8, <2>1 DEF ActNotRequested
  <2>3. StatusOK(warnSoftRollbackOnPraxisDisable(pass.status))
    BY ensureSoftRollbackWarningOK DEF warnSoftRollbackOnPraxisDisable, PassOK
  <2>4. StatusOK(cleared)
    BY <2>3, clearMigrationStateOK
  <2>5. Finish(IF kept THEN pass.status ELSE cleared)
    BY <1>8 DEF ActNotRequested
  <2>6. StatusOK(IF kept THEN pass.status ELSE cleared)
    BY <2>4 DEF PassOK
  <2>7. PassOK' /\ WorldOK'
    BY <2>1, <2>2, <2>5, <2>6, FinishOK DEF WorldOK
  <2> QED
    BY <2>1, <2>2, <2>7
<1>9. CASE ActExistingJob
  <2> DEFINE reported == IF assertOwnedMigrationJob(pass.job)
                         THEN ReportJob(pass.status, pass.job, pass.key) ELSE pass.status
  <2>1. completed' = completed /\ VersionsOK' /\ UNCHANGED <<inputs, edits, optedIn, owed>>
    BY <1>9, StableOK DEF ActExistingJob, world
  <2>2. JobOK(job)'
    BY <1>7, <1>9, <2>1 DEF ActExistingJob
  <2>3. pass.key \in Keys
    BY <1>9 DEF ActExistingJob, PassOK
  <2>4. StatusOK(reported)
    BY <2>3, ReportJobOK DEF PassOK, assertOwnedMigrationJob
  <2>5. Finish(reported)
    BY <1>9 DEF ActExistingJob
  <2>6. PassOK' /\ WorldOK'
    BY <2>1, <2>2, <2>4, <2>5, FinishOK DEF WorldOK
  <2> QED
    BY <2>1, <2>2, <2>6
<1>10. CASE ActNoJob
  <2>1. /\ completed' = completed /\ VersionsOK'
        /\ UNCHANGED <<inputs, edits, optedIn>> /\ owed' \in Int
    BY <1>10, StableOK DEF ActNoJob, world, WorldOK
  <2>2. pass.key \in Keys
    BY <1>10 DEF ActNoJob, PassOK
  <2>3. ASSUME NEW status, StatusOK(status), Finish(status) PROVE PassOK' /\ WorldOK'
    BY <2>1, <2>3, FinishOK DEF WorldOK
  <2>4. CASE migrationAlreadyValidated(pass.status)
    <3>1. job' = job /\ Finish(pass.status)
      BY <1>10, <2>4 DEF ActNoJob
    <3> QED
      BY <2>1, <2>3, <3>1, StableOK DEF PassOK
  <2>5. CASE ~migrationAlreadyValidated(pass.status) /\ ~job.exists
    <3>1. job' = NewJob(pass.key) /\ Finish(ReportJob(pass.status, NewJob(pass.key), pass.key))
      BY <1>10, <2>5 DEF ActNoJob
    <3>2. JobOK(NewJob(pass.key)) /\ NewJob(pass.key).owned
      BY <2>2, NewJobsOK
    <3>3. StatusOK(ReportJob(pass.status, NewJob(pass.key), pass.key))
      BY <2>2, <3>2, ReportJobOK DEF PassOK
    <3>4. JobOK(job)'
      BY <2>1, <3>1, <3>2 DEF JobOK
    <3> QED
      BY <2>1, <2>3, <3>1, <3>3, <3>4
  <2>6. CASE ~migrationAlreadyValidated(pass.status) /\ job.exists
    <3> DEFINE reported == IF assertOwnedMigrationJob(job)
                           THEN ReportJob(pass.status, job, pass.key) ELSE pass.status
    <3>1. job' = job /\ Finish(reported)
      BY <1>10, <2>6 DEF ActNoJob
    <3>2. StatusOK(reported)
      BY <2>2, ReportJobOK DEF PassOK, assertOwnedMigrationJob
    <3> QED
      BY <2>1, <2>3, <3>1, <3>2, StableOK
  <2> QED
    BY <2>4, <2>5, <2>6
<1>11. CASE WriteStatus
  <2>1. Cached \in Versions /\ StatusOK(Cached.status)
    BY StoredOK
  <2>2. [spec |-> Cached.spec, status |-> pass.status] \in Versions
    BY <2>1 DEF Versions, PassOK
  <2>3. VersionsOK'
    BY <1>11, <2>2, AppendVersionOK DEF WriteStatus, PassOK
  <2>4. PassOK' /\ JobOK(job)'
    BY <1>11, IdleOK, StableOK DEF WriteStatus
  <2> QED
    BY <1>11, <2>3, <2>4 DEF WriteStatus, WorldOK, world
<1>12. CASE WriteStatusFails \/ Crash
  <2>1. VersionsOK' /\ JobOK(job)' /\ PassOK'
    BY <1>12, IdleOK, StableOK DEF WriteStatusFails, Crash
  <2> QED
    BY <1>12, <2>1 DEF WriteStatusFails, Crash, WorldOK, world
<1>13. CASE SyncCache
  <2>1. VersionsOK' /\ PassOK' /\ JobOK(job)'
    BY <1>13, TailVersionsOK, StableOK DEF SyncCache
  <2> QED
    BY <1>13, <2>1 DEF SyncCache, WorldOK, world
<1>14. CASE JobStarts
  <2>1. VersionsOK' /\ PassOK'
    BY <1>14, StableOK DEF JobStarts
  <2>2. JobOK(job)'
    BY <1>14 DEF JobStarts, JobOK, Jobs, JobStates
  <2> QED
    BY <1>14, <2>1, <2>2 DEF JobStarts, WorldOK, world
<1>15. CASE JobFinishes
  <2>1. PICK s \in {"Complete", "Failed"} :
            /\ job' = [job EXCEPT !.state = s]
            /\ completed' = IF s = "Complete" /\ job.owned
                            THEN completed \cup {job.key} ELSE completed
    BY <1>15 DEF JobFinishes
  <2>2. completed \subseteq completed' /\ completed' \subseteq Keys
    BY <2>1 DEF JobOK, WorldOK
  <2>3. VersionsOK' /\ PassOK'
    BY <1>15, <2>2, StableOK DEF JobFinishes
  <2>4. JobOK(job)'
    BY <2>1, <2>2 DEF JobOK, Jobs, JobStates
  <2> QED
    BY <1>15, <2>2, <2>3, <2>4 DEF JobFinishes, WorldOK, world
<1>16. CASE JobRemoved
  <2>1. VersionsOK' /\ PassOK'
    BY <1>16, StableOK DEF JobRemoved
  <2>2. JobOK(job)'
    BY <1>16, NewJobsOK DEF JobRemoved, JobOK
  <2> QED
    BY <1>16, <2>1, <2>2 DEF JobRemoved, WorldOK, world
<1>17. CASE UserEditsSpec
  <2>1. PICK s \in SpecChoices : /\ versions' = Append(versions, [Stored EXCEPT !.spec = s])
                                /\ optedIn' = (optedIn \/ isMigrationRequested(s))
    BY <1>17 DEF UserEditsSpec
  <2>2. Stored \in Versions /\ StatusOK(Stored.status)
    BY StoredOK
  <2>3. [Stored EXCEPT !.spec = s] \in Versions /\ [Stored EXCEPT !.spec = s].status = Stored.status
    BY <2>2, SpecAssumption DEF Versions
  <2>4. VersionsOK'
    BY <1>17, <2>1, <2>2, <2>3, AppendVersionOK DEF UserEditsSpec
  <2>5. PassOK' /\ JobOK(job)'
    BY <1>17, StableOK DEF UserEditsSpec
  <2>6. optedIn' \in BOOLEAN
    BY <2>1
  <2> QED
    BY <1>17, <2>4, <2>5, <2>6, BoundAssumption DEF UserEditsSpec, UserStep, WorldOK
<1>18. CASE UserEditsSecrets \/ CalmDown
  <2>1. VersionsOK' /\ PassOK' /\ JobOK(job)'
    BY <1>18, StableOK DEF UserEditsSecrets, CalmDown, history
  <2> QED
    BY <1>18, <2>1, BoundAssumption DEF UserEditsSecrets, CalmDown, UserStep, WorldOK, history
<1>19. CASE UserDeletesJob \/ UserCreatesForeignJob
  <2>1. VersionsOK' /\ PassOK'
    BY <1>19, StableOK DEF UserDeletesJob, UserCreatesForeignJob, history
  <2>2. JobOK(job)'
    BY <1>19, NewJobsOK DEF UserDeletesJob, UserCreatesForeignJob, history, JobOK
  <2> QED
    BY <1>19, <2>1, <2>2, BoundAssumption
       DEF UserDeletesJob, UserCreatesForeignJob, UserStep, WorldOK, history
<1>20. CASE UNCHANGED vars
  <2>1. VersionsOK' /\ PassOK' /\ JobOK(job)'
    BY <1>20, StableOK DEF vars
  <2> QED
    BY <1>20, <2>1 DEF vars, WorldOK
<1> QED
  BY <1>1, <1>2, <1>3, <1>4, <1>5, <1>6, <1>8, <1>9, <1>10, <1>11, <1>12, <1>13, <1>14,
     <1>15, <1>16, <1>17, <1>18, <1>19, <1>20
     DEF Next, Operator, Act, Cluster, Users
--------------------------------------------------------------------------------
(* The honest states are well typed and their cutover gate means what it says. *)
LEMMA IndInvImplies == IndInv => TypeOK /\ CutoverImpliesCompleted
<1> SUFFICES ASSUME IndInv PROVE TypeOK /\ CutoverImpliesCompleted
  OBVIOUS
<1>1. TypeOK
  BY DEF IndInv, TypeOK, VersionsOK, PassOK, WorldOK, JobOK
<1>2. CutoverImpliesCompleted
  BY StoredOK DEF IndInv, CutoverImpliesCompleted, StatusOK
<1> QED
  BY <1>1, <1>2

(* The inductive invariant holds in every reachable state of the migration. *)
LEMMA IndInvInvariant == Spec => []IndInv
BY InitOK, NextOK, PTL DEF Spec

(* Every reachable state of the migration is well typed.                   *)
THEOREM TypeCorrect == Spec => []TypeOK
BY IndInvInvariant, IndInvImplies, PTL

(* PraxisCutoverReady=True is only ever stored together with phase         *)
(* Validated for an attempt whose Job completed, whatever the cache lags,  *)
(* the operator crashes or the users do.                                   *)
THEOREM CutoverSafe == Spec => []CutoverImpliesCompleted
BY IndInvInvariant, IndInvImplies, PTL

--------------------------------------------------------------------------------
(* Only a Job that finishes adds a completed attempt, one at a time, and   *)
(* it leaves the CR alone.                                                 *)
LEMMA CompletionSteps ==
    ASSUME IndInv, [Next]_vars
    PROVE  \/ completed' = completed
           \/ /\ \E k \in Keys \ completed : completed' = completed \cup {k}
              /\ versions' = versions
<1>1. CASE JobFinishes
  BY <1>1 DEF JobFinishes, IndInv, JobOK
<1>2. CASE Operator
  BY <1>2 DEF Operator, Act, Begin, Dispatch, CallFails, Preflight, migrationAttemptKey,
       getMigrationJob, ActNotRequested, ActExistingJob, ActNoJob, WriteStatus,
       WriteStatusFails, Crash
<1>3. CASE Cluster /\ ~JobFinishes
  BY <1>3 DEF Cluster, SyncCache, JobStarts, JobRemoved
<1>4. CASE Users
  BY <1>4 DEF Users, UserEditsSpec, UserEditsSecrets, UserDeletesJob, UserCreatesForeignJob,
       CalmDown, history
<1>5. CASE UNCHANGED vars
  BY <1>5 DEF vars
<1> QED
  BY <1>1, <1>2, <1>3, <1>4, <1>5 DEF Next

(* The migration implements MigrationGate: watched from outside, the gate  *)
(* stands open for an attempt only after that attempt's Job completed.     *)
THEOREM ImplementsGate == Spec => GateRefinement
<1> DEFINE gate == IF Stored.status.conds["PraxisCutoverReady"] = "True"
                   THEN Stored.status.mig.key ELSE NoKey
<1>1. Init => Gate!Init
  BY DEF Init, Gate!Init, Stored, InitialStatus, NoConditions, CondTypes
<1>2. IndInv /\ IndInv' /\ [Next]_vars => [Gate!Next]_(Gate!vars)
  <2> SUFFICES ASSUME IndInv, IndInv', [Next]_vars PROVE [Gate!Next]_(Gate!vars)
    OBVIOUS
  <2>1. CutoverImpliesCompleted'
    BY IndInvImplies, PTL
  <2>2. gate' \in completed' \cup {NoKey}
    BY <2>1 DEF CutoverImpliesCompleted, CutoverMeansCompleted
  <2>3. CASE completed' = completed
    BY <2>2, <2>3 DEF Gate!Next, Gate!Open, Gate!Close
  <2>4. CASE /\ \E k \in Keys \ completed : completed' = completed \cup {k}
             /\ versions' = versions
    <3>1. gate' = gate
      BY <2>4 DEF Stored
    <3> QED
      BY <2>4, <3>1 DEF Gate!Next, Gate!Complete
  <2> QED
    BY <2>3, <2>4, CompletionSteps
<1> QED
  BY <1>1, <1>2, IndInvInvariant, PTL DEF Spec, Gate!Spec, GateRefinement
--------------------------------------------------------------------------------
(* A CR that never opted in.  What makes the property inductive is that    *)
(* every copy a request could come from, the versions the cache has still  *)
(* to deliver and the one the running pass works on, records it in optedIn. *)

Untouched(status) == ~optedIn => status = InitialStatus

OptInOK ==
    /\ \A i \in 1..Len(versions) : /\ isMigrationRequested(versions[i].spec) => optedIn
                                   /\ Untouched(versions[i].status)
    /\ isMigrationRequested(pass.spec) => optedIn
    /\ pc \in {"preflight", "key"} => optedIn
    /\ Untouched(pass.status)
    /\ job.owned => optedIn

(* A status nobody wrote records no migration to clear.                    *)
LEMMA InitialStatusHasNoHistory == ~hasMigrationHistory(InitialStatus)
BY DEF hasMigrationHistory, InitialStatus, NoMigrationStatus, NoConditions

(* The empty pass and the Jobs the operator did not create ask for nothing. *)
LEMMA NothingRequested ==
    /\ ~isMigrationRequested(IdlePass.spec)
    /\ IdlePass.status = InitialStatus
    /\ ~NoJob.owned /\ ~ForeignJob.owned
BY DEF IdlePass, isMigrationRequested, NoJob, ForeignJob

(* The end of reconcileMigration keeps what holds if its status does.      *)
LEMMA FinishOptIn ==
    ASSUME OptInOK, NEW status, Untouched(status), Finish(status),
           UNCHANGED <<versions, optedIn>>, job'.owned => optedIn
    PROVE  OptInOK'
<1>1. pass' = [IdlePass EXCEPT !.status = status] /\ pc' = "status"
  BY DEF Finish
<1>2. pass'.status = status /\ pass'.spec = IdlePass.spec
  BY <1>1 DEF IdlePass
<1> QED
  BY <1>1, <1>2, NothingRequested DEF OptInOK, Untouched, isMigrationRequested

(* The invariant holds initially.                                          *)
LEMMA InitOptIn == Init => OptInOK
<1> SUFFICES ASSUME Init PROVE OptInOK
  OBVIOUS
<1>1. PICK s \in SpecChoices : /\ versions = <<[spec |-> s, status |-> InitialStatus]>>
                              /\ optedIn = isMigrationRequested(s)
  BY DEF Init
<1>2. \A i \in 1..Len(versions) : versions[i].spec = s /\ versions[i].status = InitialStatus
  BY <1>1
<1>3. pc = "idle" /\ pass = IdlePass /\ job \in {NoJob, ForeignJob}
  BY DEF Init
<1> QED
  BY <1>1, <1>2, <1>3, NothingRequested DEF OptInOK, Untouched

(* Every step preserves it.                                                *)
LEMMA NextOptIn == IndInv /\ OptInOK /\ [Next]_vars => OptInOK'
<1> SUFFICES ASSUME IndInv, OptInOK, [Next]_vars PROVE OptInOK'
  OBVIOUS
<1>1. CASE Begin
  <2>1. 1 \in 1..Len(versions) /\ Cached = versions[1]
    BY DEF IndInv, VersionsOK, Cached
  <2>2. pass'.spec = Cached.spec /\ pass'.status = Cached.status /\ pc' = "resources"
    BY <1>1 DEF Begin
  <2> QED
    BY <1>1, <2>1, <2>2 DEF Begin, OptInOK, Untouched, isMigrationRequested, world
<1>2. CASE Dispatch
  BY <1>2 DEF Dispatch, IndInv, PassOK, OptInOK, Untouched, isMigrationRequested, world
<1>3. CASE CallFails
  BY <1>3, FinishOptIn DEF CallFails, OptInOK, world
<1>4. CASE Preflight
  <2>1. optedIn /\ UNCHANGED <<versions, optedIn, job>>
    BY <1>4 DEF Preflight, OptInOK, world
  <2> QED
    BY <2>1 DEF OptInOK, Untouched
<1>5. CASE migrationAttemptKey
  <2>1. optedIn /\ UNCHANGED <<versions, optedIn, job>>
    BY <1>5 DEF migrationAttemptKey, OptInOK, world
  <2> QED
    BY <2>1 DEF OptInOK, Untouched
<1>6. CASE getMigrationJob
  BY <1>6 DEF getMigrationJob, IndInv, PassOK, OptInOK, Untouched, isMigrationRequested, world
<1>7. CASE ActNotRequested
  <2>1. UNCHANGED <<versions, optedIn>>
    BY <1>7 DEF ActNotRequested, world
  <2>2. job'.owned => optedIn
    BY <1>7 DEF ActNotRequested, deleteMigrationJobObject, OptInOK, IndInv, JobOK, Jobs
  <2>3. CASE optedIn
    BY <2>1, <2>3 DEF OptInOK, Untouched
  <2>4. CASE ~optedIn
    <3>1. pass.status = InitialStatus
      BY <2>4 DEF OptInOK, Untouched
    <3>2. Finish(pass.status)
      BY <1>7, <3>1, InitialStatusHasNoHistory DEF ActNotRequested
    <3> QED
      BY <2>1, <2>2, <3>2, FinishOptIn DEF OptInOK
  <2> QED
    BY <2>3, <2>4
<1>8. CASE ActExistingJob \/ ActNoJob
  <2>1. optedIn /\ UNCHANGED <<versions, optedIn>>
    BY <1>8 DEF ActExistingJob, ActNoJob, OptInOK, world
  <2> QED
    BY <2>1 DEF OptInOK, Untouched
<1>9. CASE WriteStatus
  <2> DEFINE v == [spec |-> Cached.spec, status |-> pass.status]
  <2>1. /\ versions' = Append(versions, v) /\ pass' = IdlePass /\ pc' = "idle"
        /\ UNCHANGED <<job, optedIn>> /\ versions \in Seq(Versions)
    BY <1>9 DEF WriteStatus, world, IndInv, VersionsOK
  <2>2. 1 \in 1..Len(versions) /\ Cached = versions[1]
    BY DEF IndInv, VersionsOK, Cached
  <2>3. v.spec = Cached.spec /\ v.status = pass.status /\ v \in Versions
    BY StoredOK DEF IndInv, PassOK, Versions
  <2> HIDE DEF v
  <2>4. \A i \in 1..Len(versions') :
          versions'[i] = v \/ (i \in 1..Len(versions) /\ versions'[i] = versions[i])
    BY <2>1, <2>3
  <2> QED
    BY <2>1, <2>2, <2>3, <2>4, NothingRequested DEF OptInOK, Untouched, isMigrationRequested
<1>10. CASE WriteStatusFails \/ Crash
  BY <1>10, NothingRequested DEF WriteStatusFails, Crash, OptInOK, Untouched, world
<1>11. CASE SyncCache
  <2>1. /\ versions' = Tail(versions) /\ versions \in Seq(Versions) /\ Len(versions) > 1
        /\ UNCHANGED <<job, pc, pass, optedIn>>
    BY <1>11 DEF SyncCache, world, IndInv, VersionsOK
  <2>2. \A i \in 1..Len(versions') : i + 1 \in 1..Len(versions)
                                    /\ versions'[i] = versions[i + 1]
    BY <2>1
  <2> QED
    BY <2>1, <2>2 DEF OptInOK, Untouched, isMigrationRequested
<1>12. CASE \/ JobStarts \/ JobFinishes \/ JobRemoved
            \/ UserEditsSecrets \/ UserDeletesJob \/ UserCreatesForeignJob \/ CalmDown
            \/ UNCHANGED vars
  <2>1. UNCHANGED <<versions, pc, pass, optedIn>>
    BY <1>12 DEF JobStarts, JobFinishes, JobRemoved, UserEditsSecrets,
         UserDeletesJob, UserCreatesForeignJob, CalmDown, vars, world, history
  <2>2. job'.owned => job.owned
    <3>1. CASE JobStarts \/ JobFinishes
      BY <3>1 DEF JobStarts, JobFinishes, IndInv, JobOK, Jobs
    <3>2. CASE job' \in {NoJob, ForeignJob, job}
      BY <3>2, NothingRequested
    <3> QED
      BY <1>12, <3>1, <3>2
         DEF JobRemoved, UserEditsSecrets, UserDeletesJob,
             UserCreatesForeignJob, CalmDown, vars
  <2> QED
    BY <2>1, <2>2 DEF OptInOK, Untouched, isMigrationRequested
<1>13. CASE UserEditsSpec
  <2>1. PICK s \in SpecChoices : /\ versions' = Append(versions, [Stored EXCEPT !.spec = s])
                                /\ optedIn' = (optedIn \/ isMigrationRequested(s))
    BY <1>13 DEF UserEditsSpec
  <2>2. Stored \in Versions /\ versions \in Seq(Versions)
        /\ Len(versions) \in 1..Len(versions) /\ Stored = versions[Len(versions)]
    BY StoredOK DEF IndInv, VersionsOK, Stored
  <2> DEFINE v == [Stored EXCEPT !.spec = s]
  <2>3. v.spec = s /\ v.status = Stored.status /\ v \in Versions
    BY <2>2, SpecAssumption DEF Versions
  <2> HIDE DEF v
  <2>4. versions' = Append(versions, v)
    BY <2>1 DEF v
  <2>5. \A i \in 1..Len(versions') :
          versions'[i] = v \/ (i \in 1..Len(versions) /\ versions'[i] = versions[i])
    BY <2>2, <2>3, <2>4
  <2>6. UNCHANGED <<job, pc, pass>>
    BY <1>13 DEF UserEditsSpec
  <2>7. (optedIn => optedIn') /\ (isMigrationRequested(s) => optedIn')
    BY <2>1
  <2>8. (\A i \in 1..Len(versions) : /\ isMigrationRequested(versions[i].spec) => optedIn
                                     /\ Untouched(versions[i].status))'
    BY <2>2, <2>3, <2>5, <2>7 DEF OptInOK, Untouched, isMigrationRequested
  <2> QED
    BY <2>6, <2>7, <2>8 DEF OptInOK, Untouched, isMigrationRequested
<1> QED
  BY <1>1, <1>2, <1>3, <1>4, <1>5, <1>6, <1>7, <1>8, <1>9, <1>10, <1>11, <1>12, <1>13
     DEF Next, Operator, Act, Cluster, Users

(* A CR whose spec never asked for the migration gets no status.migration, *)
(* no migration condition and no Job from handleMigrationNotRequested,     *)
(* whatever the cache lags and whoever puts a Job of that name there.      *)
THEOREM NeverOptedInSafe == Spec => []NeverOptedInUntouched
<1>1. IndInv /\ OptInOK => NeverOptedInUntouched
  BY DEF IndInv, VersionsOK, OptInOK, Untouched, NeverOptedInUntouched, Stored
<1> QED
  BY <1>1, InitOptIn, NextOptIn, IndInvInvariant, PTL DEF Spec
--------------------------------------------------------------------------------
(* Attempts are not duplicated.  The invariant counts the Jobs the operator*)
(* may still come to create if users do nothing more (Need), and the       *)
(* opt-outs that are stored but not yet seen by a pass, each of which will *)
(* cost a Job; what is owed always covers them.                            *)

Reconciling == pc \in {"resources", "preflight", "key", "getJob", "act"}
ActingSpec == IF Reconciling THEN pass.spec ELSE Cached.spec
CurrentKey == <<inputs.src, inputs.dst>>

(* Opt-outs the cache has still to deliver, and one the pass has missed.   *)
OptOut(s, t) == isMigrationRequested(s) /\ ~isMigrationRequested(t)
OptOuts(vs) == {i \in 1..(Len(vs) - 1) : OptOut(vs[i].spec, vs[i + 1].spec)}
MissedOptOut == IF OptOut(ActingSpec, Cached.spec) THEN 1 ELSE 0

(* The Job stays unless a user does something more.                        *)
Settled ==
    /\ isMigrationRequested(ActingSpec)
    /\ job.exists /\ job.owned /\ ~job.deleting
    /\ job.key = CurrentKey \/ job.state = "Complete"
    /\ pc = "getJob" => pass.key = CurrentKey
    /\ pc = "act" => /\ pass.job.exists
                     /\ pass.job.owned => ~StaleJob(pass.job, pass.key)

(* The pass may still create a Job for inputs that have changed since, and *)
(* a later pass replace it.                                                *)
Outdated ==
    /\ isMigrationRequested(pass.spec)
    /\ pass.key # CurrentKey
    /\ ~job.exists \/ job.deleting
    /\ \/ pc = "getJob"
       \/ pc = "act" /\ ~pass.job.exists

Need == IF Settled THEN 0 ELSE IF Outdated THEN 2 ELSE 1
Demand == Need + MissedOptOut
OwedOK == owed >= Demand + Cardinality(OptOuts(versions))

(* There are finitely many versions, and opt-outs among them.              *)
LEMMA OptOutsFinite ==
    ASSUME NEW vs \in Seq(Versions)
    PROVE  IsFiniteSet(OptOuts(vs)) /\ Cardinality(OptOuts(vs)) \in Nat
<1>1. Len(vs) \in Nat /\ OptOuts(vs) \in SUBSET (1..(Len(vs) - 1))
  BY DEF OptOuts
<1>2. IsFiniteSet(1..(Len(vs) - 1))
  BY <1>1, FS_Interval
<1> QED
  BY <1>1, <1>2, FS_Subset, FS_CardinalityType

(* Storing a version adds an opt-out if it is one.                         *)
LEMMA OptOutsAppend ==
    ASSUME NEW vs \in Seq(Versions), Len(vs) > 0, NEW v \in Versions
    PROVE  Cardinality(OptOuts(Append(vs, v)))
             = IF OptOut(vs[Len(vs)].spec, v.spec) THEN Cardinality(OptOuts(vs)) + 1
               ELSE Cardinality(OptOuts(vs))
<1> DEFINE ws == Append(vs, v)
           n == Len(vs)
<1>1. n \in Nat \ {0} /\ ws \in Seq(Versions) /\ Len(ws) = n + 1
      /\ ws[n + 1] = v /\ \A i \in 1..n : ws[i] = vs[i]
  OBVIOUS
<1>2. OptOuts(vs) = {i \in 1..(n - 1) : OptOut(vs[i].spec, vs[i + 1].spec)}
      /\ OptOuts(ws) = {i \in 1..n : OptOut(ws[i].spec, ws[i + 1].spec)}
  BY <1>1 DEF OptOuts
<1> HIDE DEF ws, n
<1>3. n \notin OptOuts(vs)
  BY <1>1, <1>2
<1>4. CASE OptOut(vs[n].spec, v.spec)
  <2>1. OptOuts(ws) = OptOuts(vs) \cup {n}
    BY <1>1, <1>2, <1>4
  <2> QED
    BY <1>3, <1>4, <2>1, OptOutsFinite, FS_AddElement DEF n, ws
<1>5. CASE ~OptOut(vs[n].spec, v.spec)
  <2>1. OptOuts(ws) = OptOuts(vs)
    BY <1>1, <1>2, <1>5
  <2> QED
    BY <1>5, <2>1 DEF n, ws
<1> QED
  BY <1>4, <1>5 DEF n

(* The informer's step delivers the first one, if it is one.               *)
LEMMA OptOutsTail ==
    ASSUME NEW vs \in Seq(Versions), Len(vs) > 1
    PROVE  Cardinality(OptOuts(Tail(vs)))
             <= IF OptOut(vs[1].spec, vs[2].spec) THEN Cardinality(OptOuts(vs)) - 1
                ELSE Cardinality(OptOuts(vs))
<1> DEFINE ws == Tail(vs)
           n == Len(vs)
           rest == OptOuts(vs) \ {1}
           f == [i \in OptOuts(ws) |-> i + 1]
<1>1. n \in Nat /\ n > 1 /\ ws \in Seq(Versions) /\ Len(ws) = n - 1
      /\ \A i \in 1..(n - 1) : ws[i] = vs[i + 1]
  OBVIOUS
<1>2. OptOuts(vs) = {i \in 1..(n - 1) : OptOut(vs[i].spec, vs[i + 1].spec)}
      /\ OptOuts(ws) = {i \in 1..(n - 2) : OptOut(ws[i].spec, ws[i + 1].spec)}
  BY <1>1 DEF OptOuts
<1> HIDE DEF ws, n
<1>3. ASSUME NEW i \in OptOuts(ws) PROVE i + 1 \in rest /\ i \in Nat
  <2>1. i \in 1..(n - 2) /\ OptOut(ws[i].spec, ws[i + 1].spec)
    BY <1>2
  <2>2. i + 1 \in 1..(n - 1) /\ ws[i] = vs[i + 1] /\ ws[i + 1] = vs[i + 1 + 1]
    BY <1>1, <2>1
  <2> QED
    BY <1>2, <2>1, <2>2
<1>4. f \in Injection(OptOuts(ws), rest)
  <2>1. f \in [OptOuts(ws) -> rest]
    BY <1>3
  <2>2. \A i, k \in DOMAIN f : f[i] = f[k] => i = k
    BY <1>3
  <2> QED
    BY <2>1, <2>2 DEF Injection, IsInjective
<1>5. IsFiniteSet(rest)
      /\ Cardinality(rest) = IF 1 \in OptOuts(vs) THEN Cardinality(OptOuts(vs)) - 1
                             ELSE Cardinality(OptOuts(vs))
  BY OptOutsFinite, FS_RemoveElement
<1>6. Cardinality(OptOuts(ws)) <= Cardinality(rest)
  BY <1>4, <1>5, FS_Injection
<1>7. 1 \in OptOuts(vs) <=> OptOut(vs[1].spec, vs[2].spec)
  BY <1>1, <1>2
<1> QED
  BY <1>5, <1>6, <1>7 DEF ws

(* A step that leaves the versions alone keeps what is owed enough if it   *)
(* raises the demand by no more than it adds.                              *)
LEMMA DemandStep ==
    ASSUME IndInv, OwedOK, versions' = versions, NEW d \in Int,
           owed' = owed + d, Demand' <= Demand + d
    PROVE  OwedOK'
<1>1. Cardinality(OptOuts(versions)) \in Nat /\ owed \in Int
  BY OptOutsFinite DEF IndInv, VersionsOK, WorldOK
<1>2. Demand \in Nat /\ Demand' \in Nat
  BY DEF Demand, Need, MissedOptOut
<1>3. OptOuts(versions)' = OptOuts(versions)
  BY DEF OptOuts
<1> QED
  BY <1>1, <1>2, <1>3 DEF OwedOK

(* The end of a pass, however it ends, demands no more Jobs.               *)
LEMMA PassEnds ==
    ASSUME pc' \in {"status", "idle"}, UNCHANGED <<versions, inputs, job>>
    PROVE  Demand' <= Demand
<1>1. ActingSpec' = Cached.spec /\ Cached' = Cached /\ CurrentKey' = CurrentKey
  BY DEF ActingSpec, Reconciling, Cached, CurrentKey
<1>2. MissedOptOut' = 0 /\ ~Outdated'
  BY <1>1 DEF MissedOptOut, OptOut, Outdated
<1>3. Settled' <=>
          /\ isMigrationRequested(Cached.spec)
          /\ job.exists /\ job.owned /\ ~job.deleting
          /\ job.key = CurrentKey \/ job.state = "Complete"
  BY <1>1 DEF Settled, isMigrationRequested
<1>4. Settled /\ ~Settled' => MissedOptOut = 1
  BY <1>3 DEF Settled, MissedOptOut, OptOut
<1> QED
  BY <1>2, <1>4 DEF Demand, Need, MissedOptOut

(* Initially the first Job is owed and nothing else.                       *)
LEMMA InitOwed == Init => OwedOK
<1> SUFFICES ASSUME Init PROVE OwedOK
  OBVIOUS
<1>1. versions \in Seq(Versions) /\ Len(versions) = 1
  BY InitOK DEF Init, IndInv, VersionsOK
<1>2. OptOuts(versions) = {}
  BY <1>1 DEF OptOuts
<1>3. pc = "idle" /\ owed = 1
  BY DEF Init
<1>4. MissedOptOut = 0 /\ ~Outdated
  BY <1>3 DEF MissedOptOut, OptOut, ActingSpec, Reconciling, Outdated
<1> QED
  BY <1>2, <1>3, <1>4, FS_EmptySet DEF OwedOK, Demand, Need

(* Every step preserves it.                                                *)
LEMMA NextOwed == IndInv /\ OwedOK /\ [Next]_vars => OwedOK'
<1> SUFFICES ASSUME IndInv, OwedOK, [Next]_vars PROVE OwedOK'
  OBVIOUS
<1>1. ASSUME UNCHANGED <<versions, owed>>, Demand' <= Demand PROVE OwedOK'
  <2>1. owed' = owed + 0 /\ Demand' <= Demand + 0
    BY <1>1 DEF IndInv, WorldOK, Demand, Need, MissedOptOut
  <2> QED
    BY <1>1, <2>1, DemandStep
<1>2. CASE Begin
  <2>1. /\ pc = "idle" /\ pc' = "resources" /\ pass'.spec = Cached.spec
        /\ UNCHANGED <<versions, inputs, job, owed>>
    BY <1>2 DEF Begin, world
  <2>2. ActingSpec = Cached.spec /\ ActingSpec' = Cached.spec /\ Cached' = Cached
        /\ CurrentKey' = CurrentKey
    BY <2>1 DEF ActingSpec, Reconciling, Cached, CurrentKey
  <2>3. (Settled <=> Settled') /\ ~Outdated' /\ MissedOptOut' = MissedOptOut
    BY <2>1, <2>2 DEF Settled, Outdated, MissedOptOut, OptOut, isMigrationRequested
  <2>4. Demand' <= Demand
    BY <2>3 DEF Demand, Need, MissedOptOut
  <2> QED
    BY <1>1, <2>1, <2>4
<1>3. CASE Dispatch \/ (Preflight /\ pc' = "key") \/ (migrationAttemptKey /\ pc' = "getJob")
          \/ getMigrationJob
  <2>1. /\ Reconciling /\ Reconciling' /\ pass'.spec = pass.spec
        /\ UNCHANGED <<versions, inputs, job, owed>>
    BY <1>3 DEF Dispatch, Preflight, migrationAttemptKey, getMigrationJob, Finish, world,
         Reconciling, IndInv, PassOK
  <2>2. ActingSpec = pass.spec /\ ActingSpec' = pass.spec /\ Cached' = Cached
        /\ CurrentKey' = CurrentKey
    BY <2>1 DEF ActingSpec, Cached, CurrentKey
  <2>3. MissedOptOut' = MissedOptOut
    BY <2>2 DEF MissedOptOut, OptOut, isMigrationRequested
  <2>4. Settled => Settled'
    <3>1. CASE Dispatch \/ (Preflight /\ pc' = "key")
      BY <2>1, <2>2, <3>1 DEF Dispatch, Preflight, Settled, isMigrationRequested
    <3>2. CASE migrationAttemptKey /\ pc' = "getJob"
      BY <2>1, <2>2, <3>2
         DEF migrationAttemptKey, Finish, Settled, isMigrationRequested, CurrentKey, IndInv, PassOK
    <3>3. CASE getMigrationJob
      BY <2>1, <2>2, <3>3
         DEF getMigrationJob, Settled, StaleJob, isMigrationRequested, IndInv, PassOK
    <3> QED
      BY <1>3, <3>1, <3>2, <3>3
  <2>5. Outdated' => Outdated
    <3>1. CASE Dispatch \/ (Preflight /\ pc' = "key")
      BY <2>1, <2>2, <3>1 DEF Dispatch, Preflight, Outdated, isMigrationRequested
    <3>2. CASE migrationAttemptKey /\ pc' = "getJob"
      BY <2>1, <2>2, <3>2
         DEF migrationAttemptKey, Finish, Outdated, CurrentKey, IndInv, PassOK
    <3>3. CASE getMigrationJob
      BY <2>1, <2>2, <3>3 DEF getMigrationJob, Outdated, isMigrationRequested, IndInv, PassOK
    <3> QED
      BY <1>3, <3>1, <3>2, <3>3
  <2>6. Demand' <= Demand
    BY <2>3, <2>4, <2>5 DEF Demand, Need, MissedOptOut
  <2> QED
    BY <1>1, <2>1, <2>6
<1>4. CASE \/ CallFails \/ WriteStatusFails \/ Crash
           \/ (Preflight /\ pc' # "key") \/ (migrationAttemptKey /\ pc' # "getJob")
  <2>1. pc' \in {"status", "idle"} /\ UNCHANGED <<versions, inputs, job, owed>>
    BY <1>4 DEF CallFails, WriteStatusFails, Crash, Preflight, migrationAttemptKey, Finish, world
  <2> QED
    BY <1>1, <2>1, PassEnds
<1>5. CASE ActNotRequested
  <2>1. /\ Reconciling /\ ~isMigrationRequested(pass.spec) /\ pc' = "status"
        /\ UNCHANGED <<versions, owed>>
    BY <1>5 DEF ActNotRequested, Finish, Reconciling
  <2>2. ~Settled /\ ~Outdated
    BY <2>1 DEF Settled, Outdated, ActingSpec
  <2>3. ~Outdated' /\ MissedOptOut' = 0
    BY <2>1 DEF Outdated, MissedOptOut, OptOut, ActingSpec, Reconciling
  <2>4. Demand' <= Demand
    BY <2>2, <2>3 DEF Demand, Need, MissedOptOut
  <2> QED
    BY <1>1, <2>1, <2>4
<1>6. CASE ActExistingJob
  <2>1. /\ pc = "act" /\ pass.job.exists /\ pc' = "status" /\ UNCHANGED <<versions, inputs, owed>>
    BY <1>6 DEF ActExistingJob, Finish, world
  <2>2. CASE assertOwnedMigrationJob(pass.job) /\ StaleJob(pass.job, pass.key)
    <3>1. ~Settled /\ ~Outdated
      BY <2>1, <2>2 DEF Settled, Outdated, assertOwnedMigrationJob
    <3>2. ~Outdated' /\ MissedOptOut' = 0
      BY <2>1 DEF Outdated, MissedOptOut, OptOut, ActingSpec, Reconciling
    <3>3. Demand' <= Demand
      BY <3>1, <3>2 DEF Demand, Need, MissedOptOut
    <3> QED
      BY <1>1, <2>1, <3>3
  <2>3. CASE ~(assertOwnedMigrationJob(pass.job) /\ StaleJob(pass.job, pass.key))
    <3>1. UNCHANGED job
      BY <1>6, <2>3 DEF ActExistingJob
    <3> QED
      BY <1>1, <2>1, <3>1, PassEnds
  <2> QED
    BY <2>2, <2>3
<1>7. CASE ActNoJob
  <2>1. /\ pc = "act" /\ isMigrationRequested(pass.spec) /\ ~pass.job.exists
        /\ pc' = "status" /\ UNCHANGED <<versions, inputs>>
    BY <1>7 DEF ActNoJob, Finish, world
  <2>2. CASE UNCHANGED <<job, owed>>
    BY <1>1, <2>1, <2>2, PassEnds
  <2>3. CASE ~job.exists /\ job' = NewJob(pass.key) /\ owed' = owed - 1
    <3>1. ActingSpec = pass.spec /\ ActingSpec' = Cached.spec /\ Cached' = Cached
          /\ CurrentKey' = CurrentKey
      BY <2>1 DEF ActingSpec, Reconciling, Cached, CurrentKey
    <3>2. ~Settled /\ (Outdated <=> pass.key # CurrentKey)
      BY <2>1, <2>3 DEF Settled, Outdated
    <3>3. ~Outdated' /\ MissedOptOut' = 0
      BY <2>1, <3>1 DEF Outdated, MissedOptOut, OptOut
    <3>4. isMigrationRequested(Cached.spec) /\ pass.key = CurrentKey => Settled'
      BY <2>1, <2>3, <3>1 DEF Settled, NewJob, isMigrationRequested
    <3>5. ~isMigrationRequested(Cached.spec) => MissedOptOut = 1
      BY <2>1, <3>1 DEF MissedOptOut, OptOut
    <3>6. Demand' <= Demand + (-1)
      BY <3>2, <3>3, <3>4, <3>5 DEF Demand, Need, MissedOptOut
    <3>7. owed' = owed + (-1)
      BY <2>3 DEF IndInv, WorldOK
    <3> QED
      BY <2>1, <3>6, <3>7, DemandStep
  <2> QED
    BY <1>7, <2>2, <2>3 DEF ActNoJob
<1>8. CASE WriteStatus \/ UserEditsSpec
  <2>1. versions \in Seq(Versions) /\ Len(versions) > 0 /\ owed \in Int
        /\ Cached \in Versions /\ Stored \in Versions
    BY StoredOK DEF IndInv, VersionsOK, WorldOK
  <2>2. PICK v \in Versions :
            /\ versions' = Append(versions, v)
            /\ owed' = IF OptOut(Stored.spec, v.spec) THEN owed + 1 ELSE owed
            /\ UNCHANGED <<inputs, job>>
            /\ (pc' = pc /\ pass' = pass) \/ (pc = "status" /\ pc' = "idle")
    <3>1. CASE WriteStatus
      <4> DEFINE v == [spec |-> Cached.spec, status |-> pass.status]
      <4>1. v \in Versions /\ v.spec = Cached.spec
        BY <2>1 DEF IndInv, PassOK, Versions
      <4>2. Stored = Cached
        BY <3>1 DEF WriteStatus, Stored, Cached
      <4> QED
        BY <3>1, <4>1, <4>2 DEF WriteStatus, OptOut, world
    <3>2. CASE UserEditsSpec
      <4>1. PICK s \in SpecChoices :
                /\ versions' = Append(versions, [Stored EXCEPT !.spec = s])
                /\ owed' = IF OptOut(Stored.spec, s) THEN owed + 1 ELSE owed
        BY <3>2 DEF UserEditsSpec, OptOut
      <4>2. [Stored EXCEPT !.spec = s] \in Versions /\ [Stored EXCEPT !.spec = s].spec = s
        BY <2>1, SpecAssumption DEF Versions
      <4> QED
        BY <3>2, <4>1, <4>2 DEF UserEditsSpec
    <3> QED
      BY <1>8, <3>1, <3>2
  <2>3. Cached' = Cached /\ ActingSpec' = ActingSpec /\ CurrentKey' = CurrentKey
    <3>1. Cached' = Cached
      BY <2>1, <2>2 DEF Cached
    <3> QED
      BY <2>2, <3>1 DEF ActingSpec, Reconciling, CurrentKey
  <2>4. (Settled <=> Settled') /\ (Outdated <=> Outdated') /\ MissedOptOut' = MissedOptOut
    BY <2>2, <2>3 DEF Settled, Outdated, MissedOptOut, OptOut, isMigrationRequested
  <2>5. Demand' = Demand /\ Demand \in Nat
    BY <2>4 DEF Demand, Need, MissedOptOut
  <2>6. /\ Cardinality(OptOuts(versions)) \in Nat
        /\ Cardinality(OptOuts(versions))'
             = IF OptOut(Stored.spec, v.spec) THEN Cardinality(OptOuts(versions)) + 1
               ELSE Cardinality(OptOuts(versions))
    <3>1. OptOuts(versions)' = OptOuts(Append(versions, v))
      BY <2>2 DEF OptOuts
    <3> QED
      BY <2>1, <3>1, OptOutsFinite, OptOutsAppend DEF Stored
  <2> QED
    BY <2>1, <2>2, <2>5, <2>6 DEF OwedOK
<1>9. CASE SyncCache
  <2>1. /\ versions \in Seq(Versions) /\ Len(versions) > 1 /\ versions' = Tail(versions)
        /\ owed \in Int /\ UNCHANGED <<inputs, job, pc, pass, owed>>
    BY <1>9 DEF SyncCache, world, IndInv, VersionsOK, WorldOK
  <2>2. Cached = versions[1] /\ Cached' = versions[2] /\ CurrentKey' = CurrentKey
    BY <2>1 DEF Cached, CurrentKey
  <2>3. /\ Cardinality(OptOuts(versions)) \in Nat /\ Cardinality(OptOuts(versions))' \in Nat
        /\ Cardinality(OptOuts(versions))'
             <= IF OptOut(Cached.spec, Cached'.spec) THEN Cardinality(OptOuts(versions)) - 1
                ELSE Cardinality(OptOuts(versions))
    <3>1. Tail(versions) \in Seq(Versions)
      BY <2>1
    <3> QED
      BY <2>1, <2>2, <3>1, OptOutsFinite, OptOutsTail DEF OptOuts
  <2>4. Outdated' <=> Outdated
    BY <2>1, <2>2 DEF Outdated
  <2>5. Demand \in Nat /\ Demand' \in Nat
        /\ Demand' <= IF OptOut(Cached.spec, Cached'.spec) THEN Demand + 1 ELSE Demand
    <3>1. CASE Reconciling
      <4>1. ActingSpec = pass.spec /\ ActingSpec' = pass.spec
        BY <2>1, <3>1 DEF ActingSpec, Reconciling
      <4>2. Settled' <=> Settled
        BY <2>1, <2>2, <4>1 DEF Settled, isMigrationRequested
      <4>3. MissedOptOut' <= IF OptOut(Cached.spec, Cached'.spec) THEN MissedOptOut + 1
                             ELSE MissedOptOut
        BY <4>1 DEF MissedOptOut, OptOut, isMigrationRequested
      <4> QED
        BY <2>4, <4>2, <4>3 DEF Demand, Need, MissedOptOut
    <3>2. CASE ~Reconciling
      <4>1. ActingSpec = Cached.spec /\ ActingSpec' = Cached'.spec
        BY <2>1, <3>2 DEF ActingSpec, Reconciling
      <4>2. MissedOptOut = 0 /\ MissedOptOut' = 0
        BY <4>1 DEF MissedOptOut, OptOut, isMigrationRequested
      <4>3. Settled /\ ~Settled' => OptOut(Cached.spec, Cached'.spec)
        BY <2>1, <2>2, <4>1 DEF Settled, OptOut, isMigrationRequested
      <4>4. ~Outdated
        BY <3>2 DEF Outdated, Reconciling
      <4> QED
        BY <2>4, <4>2, <4>3, <4>4 DEF Demand, Need
    <3> QED
      BY <3>1, <3>2
  <2> QED
    BY <2>1, <2>3, <2>5 DEF OwedOK
<1>10. CASE JobStarts \/ JobFinishes \/ JobRemoved \/ UserCreatesForeignJob
  <2>1. UNCHANGED <<versions, inputs, pc, pass, owed>>
    BY <1>10 DEF JobStarts, JobFinishes, JobRemoved, UserCreatesForeignJob, world
  <2>2. ActingSpec' = ActingSpec /\ Cached' = Cached /\ CurrentKey' = CurrentKey
    BY <2>1 DEF ActingSpec, Reconciling, Cached, CurrentKey
  <2>3. MissedOptOut' = MissedOptOut
    BY <2>2 DEF MissedOptOut, OptOut, isMigrationRequested
  <2>4. (Settled => Settled') /\ (Outdated' => Outdated)
    <3>1. CASE JobStarts \/ JobFinishes
      <4>1. /\ job.exists /\ ~job.deleting /\ job.state # "Complete"
            /\ job'.exists = job.exists /\ job'.deleting = job.deleting
            /\ job'.owned = job.owned /\ job'.key = job.key
        BY <3>1 DEF JobStarts, JobFinishes, IndInv, JobOK, Jobs
      <4> QED
        BY <2>1, <2>2, <4>1 DEF Settled, Outdated, isMigrationRequested
    <3>2. CASE JobRemoved \/ UserCreatesForeignJob
      BY <2>1, <2>2, <3>2
         DEF JobRemoved, UserCreatesForeignJob, Settled, Outdated, NoJob, ForeignJob
    <3> QED
      BY <1>10, <3>1, <3>2
  <2>5. Demand' <= Demand
    BY <2>3, <2>4 DEF Demand, Need, MissedOptOut
  <2> QED
    BY <1>1, <2>1, <2>5
<1>11. CASE UserEditsSecrets \/ UserDeletesJob
  <2>1. UNCHANGED <<versions, pc, pass>> /\ owed' = owed + 1
    BY <1>11 DEF UserEditsSecrets, UserDeletesJob
  <2>2. ActingSpec' = ActingSpec /\ Cached' = Cached
    BY <2>1 DEF ActingSpec, Reconciling, Cached
  <2>3. MissedOptOut' = MissedOptOut
    BY <2>2 DEF MissedOptOut, OptOut, isMigrationRequested
  <2>4. Settled => ~Outdated'
    <3>1. CASE UserEditsSecrets
      BY <3>1 DEF UserEditsSecrets, Settled, Outdated
    <3>2. CASE UserDeletesJob
      <4>1. CurrentKey' = CurrentKey
        BY <3>2 DEF UserDeletesJob, CurrentKey
      <4> QED
        BY <2>1, <4>1 DEF Settled, Outdated
    <3> QED
      BY <1>11, <3>1, <3>2
  <2>5. Demand' <= Demand + 1
    BY <2>3, <2>4 DEF Demand, Need, MissedOptOut
  <2> QED
    BY <2>1, <2>5, DemandStep
<1>12. CASE CalmDown \/ UNCHANGED vars
  <2>1. UNCHANGED <<versions, inputs, job, pc, pass, owed>>
    BY <1>12 DEF CalmDown, vars
  <2>2. ActingSpec' = ActingSpec /\ Cached' = Cached /\ CurrentKey' = CurrentKey
    BY <2>1 DEF ActingSpec, Reconciling, Cached, CurrentKey
  <2>3. Demand' = Demand
    BY <2>1, <2>2
       DEF Demand, Need, MissedOptOut, OptOut, Settled, Outdated, isMigrationRequested
  <2>4. Demand' <= Demand
    BY <2>3 DEF Demand, Need, MissedOptOut
  <2> QED
    BY <1>1, <2>1, <2>4
<1> QED
  BY <1>2, <1>3, <1>4, <1>5, <1>6, <1>7, <1>8, <1>9, <1>10, <1>11, <1>12
     DEF Next, Operator, Act, Cluster, Users

(* Whatever the cache lags, calls fail and the operator crashes, every Job *)
(* createMigrationJob creates beyond the first is owed to a different      *)
(* opt-out, Secret edit or Job deletion of the users.                      *)
THEOREM NotDuplicated == Spec => []AttemptsNotDuplicated
<1>1. IndInv /\ OwedOK => AttemptsNotDuplicated
  <2> SUFFICES ASSUME IndInv, OwedOK PROVE AttemptsNotDuplicated
    OBVIOUS
  <2>1. Cardinality(OptOuts(versions)) \in Nat /\ owed \in Int /\ Demand \in Nat
    BY OptOutsFinite DEF IndInv, VersionsOK, WorldOK, Demand, Need, MissedOptOut
  <2> QED
    BY <2>1 DEF OwedOK, AttemptsNotDuplicated
<1> QED
  BY <1>1, InitOwed, NextOwed, IndInvInvariant, PTL DEF Spec

(* A Job of the migration's name that the OGXServer does not own is left   *)
(* untouched by every step of the operator (assertOwnedMigrationJob,       *)
(* createMigrationJob), unless the pass had read an owned one before.      *)
THEOREM ForeignJobSafe == Spec => ForeignJobUntouched
<1> DEFINE kept == Operator /\ job.exists /\ ~job.owned /\ ~(pass.job.exists /\ pass.job.owned)
                     => UNCHANGED job
<1>1. [Next]_vars => [kept]_vars
  <2> SUFFICES ASSUME Operator, job.exists, ~(pass.job.exists /\ pass.job.owned)
               PROVE  UNCHANGED job
    BY DEF vars
  <2>1. CASE Act
    BY <2>1 DEF Act, ActNotRequested, ActExistingJob, ActNoJob, assertOwnedMigrationJob
  <2>2. CASE ~Act
    BY <2>2 DEF Operator, Begin, Dispatch, CallFails, Preflight, migrationAttemptKey,
         getMigrationJob, WriteStatus, WriteStatusFails, Crash
  <2> QED
    BY <2>1, <2>2
<1> QED
  BY <1>1, PTL DEF Spec, ForeignJobUntouched
================================================================================
