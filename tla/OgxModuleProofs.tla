---------------------------- MODULE OgxModuleProofs ----------------------------
(***************************************************************************)
(* Proofs about OgxModule, for any set of manifests and any bounds: its    *)
(* type invariant, and that a CR which is gone left nothing behind as long *)
(* as no removing pass cleared the finalizer of a CR that was Managed      *)
(* again.                                                                  *)
(***************************************************************************)
EXTENDS OgxModule, TLAPS

--------------------------------------------------------------------------------
(* The inductive invariant.                                                *)

(* A pass deploys from a copy of the CR that wants the operator and holds  *)
(* the finalizer.                                                          *)
Deployable(cr) == ~mustCleanUp(cr) /\ cr.finalizer

Passes == [cr: CRs, current: BOOLEAN, cleanup: BOOLEAN, found: Findings]

(* Only a CR that exists has a finalizer, and only the stored version can  *)
(* be one that is gone.                                                    *)
VersionsOK ==
    /\ versions \in Seq(CRs) /\ Len(versions) \in 1..(MaxLag + 1)
    /\ \A i \in 1..(Len(versions) - 1) : versions[i].exists
    /\ \A i \in 1..Len(versions) : versions[i].finalizer => versions[i].exists

PassTypes ==
    /\ pc \in {"idle", "finalizer", "work", "check", "status", "clear"}
    /\ pass \in Passes

(* A copy the API server still takes for current is the stored CR.         *)
CurrentIsStored ==
    pc \in {"finalizer", "clear"} /\ pass.current => pass.cr = Stored /\ Stored.exists

(* Reconcile adds the finalizer before it deploys.                         *)
FinalizerFirst == pc = "work" /\ ~mustCleanUp(pass.cr) => pass.cr.finalizer

(* A pass clears the finalizer it found only after a cleanup that left     *)
(* nothing.                                                                *)
CleanedUp ==
    /\ pc \in {"idle", "finalizer", "work", "check"} => ~pass.cleanup
    /\ pc = "clear" => pass.cleanup /\ pass.cr.finalizer /\ ~pass.found.failed
    /\ pass.cleanup /\ ~pass.found.failed => deployed = {}

(* The versions the cache has still to deliver when a removing pass clears *)
(* the finalizer ask for the removal as the copy of the pass does.         *)
ClearsWhatItRead ==
    pc = "clear" /\ pass.current /\ mustCleanUp(pass.cr) =>
        \A i \in 1..Len(versions) : mustCleanUp(versions[i])

(* No finalizer is lost behind a version a pass could still deploy from,   *)
(* while a pass is about to deploy, or while anything is deployed.         *)
VersionsGuarded ==
    ~unguarded => \A i, j \in 1..Len(versions) :
                     i <= j /\ Deployable(versions[i]) => versions[j].finalizer
PassGuarded ==
    ~unguarded /\ pc \in {"finalizer", "work"} /\ Deployable(pass.cr) => Stored.finalizer
DeployedGuarded == ~unguarded /\ deployed # {} => Stored.finalizer

WorldOK ==
    /\ deployed \subseteq Objects
    /\ world \in [available: BOOLEAN, certs: BOOLEAN]
    /\ queue \in [key: BOOLEAN, timer: BOOLEAN]
    /\ edits \in 0..(MaxEdits + 1)
    /\ unguarded \in BOOLEAN

PassOK ==
    PassTypes /\ CurrentIsStored /\ FinalizerFirst /\ CleanedUp /\ ClearsWhatItRead /\ PassGuarded

IndInv == VersionsOK /\ VersionsGuarded /\ PassOK /\ DeployedGuarded /\ WorldOK
--------------------------------------------------------------------------------
(* What appending a version and dropping the oldest one do.                *)

(* The empty pass and the CRs users and the API server make are typed.     *)
LEMMA ConstantTypes ==
    /\ NewStatus \in Status
    /\ \A s \in {"Managed", "Removed"} : NewCR(s) \in CRs
    /\ NoCR \in CRs /\ ~NoCR.exists /\ ~NoCR.finalizer
    /\ NoFindings \in Findings
    /\ IdlePass \in Passes /\ ~IdlePass.current /\ ~IdlePass.cleanup
<1>1. NewStatus \in Status
  BY DEF NewStatus, Status, Reasons
<1>2. \A s \in {"Managed", "Removed"} : NewCR(s) \in CRs
  BY <1>1 DEF NewCR, CRs
<1>3. NoCR \in CRs /\ ~NoCR.exists /\ ~NoCR.finalizer
  BY <1>1 DEF NoCR, NewCR, CRs
<1>4. NoFindings \in Findings
  BY DEF NoFindings, Findings
<1> QED
  BY <1>1, <1>2, <1>3, <1>4 DEF IdlePass, Passes

(* The cached and the stored version are CRs.                              *)
LEMMA EndsTyped ==
    ASSUME VersionsOK
    PROVE  /\ Cached \in CRs /\ Stored \in CRs
           /\ Cached.finalizer => Cached.exists
           /\ Stored.finalizer => Stored.exists
BY BoundAssumption DEF VersionsOK, Cached, Stored

(* A write to a CR that exists adds one version, the stored one.           *)
LEMMA WriteOK ==
    ASSUME VersionsOK, Stored.exists, Len(versions) <= MaxLag,
           NEW cr \in CRs, cr.finalizer => cr.exists, Write(cr)
    PROVE  /\ VersionsOK' /\ Stored' = cr
           /\ \A i \in 1..Len(versions') :
                 \/ i \in 1..Len(versions) /\ versions'[i] = versions[i]
                 \/ i = Len(versions') /\ versions'[i] = cr
<1>1. /\ versions' \in Seq(CRs) /\ Len(versions') = Len(versions) + 1
      /\ Len(versions) \in 1..MaxLag
  BY BoundAssumption DEF VersionsOK, Write
<1>2. \A i \in 1..Len(versions) : versions'[i] = versions[i]
  BY <1>1 DEF VersionsOK, Write
<1>3. versions'[Len(versions')] = cr
  BY <1>1 DEF VersionsOK, Write
<1>4. \A i \in 1..Len(versions) : versions[i].exists
  BY <1>1 DEF VersionsOK, Stored
<1>5. \A i \in 1..Len(versions') :
          \/ i \in 1..Len(versions) /\ versions'[i] = versions[i]
          \/ i = Len(versions') /\ versions'[i] = cr
  BY <1>1, <1>2, <1>3
<1>6. \A i \in 1..Len(versions') : versions'[i].finalizer => versions'[i].exists
  BY <1>5 DEF VersionsOK
<1>7. VersionsOK'
  BY <1>1, <1>2, <1>4, <1>6, BoundAssumption DEF VersionsOK
<1> QED
  BY <1>3, <1>5, <1>7 DEF Stored

(* The informer's step shifts the versions and leaves the stored one.      *)
LEMMA TailOK ==
    ASSUME VersionsOK, Len(versions) > 1, versions' = Tail(versions)
    PROVE  /\ VersionsOK' /\ Stored' = Stored
           /\ \A i \in 1..Len(versions') : i + 1 \in 1..Len(versions)
                                          /\ versions'[i] = versions[i + 1]
<1>1. /\ versions' \in Seq(CRs) /\ Len(versions') = Len(versions) - 1
      /\ Len(versions) \in 2..(MaxLag + 1)
  BY BoundAssumption DEF VersionsOK
<1>2. \A i \in 1..Len(versions') : i + 1 \in 1..Len(versions)
                                  /\ versions'[i] = versions[i + 1]
  BY <1>1 DEF VersionsOK
<1>3. \A i \in 1..Len(versions') : versions'[i].finalizer => versions'[i].exists
  BY <1>2 DEF VersionsOK
<1>4. VersionsOK'
  BY <1>1, <1>2, <1>3, BoundAssumption DEF VersionsOK
<1> QED
  BY <1>1, <1>2, <1>4 DEF Stored

(* What holds of the versions is only disturbed by a step that writes.     *)
LEMMA VersionsKept ==
    ASSUME VersionsOK, VersionsGuarded, UNCHANGED <<versions, unguarded>>
    PROVE  VersionsOK' /\ VersionsGuarded' /\ Stored' = Stored
BY DEF VersionsOK, VersionsGuarded, Deployable, mustCleanUp, Stored

(* A pass that has ended holds nothing.                                    *)
LEMMA DoneOK ==
    ASSUME NEW q, Done(q)
    PROVE  PassOK'
BY ConstantTypes
   DEF Done, PassOK, PassTypes, CurrentIsStored, FinalizerFirst, CleanedUp, ClearsWhatItRead,
       PassGuarded

(* A step that leaves the pass, the CR and the guard alone and deploys     *)
(* nothing keeps what holds of the pass.                                   *)
LEMMA PassKept ==
    ASSUME PassOK, UNCHANGED <<pc, pass, versions, unguarded>>, deployed' \subseteq deployed
    PROVE  PassOK'
BY DEF PassOK, PassTypes, CurrentIsStored, FinalizerFirst, CleanedUp, ClearsWhatItRead,
       PassGuarded, Deployable, mustCleanUp, Stored

--------------------------------------------------------------------------------
(* One lemma per action.                                                   *)

(* The invariant holds initially.                                          *)
LEMMA InitOK == Init => IndInv
<1> SUFFICES ASSUME Init PROVE IndInv
  OBVIOUS
<1>1. PICK s \in {"Managed", "Removed"} : versions = <<NewCR(s)>>
  BY DEF Init
<1>2. NewCR(s) \in CRs /\ NewCR(s).exists /\ ~NewCR(s).finalizer
  BY ConstantTypes DEF NewCR
<1>3. /\ versions \in Seq(CRs) /\ Len(versions) = 1
      /\ \A i \in 1..Len(versions) : versions[i] = NewCR(s)
  BY <1>1, <1>2
<1>4. VersionsOK /\ VersionsGuarded
  BY <1>2, <1>3, BoundAssumption DEF VersionsOK, VersionsGuarded, Deployable
<1>5. PassOK
  BY ConstantTypes
     DEF Init, PassOK, PassTypes, CurrentIsStored, FinalizerFirst, CleanedUp, ClearsWhatItRead,
         PassGuarded
<1>6. edits \in 0..(MaxEdits + 1)
  BY BoundAssumption DEF Init
<1>7. deployed = {} /\ unguarded \in BOOLEAN
  BY DEF Init
<1>8. world \in [available: BOOLEAN, certs: BOOLEAN] /\ queue \in [key: BOOLEAN, timer: BOOLEAN]
  BY DEF Init
<1>9. DeployedGuarded /\ WorldOK
  BY <1>6, <1>7, <1>8 DEF DeployedGuarded, WorldOK
<1> QED
  BY <1>4, <1>5, <1>9 DEF IndInv

(* Reconcile reads the CR from the cache.                                  *)
LEMMA BeginOK ==
    ASSUME IndInv, Begin
    PROVE  IndInv'
<1>1. UNCHANGED <<versions, deployed, world, edits, unguarded>>
  BY DEF Begin
<1>2. VersionsOK' /\ VersionsGuarded' /\ Stored' = Stored
  BY <1>1, VersionsKept DEF IndInv
<1>3. queue' \in [key: BOOLEAN, timer: BOOLEAN]
  BY DEF Begin, IndInv, WorldOK
<1>4. DeployedGuarded' /\ WorldOK'
  BY <1>1, <1>2, <1>3 DEF IndInv, DeployedGuarded, WorldOK
<1>5. CASE ~Cached.exists
  BY <1>1, <1>2, <1>4, <1>5, PassKept DEF Begin, IndInv
<1>6. CASE Cached.exists
  <2>1. /\ pc' = "finalizer"
        /\ pass' = [IdlePass EXCEPT !.cr = Cached, !.current = (Len(versions) = 1)]
    BY <1>6 DEF Begin
  <2>2. Cached \in CRs
    BY EndsTyped DEF IndInv
  <2>3. /\ pass' \in Passes /\ pass'.cr = Cached /\ ~pass'.cleanup
        /\ pass'.current = (Len(versions) = 1)
    BY <2>1, <2>2, ConstantTypes DEF Passes
  <2>4. pass'.current => Cached = Stored
    BY <2>3 DEF Cached, Stored
  <2>5. ~unguarded /\ Deployable(Cached) => Stored.finalizer
    BY DEF IndInv, VersionsOK, VersionsGuarded, Cached, Stored
  <2>6. PassOK'
    BY <1>1, <1>2, <1>6, <2>1, <2>3, <2>4, <2>5
       DEF PassOK, PassTypes, CurrentIsStored, FinalizerFirst, CleanedUp, ClearsWhatItRead,
           PassGuarded, Deployable, mustCleanUp
  <2> QED
    BY <1>2, <1>4, <2>6 DEF IndInv
<1> QED
  BY <1>5, <1>6

(* ensureFinalizer: a new finalizer guards whatever came before it.        *)
LEMMA EnsureFinalizerOK ==
    ASSUME IndInv, ensureFinalizer
    PROVE  IndInv'
<1> DEFINE cr == [pass.cr EXCEPT !.finalizer = TRUE]
<1>1. UNCHANGED <<deployed, world, edits, unguarded>> /\ pc = "finalizer" /\ pass \in Passes
  BY DEF ensureFinalizer, IndInv, PassOK, PassTypes
<1>2. CASE /\ pass.cr.state = "Removed" \/ pass.cr.finalizer
           /\ pc' = "work" /\ UNCHANGED <<versions, pass, queue>>
  <2>1. VersionsOK' /\ VersionsGuarded' /\ Stored' = Stored
    BY <1>1, <1>2, VersionsKept DEF IndInv
  <2>2. PassOK'
    BY <1>1, <1>2, <2>1
       DEF IndInv, PassOK, PassTypes, CurrentIsStored, FinalizerFirst, CleanedUp,
           ClearsWhatItRead, PassGuarded, Deployable, mustCleanUp
  <2> QED
    BY <1>1, <1>2, <2>1, <2>2 DEF IndInv, DeployedGuarded, WorldOK
<1>3. CASE /\ pass.cr.state = "Managed" /\ ~pass.cr.finalizer
           /\ pass.current /\ ~pass.cr.deleting
           /\ Len(versions) <= MaxLag /\ Write(cr)
           /\ pass' = [pass EXCEPT !.cr = cr] /\ pc' = "work" /\ UNCHANGED queue
  <2>1. Stored.exists /\ pass.cr = Stored
    BY <1>1, <1>3 DEF IndInv, PassOK, CurrentIsStored
  <2>2. /\ cr \in CRs /\ cr.exists /\ cr.finalizer
        /\ pass' \in Passes /\ pass'.cr = cr
        /\ pass'.cleanup = pass.cleanup /\ pass'.found = pass.found
    BY <1>1, <1>3, <2>1 DEF Passes, CRs
  <2> HIDE DEF cr
  <2>3. /\ VersionsOK' /\ Stored' = cr
        /\ \A i \in 1..Len(versions') :
              \/ i \in 1..Len(versions) /\ versions'[i] = versions[i]
              \/ i = Len(versions') /\ versions'[i] = cr
    BY <1>3, <2>1, <2>2, WriteOK DEF IndInv
  <2>4. VersionsGuarded'
    BY <1>1, <2>2, <2>3 DEF IndInv, VersionsOK, VersionsGuarded, Deployable, mustCleanUp
  <2>5. PassOK'
    BY <1>1, <1>3, <2>2, <2>3
       DEF IndInv, PassOK, PassTypes, CurrentIsStored, FinalizerFirst, CleanedUp,
           ClearsWhatItRead, PassGuarded, Deployable, mustCleanUp
  <2> QED
    BY <1>1, <1>3, <2>2, <2>3, <2>4, <2>5 DEF IndInv, DeployedGuarded, WorldOK
<1>4. CASE Retry /\ UNCHANGED versions
  <2>1. VersionsOK' /\ VersionsGuarded' /\ Stored' = Stored
    BY <1>1, <1>4, VersionsKept DEF IndInv
  <2>2. PassOK'
    BY <1>4, DoneOK DEF Retry
  <2>3. queue' \in [key: BOOLEAN, timer: BOOLEAN]
    BY <1>4 DEF Retry, Done, IndInv, WorldOK
  <2> QED
    BY <1>1, <2>1, <2>2, <2>3 DEF IndInv, DeployedGuarded, WorldOK
<1> QED
  BY <1>2, <1>3, <1>4 DEF ensureFinalizer

(* A failure to render only marks the pass as failed.                      *)
LEMMA RenderFailsOK ==
    ASSUME IndInv, renderFails
    PROVE  IndInv'
<1>1. /\ UNCHANGED <<versions, deployed, world, queue, edits, unguarded>>
      /\ pc = "work" /\ pc' = "status" /\ pass \in Passes
      /\ pass' = [pass EXCEPT !.found.failed = TRUE]
  BY DEF renderFails, IndInv, PassOK, PassTypes
<1>2. pass' \in Passes /\ pass'.cleanup = pass.cleanup
  BY <1>1 DEF Passes, Findings
<1>3. VersionsOK' /\ VersionsGuarded' /\ Stored' = Stored
  BY <1>1, VersionsKept DEF IndInv
<1>4. PassOK'
  BY <1>1, <1>2, <1>3
     DEF IndInv, PassOK, PassTypes, CurrentIsStored, FinalizerFirst, CleanedUp,
         ClearsWhatItRead, PassGuarded
<1> QED
  BY <1>1, <1>3, <1>4 DEF IndInv, DeployedGuarded, WorldOK

(* The cleanup counts as one only if it left nothing.                      *)
LEMMA CleanupOK ==
    ASSUME IndInv, cleanupRootOperatorResources
    PROVE  IndInv'
<1>1. PICK left \in (IF Calm THEN {{}} ELSE SUBSET deployed), ok \in BOOLEAN :
          /\ ok => left = {}
          /\ deployed' = left
          /\ world' = [world EXCEPT !.available = @ /\ left = Objects]
          /\ queue' = [queue EXCEPT !.key = @ \/ left # deployed]
          /\ pass' = [pass EXCEPT !.cleanup = TRUE, !.found.failed = ~ok]
  BY DEF cleanupRootOperatorResources
<1>2. /\ pc = "work" /\ pc' = "status" /\ pass \in Passes
      /\ UNCHANGED <<versions, edits, unguarded>>
  BY DEF cleanupRootOperatorResources, IndInv, PassOK, PassTypes
<1>3. deployed' \subseteq deployed
  BY <1>1
<1>4. pass' \in Passes /\ pass'.found.failed = ~ok
  BY <1>1, <1>2 DEF Passes, Findings
<1>5. VersionsOK' /\ VersionsGuarded' /\ Stored' = Stored
  BY <1>2, VersionsKept DEF IndInv
<1>6. PassOK'
  BY <1>1, <1>2, <1>4, <1>5
     DEF IndInv, PassOK, PassTypes, CurrentIsStored, FinalizerFirst, CleanedUp,
         ClearsWhatItRead, PassGuarded
<1>7. /\ world' \in [available: BOOLEAN, certs: BOOLEAN]
      /\ queue' \in [key: BOOLEAN, timer: BOOLEAN]
  BY <1>1 DEF IndInv, WorldOK
<1>8. DeployedGuarded' /\ WorldOK'
  BY <1>2, <1>3, <1>5, <1>7 DEF IndInv, DeployedGuarded, WorldOK
<1> QED
  BY <1>5, <1>6, <1>8 DEF IndInv

(* Deploy: a pass that deploys holds a finalizer, and so does the stored   *)
(* CR, however old the copy of the pass is.                                *)
LEMMA DeployOK ==
    ASSUME IndInv, Deploy
    PROVE  IndInv'
<1>1. PICK applied \in (IF Calm THEN {Objects} ELSE SUBSET Objects), ok \in BOOLEAN :
          /\ deployed' = deployed \cup applied
          /\ queue' = [queue EXCEPT !.key = @ \/ deployed' # deployed]
          /\ pc' = IF ok THEN "check" ELSE "status"
          /\ pass' = [pass EXCEPT !.found.failed = ~ok]
  BY DEF Deploy
<1>2. /\ pc = "work" /\ ~mustCleanUp(pass.cr) /\ pass \in Passes
      /\ UNCHANGED <<versions, world, edits, unguarded>>
  BY DEF Deploy, IndInv, PassOK, PassTypes
<1>3. ~unguarded => Stored.finalizer
  BY <1>2 DEF IndInv, PassOK, FinalizerFirst, PassGuarded, Deployable
<1>4. pass' \in Passes /\ pass'.cleanup = pass.cleanup
  BY <1>1, <1>2 DEF Passes, Findings
<1>5. VersionsOK' /\ VersionsGuarded' /\ Stored' = Stored
  BY <1>2, VersionsKept DEF IndInv
<1>6. PassOK'
  BY <1>1, <1>2, <1>4, <1>5
     DEF IndInv, PassOK, PassTypes, CurrentIsStored, FinalizerFirst, CleanedUp,
         ClearsWhatItRead, PassGuarded
<1>7. queue' \in [key: BOOLEAN, timer: BOOLEAN] /\ deployed' \subseteq Objects
  BY <1>1 DEF IndInv, WorldOK
<1>8. DeployedGuarded' /\ WorldOK'
  BY <1>2, <1>3, <1>5, <1>7 DEF IndInv, DeployedGuarded, WorldOK
<1> QED
  BY <1>5, <1>6, <1>8 DEF IndInv

(* The readiness checks only read.                                         *)
LEMMA CheckReadinessOK ==
    ASSUME IndInv, CheckReadiness
    PROVE  IndInv'
<1>1. /\ pc = "check" /\ pc' = "status" /\ pass \in Passes
      /\ UNCHANGED <<versions, deployed, world, queue, edits, unguarded>>
  BY DEF CheckReadiness, IndInv, PassOK, PassTypes
<1>2. PICK ok \in BOOLEAN :
          pass' = [pass EXCEPT !.found =
                 IF ok
                 THEN [failed |-> FALSE, provisioned |-> TRUE, operator |-> world.available,
                       webhook |-> world.certs]
                 ELSE [NoFindings EXCEPT !.failed = TRUE, !.provisioned = TRUE]]
  BY DEF CheckReadiness
<1>3. /\ [failed |-> FALSE, provisioned |-> TRUE, operator |-> world.available,
          webhook |-> world.certs] \in Findings
      /\ [NoFindings EXCEPT !.failed = TRUE, !.provisioned = TRUE] \in Findings
  BY ConstantTypes DEF IndInv, WorldOK, Findings
<1>4. pass' \in Passes /\ pass'.cleanup = pass.cleanup
  BY <1>1, <1>2, <1>3 DEF Passes
<1>5. VersionsOK' /\ VersionsGuarded' /\ Stored' = Stored
  BY <1>1, VersionsKept DEF IndInv
<1>6. PassOK'
  BY <1>1, <1>4, <1>5
     DEF IndInv, PassOK, PassTypes, CurrentIsStored, FinalizerFirst, CleanedUp,
         ClearsWhatItRead, PassGuarded
<1> QED
  BY <1>1, <1>5, <1>6 DEF IndInv, DeployedGuarded, WorldOK

(* What Reconcile does once the status is written: it clears the finalizer *)
(* only after a cleanup that worked, and ends the pass otherwise.          *)
LEMMA AfterStatusOK ==
    ASSUME IndInv, pc = "status", deployed' = deployed,
           NEW cr \in CRs, NEW written \in BOOLEAN, NEW current \in BOOLEAN,
           AfterStatus(cr, written, current),
           current => /\ Stored' = cr /\ cr.exists
                      /\ mustCleanUp(cr) => (\A i \in 1..Len(versions) : mustCleanUp(versions[i]))'
    PROVE  PassOK' /\ queue' \in [key: BOOLEAN, timer: BOOLEAN]
<1>1. /\ pass \in Passes /\ queue \in [key: BOOLEAN, timer: BOOLEAN]
      /\ pass.cleanup /\ ~pass.found.failed => deployed = {}
  BY DEF IndInv, PassOK, PassTypes, CleanedUp, WorldOK
<1>2. CASE /\ pass.cleanup /\ CleanupSucceeded(written) /\ cr.finalizer
           /\ pc' = "clear"
           /\ pass' = [pass EXCEPT !.cr = cr, !.current = current]
           /\ UNCHANGED queue
  <2>1. /\ pass' \in Passes /\ pass'.cr = cr /\ pass'.current = current
        /\ pass'.cleanup = pass.cleanup /\ pass'.found = pass.found
    BY <1>1, <1>2 DEF Passes
  <2>2. PassOK'
    BY <1>1, <1>2, <2>1
       DEF PassOK, PassTypes, CurrentIsStored, FinalizerFirst, CleanedUp, CleanupSucceeded,
           ClearsWhatItRead, PassGuarded, mustCleanUp
  <2> QED
    BY <1>1, <1>2, <2>2
<1>3. ASSUME NEW q \in [key: BOOLEAN, timer: BOOLEAN], Done(q)
      PROVE  PassOK' /\ queue' \in [key: BOOLEAN, timer: BOOLEAN]
  BY <1>3, DoneOK DEF Done
<1>4. /\ [queue EXCEPT !.key = TRUE] \in [key: BOOLEAN, timer: BOOLEAN]
      /\ [queue EXCEPT !.timer = @ \/ NeedsRequeue] \in [key: BOOLEAN, timer: BOOLEAN]
  BY <1>1
<1> QED
  BY <1>1, <1>2, <1>3, <1>4 DEF AfterStatus, Retry

(* updateStatus: a status written to the stored CR changes neither what it *)
(* asks for nor its finalizer.                                             *)
LEMMA UpdateStatusOK ==
    ASSUME IndInv, updateStatus
    PROVE  IndInv'
<1> DEFINE cr == [Cached EXCEPT !.status = StatusOf(Cached.state, pass.found)]
<1>1. UNCHANGED <<deployed, world, edits, unguarded>> /\ pc = "status" /\ pass \in Passes
  BY DEF updateStatus, IndInv, PassOK, PassTypes
<1>2. Cached \in CRs /\ pass.cr \in CRs /\ pass.found \in Findings
  BY <1>1, EndsTyped DEF IndInv, Passes
<1>3. StatusOf(Cached.state, pass.found) \in Status
  BY <1>2 DEF StatusOf, Status, Reasons, Findings
<1>4. /\ cr \in CRs /\ cr.exists = Cached.exists /\ cr.finalizer = Cached.finalizer
      /\ mustCleanUp(cr) = mustCleanUp(Cached)
  BY <1>2, <1>3 DEF CRs, mustCleanUp
<1>5. ASSUME PassOK', queue' \in [key: BOOLEAN, timer: BOOLEAN],
             VersionsOK', VersionsGuarded', Stored'.finalizer = Stored.finalizer
      PROVE  IndInv'
  BY <1>1, <1>5 DEF IndInv, DeployedGuarded, WorldOK
<1>6. CASE ~Cached.exists /\ AfterStatus(pass.cr, TRUE, FALSE) /\ UNCHANGED versions
  <2>1. PassOK' /\ queue' \in [key: BOOLEAN, timer: BOOLEAN]
    BY <1>1, <1>2, <1>6, AfterStatusOK
  <2> QED
    BY <1>1, <1>5, <1>6, <2>1, VersionsKept DEF IndInv
<1>7. CASE AfterStatus(Cached, FALSE, FALSE) /\ UNCHANGED versions
  <2>1. PassOK' /\ queue' \in [key: BOOLEAN, timer: BOOLEAN]
    BY <1>1, <1>2, <1>7, AfterStatusOK
  <2> QED
    BY <1>1, <1>5, <1>7, <2>1, VersionsKept DEF IndInv
<1>8. CASE /\ Cached.exists /\ Len(versions) = 1
           /\ AfterStatus(cr, TRUE, TRUE)
           /\ IF cr = Cached THEN UNCHANGED versions ELSE Write(cr)
  <2> HIDE DEF cr
  <2>1. Cached = Stored /\ \A i \in 1..Len(versions) : versions[i] = Cached
    BY <1>8 DEF Cached, Stored, IndInv, VersionsOK
  <2>2. cr.finalizer => cr.exists
    BY <1>4, <1>8
  <2>3. /\ VersionsOK' /\ Stored' = cr
        /\ \A i \in 1..Len(versions') : versions'[i] \in {Cached, cr}
    <3>1. CASE UNCHANGED versions /\ cr = Cached
      BY <1>1, <2>1, <3>1, VersionsKept DEF IndInv
    <3>2. CASE Write(cr)
      <4>1. Len(versions) <= MaxLag /\ Stored.exists /\ VersionsOK
        BY <1>8, <2>1, BoundAssumption DEF IndInv
      <4>2. /\ VersionsOK' /\ Stored' = cr
            /\ \A i \in 1..Len(versions') :
                  \/ i \in 1..Len(versions) /\ versions'[i] = versions[i]
                  \/ i = Len(versions') /\ versions'[i] = cr
        BY <1>4, <2>2, <3>2, <4>1, WriteOK
      <4> QED
        BY <2>1, <4>2
    <3> QED
      BY <1>8, <3>1, <3>2
  <2>4. \A i \in 1..Len(versions') : /\ versions'[i].finalizer = Cached.finalizer
                                     /\ mustCleanUp(versions'[i]) = mustCleanUp(Cached)
    BY <1>4, <2>3
  <2>5. VersionsGuarded'
    BY <2>4 DEF VersionsGuarded, Deployable
  <2>6. mustCleanUp(cr) => (\A i \in 1..Len(versions) : mustCleanUp(versions[i]))'
    BY <1>4, <2>4 DEF mustCleanUp
  <2>7. PassOK' /\ queue' \in [key: BOOLEAN, timer: BOOLEAN]
    BY <1>1, <1>4, <1>8, <2>3, <2>6, AfterStatusOK
  <2> QED
    BY <1>4, <1>5, <2>1, <2>3, <2>5, <2>7
<1> QED
  BY <1>6, <1>7, <1>8 DEF updateStatus

(* clearFinalizer: nothing is deployed, and no version that is still to    *)
(* reach the cache makes a pass deploy, unless the guard is gone.          *)
LEMMA ClearFinalizerOK ==
    ASSUME IndInv, clearFinalizer
    PROVE  IndInv'
<1> DEFINE cr == IF pass.cr.deleting THEN NoCR ELSE [pass.cr EXCEPT !.finalizer = FALSE]
<1>1. /\ UNCHANGED <<deployed, world, edits>> /\ pc = "clear"
      /\ pass \in Passes /\ deployed = {}
  BY DEF clearFinalizer, IndInv, PassOK, PassTypes, CleanedUp
<1>2. CASE /\ pass.current /\ Len(versions) <= MaxLag /\ Write(cr)
           /\ unguarded' = (unguarded \/ ~mustCleanUp(pass.cr)) /\ Done(queue)
  <2>1. Stored.exists /\ pass.cr = Stored
    BY <1>1, <1>2 DEF IndInv, PassOK, CurrentIsStored
  <2>2. cr \in CRs /\ ~cr.finalizer
    BY <1>1, ConstantTypes DEF Passes, CRs
  <2> HIDE DEF cr
  <2>3. /\ VersionsOK' /\ Stored' = cr
        /\ \A i \in 1..Len(versions') :
              \/ i \in 1..Len(versions) /\ versions'[i] = versions[i]
              \/ i = Len(versions') /\ versions'[i] = cr
    BY <1>2, <2>1, <2>2, WriteOK DEF IndInv
  <2>4. ~unguarded' => \A i \in 1..Len(versions') : ~Deployable(versions'[i])
    BY <1>1, <1>2, <2>2, <2>3 DEF IndInv, PassOK, ClearsWhatItRead, Deployable
  <2>5. VersionsGuarded'
    BY <2>4 DEF VersionsGuarded, Deployable, mustCleanUp
  <2>6. PassOK' /\ queue' = queue
    BY <1>2, DoneOK DEF Done
  <2>7. unguarded' \in BOOLEAN
    BY <1>2 DEF IndInv, WorldOK, mustCleanUp
  <2> QED
    BY <1>1, <2>3, <2>5, <2>6, <2>7 DEF IndInv, DeployedGuarded, WorldOK
<1>3. CASE Retry /\ UNCHANGED <<versions, unguarded>>
  <2>1. VersionsOK' /\ VersionsGuarded' /\ Stored' = Stored
    BY <1>3, VersionsKept DEF IndInv
  <2>2. PassOK' /\ queue' \in [key: BOOLEAN, timer: BOOLEAN]
    BY <1>3, DoneOK DEF Retry, Done, IndInv, WorldOK
  <2> QED
    BY <1>1, <1>3, <2>1, <2>2 DEF IndInv, DeployedGuarded, WorldOK
<1> QED
  BY <1>2, <1>3 DEF clearFinalizer

(* A crash loses the pass and nothing else.                                *)
LEMMA CrashOK ==
    ASSUME IndInv, Crash
    PROVE  IndInv'
<1>1. UNCHANGED <<versions, deployed, world, edits, unguarded>>
  BY DEF Crash
<1>2. VersionsOK' /\ VersionsGuarded' /\ Stored' = Stored
  BY <1>1, VersionsKept DEF IndInv
<1>3. PassOK'
  BY DoneOK DEF Crash
<1>4. queue' \in [key: BOOLEAN, timer: BOOLEAN]
  BY DEF Crash, Done
<1> QED
  BY <1>1, <1>2, <1>3, <1>4 DEF IndInv, DeployedGuarded, WorldOK

(* The cache gets the next version: what guarded the ones behind it stays. *)
LEMMA SyncCacheOK ==
    ASSUME IndInv, SyncCache
    PROVE  IndInv'
<1>1. /\ UNCHANGED <<deployed, world, pc, pass, edits, unguarded>>
      /\ Len(versions) > 1 /\ versions' = Tail(versions)
  BY DEF SyncCache
<1>2. /\ VersionsOK' /\ Stored' = Stored
      /\ \A i \in 1..Len(versions') : i + 1 \in 1..Len(versions)
                                     /\ versions'[i] = versions[i + 1]
  BY <1>1, TailOK DEF IndInv
<1>3. VersionsGuarded'
  <2> SUFFICES ASSUME ~unguarded, NEW i \in 1..Len(versions'), NEW j \in 1..Len(versions'),
                      i <= j, Deployable(versions[i])'
               PROVE  versions'[j].finalizer
    BY <1>1 DEF VersionsGuarded
  <2>1. Deployable(versions[i + 1]) /\ i + 1 <= j + 1
    BY <1>2 DEF Deployable, mustCleanUp
  <2> QED
    BY <1>2, <2>1 DEF IndInv, VersionsGuarded
<1>4. PassOK'
  BY <1>1, <1>2
     DEF IndInv, PassOK, PassTypes, CurrentIsStored, FinalizerFirst, CleanedUp,
         ClearsWhatItRead, PassGuarded, Deployable, mustCleanUp
<1>5. queue' \in [key: BOOLEAN, timer: BOOLEAN]
  BY DEF SyncCache, IndInv, WorldOK
<1> QED
  BY <1>1, <1>2, <1>3, <1>4, <1>5 DEF IndInv, DeployedGuarded, WorldOK

(* Timers, the Deployment, the webhook's Secret and the garbage collector  *)
(* touch neither the CR nor the pass.                                      *)
LEMMA ClusterOK ==
    ASSUME IndInv,
           \/ TimerFires \/ DeploymentBecomesAvailable
           \/ WebhookSecretAppears \/ KubernetesCollects \/ CalmDown \/ UNCHANGED vars
    PROVE  IndInv'
<1>1. UNCHANGED <<versions, pc, pass, unguarded>> /\ deployed' \subseteq deployed
  BY DEF TimerFires, DeploymentBecomesAvailable, WebhookSecretAppears, KubernetesCollects,
         CalmDown, vars
<1>2. VersionsOK' /\ VersionsGuarded' /\ Stored' = Stored
  BY <1>1, VersionsKept DEF IndInv
<1>3. PassOK'
  BY <1>1, PassKept DEF IndInv
<1>4. DeployedGuarded'
  BY <1>1, <1>2 DEF IndInv, DeployedGuarded
<1>5. world' \in [available: BOOLEAN, certs: BOOLEAN]
  <2>1. \/ world' = world \/ world' = [world EXCEPT !.available = TRUE]
        \/ world' = [world EXCEPT !.certs = TRUE] \/ world' = [world EXCEPT !.available = FALSE]
    BY DEF TimerFires, DeploymentBecomesAvailable, WebhookSecretAppears, KubernetesCollects,
           CalmDown, vars
  <2> QED
    BY <2>1 DEF IndInv, WorldOK
<1>6. queue' \in [key: BOOLEAN, timer: BOOLEAN]
  <2>1. \/ queue' = queue \/ queue' = [queue EXCEPT !.key = TRUE]
        \/ queue' = [key |-> TRUE, timer |-> FALSE]
    BY DEF TimerFires, DeploymentBecomesAvailable, WebhookSecretAppears, KubernetesCollects,
           CalmDown, vars
  <2>2. [key |-> TRUE, timer |-> FALSE] \in [key: BOOLEAN, timer: BOOLEAN]
    OBVIOUS
  <2>3. /\ queue \in [key: BOOLEAN, timer: BOOLEAN]
        /\ [queue EXCEPT !.key = TRUE] \in [key: BOOLEAN, timer: BOOLEAN]
    BY DEF IndInv, WorldOK
  <2> QED
    BY <2>1, <2>2, <2>3
<1>7. edits' \in 0..(MaxEdits + 1)
  BY BoundAssumption
     DEF IndInv, WorldOK, TimerFires, DeploymentBecomesAvailable, WebhookSecretAppears,
         KubernetesCollects, CalmDown, vars
<1>8. WorldOK'
  BY <1>1, <1>5, <1>6, <1>7 DEF IndInv, WorldOK
<1> QED
  BY <1>2, <1>3, <1>4, <1>8 DEF IndInv

(* Users change what the CR asks for, never its finalizer: a CR that has   *)
(* one stays.                                                              *)
LEMMA UserActsOK ==
    ASSUME IndInv, NEW step \in {"Managed", "Removed", "delete"}, UserActs(step)
    PROVE  IndInv'
<1>1. /\ UNCHANGED <<deployed, world, queue, pc, unguarded>> /\ edits' = edits + 1
      /\ edits < MaxEdits /\ Len(versions) <= MaxLag /\ Stored.exists
      /\ pass' = [pass EXCEPT !.current = FALSE] /\ pass \in Passes
  BY DEF UserActs, IndInv, PassOK, PassTypes
<1>2. Stored \in CRs
  BY EndsTyped DEF IndInv
<1>3. PICK cr \in CRs : Write(cr) /\ cr.finalizer = Stored.finalizer
                        /\ (cr.finalizer => cr.exists)
  <2>1. CASE step = "delete" /\ Stored.finalizer
    <3>1. Write([Stored EXCEPT !.deleting = TRUE])
      BY <2>1 DEF UserActs
    <3>2. /\ [Stored EXCEPT !.deleting = TRUE] \in CRs
          /\ [Stored EXCEPT !.deleting = TRUE].finalizer = Stored.finalizer
          /\ [Stored EXCEPT !.deleting = TRUE].exists
      BY <1>1, <1>2 DEF CRs
    <3> QED
      BY <3>1, <3>2
  <2>2. CASE step = "delete" /\ ~Stored.finalizer
    <3>1. Write(NoCR)
      BY <2>2 DEF UserActs
    <3>2. Stored.finalizer = FALSE /\ NoCR.finalizer = FALSE
      BY <1>2, <2>2, ConstantTypes DEF CRs
    <3> QED
      BY <3>1, <3>2, ConstantTypes
  <2>3. CASE step # "delete"
    <3>1. Write([Stored EXCEPT !.state = step])
      BY <2>3 DEF UserActs
    <3>2. /\ [Stored EXCEPT !.state = step] \in CRs
          /\ [Stored EXCEPT !.state = step].finalizer = Stored.finalizer
          /\ [Stored EXCEPT !.state = step].exists
      BY <1>1, <1>2, <2>3 DEF CRs
    <3> QED
      BY <3>1, <3>2
  <2> QED
    BY <2>1, <2>2, <2>3
<1>4. /\ VersionsOK' /\ Stored' = cr
      /\ \A i \in 1..Len(versions') :
            \/ i \in 1..Len(versions) /\ versions'[i] = versions[i]
            \/ i = Len(versions') /\ versions'[i] = cr
  BY <1>1, <1>3, WriteOK DEF IndInv
<1>5. VersionsGuarded'
  <2> SUFFICES ASSUME ~unguarded, NEW i \in 1..Len(versions'), NEW j \in 1..Len(versions'),
                      i <= j, Deployable(versions[i])'
               PROVE  versions'[j].finalizer
    BY <1>1 DEF VersionsGuarded
  <2>1. Len(versions) \in 1..Len(versions) /\ Stored = versions[Len(versions)]
    BY DEF IndInv, VersionsOK, Stored
  <2>2. CASE i \in 1..Len(versions) /\ versions'[i] = versions[i]
    BY <1>3, <1>4, <2>1, <2>2 DEF IndInv, VersionsGuarded, Deployable, mustCleanUp
  <2>3. CASE i = Len(versions') /\ versions'[i] = cr
    BY <1>4, <2>3 DEF Deployable
  <2> QED
    BY <1>4, <2>2, <2>3
<1>6. /\ pass' \in Passes /\ ~pass'.current /\ pass'.cr = pass.cr
      /\ pass'.cleanup = pass.cleanup /\ pass'.found = pass.found
  BY <1>1 DEF Passes
<1>7. PassOK'
  BY <1>1, <1>3, <1>4, <1>6
     DEF IndInv, PassOK, PassTypes, CurrentIsStored, FinalizerFirst, CleanedUp,
         ClearsWhatItRead, PassGuarded, Deployable, mustCleanUp
<1>8. edits' \in 0..(MaxEdits + 1)
  BY <1>1, BoundAssumption DEF IndInv, WorldOK
<1> QED
  BY <1>1, <1>3, <1>4, <1>5, <1>7, <1>8 DEF IndInv, DeployedGuarded, WorldOK
--------------------------------------------------------------------------------
(* Every step of the controller, the cluster and the users preserves it.   *)
LEMMA NextOK == IndInv /\ [Next]_vars => IndInv'
BY BeginOK, EnsureFinalizerOK, RenderFailsOK, CleanupOK, DeployOK, CheckReadinessOK,
   UpdateStatusOK, ClearFinalizerOK, CrashOK, SyncCacheOK, ClusterOK, UserActsOK
   DEF Next, PassStep

(* The invariant gives the types and the meaning of a CR that is gone.     *)
LEMMA IndInvImplies == IndInv => TypeOK /\ GoneMeansCleaned
<1> SUFFICES ASSUME IndInv PROVE TypeOK /\ GoneMeansCleaned
  OBVIOUS
<1>1. TypeOK
  BY DEF IndInv, TypeOK, VersionsOK, WorldOK, PassOK, PassTypes, CleanedUp, Passes
<1>2. GoneMeansCleaned
  BY EndsTyped DEF IndInv, GoneMeansCleaned, DeployedGuarded
<1> QED
  BY <1>1, <1>2

(* The inductive invariant holds in every reachable state of the module.   *)
LEMMA IndInvInvariant == Spec => []IndInv
BY InitOK, NextOK, PTL DEF Spec

(* Every reachable state of the module controller is well typed, a CR that *)
(* is gone stays gone, and no pass clears a finalizer it did not find.     *)
THEOREM TypeCorrect == Spec => []TypeOK
BY IndInvInvariant, IndInvImplies, PTL

(* The finalizer of the OGX CR (ensureFinalizer, clearFinalizer) outlives  *)
(* everything a pass deploys: whatever the cache lags, fails or crashes, a *)
(* CR that is gone left no manifest behind, unless a removing pass cleared *)
(* the finalizer of a CR that was Managed again.                           *)
THEOREM GoneGuarded == Spec => []GoneMeansCleaned
BY IndInvInvariant, IndInvImplies, PTL
================================================================================
