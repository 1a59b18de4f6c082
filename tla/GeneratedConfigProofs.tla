-------------------------- MODULE GeneratedConfigProofs --------------------------
(***************************************************************************)
(* For any number of contents, any retention and history: each generated   *)
(* ConfigMap exists once, and cleanup that saw the workload as it was      *)
(* deletes nothing that is in use, whatever happens between its reads and  *)
(* its last Delete.                                                        *)
(***************************************************************************)
EXTENDS GeneratedConfig, TLAPS

----------------------------------------------------------------------------
(* Sequences without repetitions.                                          *)

(* RemoveAt closes the gap it makes.                                       *)
LEMMA RemoveAtIs ==
    ASSUME NEW S, NEW s \in Seq(S), NEW i \in DOMAIN s
    PROVE  /\ RemoveAt(s, i) \in Seq(S) /\ Len(RemoveAt(s, i)) = Len(s) - 1
           /\ \A k \in 1..(Len(s) - 1) : RemoveAt(s, i)[k] = IF k < i THEN s[k] ELSE s[k + 1]
<1> DEFINE front == SubSeq(s, 1, i - 1)
           back == SubSeq(s, i + 1, Len(s))
<1>1. i \in 1..Len(s) /\ Len(s) \in Nat
  OBVIOUS
<1>2. front \in Seq(S) /\ Len(front) = i - 1 /\ \A k \in 1..(i - 1) : front[k] = s[k]
  BY <1>1
<1>3. back \in Seq(S) /\ Len(back) = Len(s) - i /\ \A k \in 1..(Len(s) - i) : back[k] = s[k + i]
  BY <1>1
<1> HIDE DEF front, back
<1>4. front \o back \in Seq(S) /\ Len(front \o back) = Len(s) - 1
  BY <1>1, <1>2, <1>3
<1>5. ASSUME NEW k \in 1..(Len(s) - 1)
      PROVE  (front \o back)[k] = IF k < i THEN s[k] ELSE s[k + 1]
  <2>1. CASE k < i
    BY <1>1, <1>2, <1>3, <2>1
  <2>2. CASE k >= i
    <3>1. k - (i - 1) \in 1..(Len(s) - i) /\ k - (i - 1) + i = k + 1
      BY <1>1, <2>2
    <3>2. (front \o back)[k] = back[k - (i - 1)]
      BY <1>1, <1>2, <1>3, <2>2
    <3> QED
      BY <1>1, <1>3, <2>2, <3>1, <3>2
  <2>3. k < i \/ k >= i
    BY <1>1
  <2> QED
    BY <2>1, <2>2, <2>3
<1> QED
  BY <1>4, <1>5 DEF RemoveAt, front, back

(* Without drops one element of a sequence of different ones.              *)
LEMMA WithoutIs ==
    ASSUME NEW S, NEW s \in Seq(S), IsInjective(s), NEW c
    PROVE  /\ Without(s, c) \in Seq(S) /\ IsInjective(Without(s, c))
           /\ Range(Without(s, c)) = Range(s) \ {c}
<1>1. CASE c \notin Range(s)
  BY <1>1 DEF Without
<1>2. CASE c \in Range(s)
  <2> DEFINE i == CHOOSE j \in DOMAIN s : s[j] = c
             t == RemoveAt(s, i)
  <2>1. i \in DOMAIN s /\ s[i] = c
    BY <1>2 DEF Range
  <2> HIDE DEF i
  <2>2. /\ t \in Seq(S) /\ Len(t) = Len(s) - 1
        /\ \A k \in 1..(Len(s) - 1) : t[k] = IF k < i THEN s[k] ELSE s[k + 1]
    BY <2>1, RemoveAtIs
  <2> HIDE DEF t
  <2>3. /\ Len(s) \in Nat /\ i \in 1..Len(s) /\ DOMAIN s = 1..Len(s)
        /\ DOMAIN t = 1..(Len(s) - 1)
    BY <2>1, <2>2
  <2>4. IsInjective(t)
    <3> SUFFICES ASSUME NEW k \in 1..(Len(s) - 1), NEW l \in 1..(Len(s) - 1), t[k] = t[l]
                 PROVE  k = l
      BY <2>3 DEF IsInjective
    <3> DEFINE K == IF k < i THEN k ELSE k + 1
               L == IF l < i THEN l ELSE l + 1
    <3>1. t[k] = s[K] /\ t[l] = s[L] /\ K \in DOMAIN s /\ L \in DOMAIN s
      BY <2>2, <2>3
    <3>2. K = L
      BY <3>1 DEF IsInjective
    <3> QED
      BY <2>3, <3>2
  <2>5. Range(t) \subseteq Range(s) \ {c}
    <3> SUFFICES ASSUME NEW k \in 1..(Len(s) - 1) PROVE t[k] \in Range(s) \ {c}
      BY <2>3 DEF Range
    <3> DEFINE K == IF k < i THEN k ELSE k + 1
    <3>1. t[k] = s[K] /\ K \in DOMAIN s /\ K # i
      BY <2>2, <2>3
    <3> HIDE DEF K
    <3> QED
      BY <2>1, <3>1 DEF Range, IsInjective
  <2>6. Range(s) \ {c} \subseteq Range(t)
    <3> SUFFICES ASSUME NEW j \in DOMAIN s, s[j] # c PROVE s[j] \in Range(t)
      BY DEF Range
    <3> DEFINE k == IF j < i THEN j ELSE j - 1
    <3>1. k \in 1..(Len(s) - 1) /\ t[k] = s[j]
      BY <2>1, <2>2, <2>3
    <3> QED
      BY <2>3, <3>1 DEF Range
  <2>7. Without(s, c) = t
    BY <1>2 DEF Without, t, i
  <2> QED
    BY <2>2, <2>4, <2>5, <2>6, <2>7
<1> QED
  BY <1>1, <1>2

(* Appending a new element keeps the elements different.                   *)
LEMMA AppendIs ==
    ASSUME NEW S, NEW s \in Seq(S), IsInjective(s), NEW c \in S, c \notin Range(s)
    PROVE  /\ Append(s, c) \in Seq(S) /\ IsInjective(Append(s, c))
           /\ Range(Append(s, c)) = Range(s) \cup {c}
<1> DEFINE t == Append(s, c)
<1>1. /\ t \in Seq(S) /\ Len(s) \in Nat /\ DOMAIN s = 1..Len(s) /\ DOMAIN t = 1..(Len(s) + 1)
      /\ t[Len(s) + 1] = c /\ \A k \in DOMAIN s : t[k] = s[k]
  OBVIOUS
<1> HIDE DEF t
<1>2. IsInjective(t)
  BY <1>1 DEF IsInjective, Range
<1>3. Range(t) \subseteq Range(s) \cup {c}
  BY <1>1 DEF Range
<1>4. Range(s) \cup {c} \subseteq Range(t)
  BY <1>1 DEF Range
<1> QED
  BY <1>1, <1>2, <1>3, <1>4 DEF t

(* A suffix has some of the elements, the last one included.               *)
LEMMA SuffixIs ==
    ASSUME NEW S, NEW s \in Seq(S), IsInjective(s), NEW n \in Nat, n < Len(s)
    PROVE  LET t == SubSeq(s, Len(s) - n, Len(s))
           IN  /\ t \in Seq(S) /\ IsInjective(t)
               /\ Range(t) \subseteq Range(s) /\ Last(s) \in Range(t)
<1> DEFINE t == SubSeq(s, Len(s) - n, Len(s))
<1>1. /\ t \in Seq(S) /\ Len(t) = n + 1 /\ DOMAIN t = 1..(n + 1)
      /\ Len(s) \in Nat /\ DOMAIN s = 1..Len(s)
      /\ \A k \in 1..(n + 1) : t[k] = s[Len(s) - n + k - 1]
  OBVIOUS
<1> HIDE DEF t
<1>2. \A k \in 1..(n + 1) : Len(s) - n + k - 1 \in DOMAIN s
  BY <1>1
<1>3. IsInjective(t)
  <2> SUFFICES ASSUME NEW k \in 1..(n + 1), NEW l \in 1..(n + 1), t[k] = t[l]
               PROVE  k = l
    BY <1>1 DEF IsInjective
  <2>1. Len(s) - n + k - 1 = Len(s) - n + l - 1
    BY <1>1, <1>2 DEF IsInjective
  <2> QED
    BY <1>1, <2>1
<1>4. Range(t) \subseteq Range(s)
  BY <1>1, <1>2 DEF Range
<1>5. t[n + 1] = s[Len(s)]
  BY <1>1
<1>6. Last(s) \in Range(t)
  BY <1>1, <1>5 DEF Range, Last
<1> QED
  BY <1>1, <1>3, <1>4, <1>6 DEF t

----------------------------------------------------------------------------
(* The inductive invariant.  Running Pods belong to a ReplicaSet that is   *)
(* still there; and what a pass is about to delete, having seen the workload*)
(* as it was, is neither what it wants nor what the Deployment, which only *)
(* the pass itself changes, or a ReplicaSet has, so that rollouts cannot   *)
(* lead to it.                                                             *)

PodsOwned == running \subseteq Range(rs.api)
Spared == pc = "delete" /\ fresh => doomed \cap (Range(rs.api) \cup {want, dep.api}) = {}

IndInv == TypeOK /\ PodsOwned /\ Spared

(* The empty sequence is one of different elements.                        *)
LEMMA EmptyIs ==
    ASSUME NEW S
    PROVE  <<>> \in Seq(S) /\ IsInjective(<<>>)
BY DEF IsInjective

(* Before the first pass there is nothing to delete and nothing that runs. *)
LEMMA InitOK == Init => IndInv
<1> SUFFICES ASSUME Init PROVE IndInv
  OBVIOUS
<1>1. cms = [api |-> <<>>, seen |-> <<>>] /\ rs = [api |-> <<>>, seen |-> <<>>]
  BY DEF Init, Both
<1>2. cms \in [api: Seq(Contents), seen: Seq(Contents)] /\ rs \in [api: Seq(Wanted), seen: Seq(Wanted)]
  BY <1>1, EmptyIs
<1>3. /\ IsInjective(cms.api) /\ IsInjective(cms.seen)
      /\ IsInjective(rs.api) /\ IsInjective(rs.seen)
  BY <1>1, EmptyIs
<1>4. spec \in [api: Wanted, seen: Wanted]
  BY DEF Init, Both
<1>5. dep \in [api: Wanted \cup {Absent}, seen: Wanted \cup {Absent}]
  BY DEF Init, Both
<1>6. edits \in 0..(MaxEdits + 1)
  BY NumberAssumption DEF Init
<1> QED
  BY <1>2, <1>3, <1>4, <1>5, <1>6 DEF Init, Wanted, TypeOK, PodsOwned, Spared, IndInv

(* The steps of a pass.                                                    *)
LEMMA BeginOK == ASSUME IndInv, Begin PROVE IndInv'
BY DEF Begin, IndInv, TypeOK, PodsOwned, Spared, workload, cleanup

(* ensureGeneratedConfigMap creates no ConfigMap twice.                    *)
LEMMA EnsureOK == ASSUME IndInv, ensureGeneratedConfigMap PROVE IndInv'
<1> DEFINE old == cms.api
           new == IF want \in Range(cms.seen) \/ want \in Range(old) THEN old ELSE Append(old, want)
<1>1. want \in Contents /\ old \in Seq(Contents) /\ IsInjective(old)
  BY DEF ensureGeneratedConfigMap, IndInv, TypeOK, Wanted
<1>2. new \in Seq(Contents) /\ IsInjective(new)
  BY <1>1, AppendIs
<1>3. cms'.api = new /\ cms'.seen = cms.seen /\ cms' \in [api: Seq(Contents), seen: Seq(Contents)]
  BY <1>2 DEF ensureGeneratedConfigMap, IndInv, TypeOK
<1> HIDE DEF new, old
<1> QED
  BY <1>2, <1>3 DEF ensureGeneratedConfigMap, IndInv, TypeOK, PodsOwned, Spared, workload, cleanup

(* getGeneratedConfigMapHashByName goes on with the content it was given.  *)
LEMMA HashOK == ASSUME IndInv, getGeneratedConfigMapHashByName PROVE IndInv'
BY DEF getGeneratedConfigMapHashByName, IndInv, TypeOK, PodsOwned, Spared,
       workload, cleanup, Wanted

(* ApplyDeployment, before anything is doomed, may change the template.    *)
LEMMA ApplyOK == ASSUME IndInv, ApplyDeployment PROVE IndInv'
<1>1. dep' \in [api: Wanted \cup {Absent}, seen: Wanted \cup {Absent}] /\ owned' \in BOOLEAN
  BY DEF ApplyDeployment, hasStaleUserConfigVolume, IndInv, TypeOK
<1>2. pc' \in {"cleanup", "status"} /\ (pc' = "cleanup" => want \in Contents)
  BY DEF ApplyDeployment
<1> QED
  BY <1>1, <1>2 DEF ApplyDeployment, IndInv, TypeOK, PodsOwned, Spared, workload, cleanup

(* Cleanup takes what is listed and not referred to.                       *)
LEMMA DeletionsAre ==
    ASSUME NEW failing
    PROVE  Deletions(failing) \subseteq Range(cms.seen) \ referencedRuntimeConfigMapNames
BY DEF Deletions, Range

(* Cleanup on current caches dooms nothing a ReplicaSet has, nor what it   *)
(* wants.                                                                  *)
LEMMA CleanupOK == ASSUME IndInv, cleanupOldGeneratedConfigMaps PROVE IndInv'
<1>1. PICK failing : doomed' = Deletions(failing)
  BY DEF cleanupOldGeneratedConfigMaps
<1>2. doomed' \subseteq Range(cms.seen) \ referencedRuntimeConfigMapNames
  BY <1>1, DeletionsAre
<1>3. Range(cms.seen) \subseteq Contents
  BY DEF Range, IndInv, TypeOK
<1>4. WorkloadSeen => doomed' \cap (Range(rs.api) \cup {want, dep.api}) = {}
  BY <1>2, <1>3, NoneAssumption DEF WorkloadSeen, referencedRuntimeConfigMapNames
<1>5. Spared'
  BY <1>4 DEF Spared, cleanupOldGeneratedConfigMaps, workload
<1>6. fresh' \in BOOLEAN /\ doomed' \subseteq Contents
  BY <1>2, <1>3 DEF cleanupOldGeneratedConfigMaps
<1> QED
  BY <1>5, <1>6 DEF cleanupOldGeneratedConfigMaps, IndInv, TypeOK, PodsOwned, workload

(* A change of the ConfigMaps that leaves a list of them without           *)
(* repetitions.                                                            *)
LEMMA WithoutOne ==
    ASSUME IndInv, NEW c, cms' = [cms EXCEPT !.api = Without(@, c)]
    PROVE  /\ cms' \in [api: Seq(Contents), seen: Seq(Contents)]
           /\ IsInjective(cms'.api) /\ IsInjective(cms'.seen)
           /\ Range(cms'.api) = Range(cms.api) \ {c}
<1>1. /\ Without(cms.api, c) \in Seq(Contents) /\ IsInjective(Without(cms.api, c))
      /\ Range(Without(cms.api, c)) = Range(cms.api) \ {c}
  BY WithoutIs DEF IndInv, TypeOK
<1>2. cms'.api = Without(cms.api, c) /\ cms'.seen = cms.seen
  BY DEF IndInv, TypeOK
<1>3. cms' \in [api: Seq(Contents), seen: Seq(Contents)]
  BY <1>1 DEF IndInv, TypeOK
<1> QED
  BY <1>1, <1>2, <1>3 DEF IndInv, TypeOK

(* Each Delete leaves the rest of what is doomed as harmless as before.    *)
LEMMA DeleteOK == ASSUME IndInv, DeleteOld PROVE IndInv'
<1>1. PICK c \in doomed : cms' = [cms EXCEPT !.api = Without(@, c)] /\ doomed' = doomed \ {c}
  BY DEF DeleteOld
<1>2. /\ cms' \in [api: Seq(Contents), seen: Seq(Contents)]
      /\ IsInjective(cms'.api) /\ IsInjective(cms'.seen)
  BY <1>1, WithoutOne
<1>3. Spared'
  BY <1>1 DEF DeleteOld, IndInv, Spared, workload
<1>4. fresh' \in BOOLEAN /\ doomed' \subseteq Contents
  BY <1>1 DEF DeleteOld, IndInv, TypeOK
<1> QED
  BY <1>2, <1>3, <1>4 DEF DeleteOld, IndInv, TypeOK, PodsOwned, workload

(* Writing the status ends the pass.                                       *)
LEMMA StatusOK == ASSUME IndInv, WriteStatus PROVE IndInv'
BY DEF WriteStatus, IndInv, TypeOK, PodsOwned, Spared, workload, cleanup, Wanted

(* A pass that ends early forgets what it was about to delete.             *)
LEMMA PassEndsOK == ASSUME IndInv, PassEnds PROVE IndInv'
BY DEF PassEnds, IndInv, TypeOK, PodsOwned, Spared, workload, Wanted

(* The informers.                                                          *)
LEMMA SyncOK == ASSUME IndInv, SyncSpec \/ SyncConfigMaps \/ SyncWorkload PROVE IndInv'
<1>1. CASE SyncSpec
  <2>1. spec' \in [api: Wanted, seen: Wanted]
    BY <1>1 DEF SyncSpec, Both, IndInv, TypeOK
  <2> QED
    BY <1>1, <2>1 DEF SyncSpec, IndInv, TypeOK, PodsOwned, Spared, workload, cleanup
<1>2. CASE SyncConfigMaps
  <2>1. cms'.api = cms.api /\ cms'.seen = cms.api
    BY <1>2 DEF SyncConfigMaps, Both
  <2>2. cms' \in [api: Seq(Contents), seen: Seq(Contents)]
    BY <1>2 DEF SyncConfigMaps, Both, IndInv, TypeOK
  <2> QED
    BY <1>2, <2>1, <2>2 DEF SyncConfigMaps, IndInv, TypeOK, PodsOwned, Spared,
                            workload, cleanup
<1>3. CASE SyncWorkload
  <2>1. /\ dep'.api = dep.api /\ rs'.api = rs.api
        /\ dep' \in [api: Wanted \cup {Absent}, seen: Wanted \cup {Absent}]
        /\ rs' \in [api: Seq(Wanted), seen: Seq(Wanted)] /\ IsInjective(rs'.seen)
    <3>1. CASE dep' = Both(dep.api) /\ UNCHANGED rs
      BY <3>1 DEF Both, IndInv, TypeOK
    <3>2. CASE rs' = Both(rs.api) /\ UNCHANGED dep
      BY <3>2 DEF Both, IndInv, TypeOK
    <3> QED
      BY <1>3, <3>1, <3>2 DEF SyncWorkload
  <2> QED
    BY <1>3, <2>1 DEF SyncWorkload, IndInv, TypeOK, PodsOwned, Spared, cleanup
<1> QED
  BY <1>1, <1>2, <1>3

(* The Deployment controller.                                              *)
LEMMA RollOutOK == ASSUME IndInv, RollOut PROVE IndInv'
<1> DEFINE old == Without(rs.api, dep.api)
           new == Append(old, dep.api)
<1>1. dep.api \in Wanted
  BY DEF RollOut, IndInv, TypeOK
<1>2. old \in Seq(Wanted) /\ IsInjective(old) /\ Range(old) = Range(rs.api) \ {dep.api}
  BY WithoutIs DEF IndInv, TypeOK
<1>3. new \in Seq(Wanted) /\ IsInjective(new) /\ Range(new) = Range(rs.api) \cup {dep.api}
  BY <1>1, <1>2, AppendIs
<1>4. rs'.api = new /\ rs'.seen = rs.seen /\ rs' \in [api: Seq(Wanted), seen: Seq(Wanted)]
  BY <1>3 DEF RollOut, IndInv, TypeOK
<1> HIDE DEF new, old
<1>5. PodsOwned' /\ Spared'
  BY <1>3, <1>4 DEF RollOut, IndInv, PodsOwned, Spared, cleanup
<1> QED
  BY <1>3, <1>4, <1>5 DEF RollOut, IndInv, TypeOK, cleanup

(* A Pod is started by a ReplicaSet that is there.                         *)
LEMMA PodStartsOK == ASSUME IndInv, PodStarts PROVE IndInv'
<1>1. PICK c \in Range(rs.api) : /\ running' = running \cup {c}
                                 /\ UNCHANGED <<spec, cms, dep, owned, rs, reported, pc, want,
                                               cleanup, edits>>
  BY DEF PodStarts
<1>2. Range(rs.api) \subseteq Wanted
  BY DEF Range, IndInv, TypeOK
<1> QED
  BY <1>1, <1>2 DEF IndInv, TypeOK, PodsOwned, Spared, cleanup

(* Only Pods of the newest ReplicaSet stay.                                *)
LEMMA OldPodsStopOK == ASSUME IndInv, OldPodsStop PROVE IndInv'
BY DEF OldPodsStop, IndInv, TypeOK, PodsOwned, Spared, cleanup

(* Pruning the history keeps the ReplicaSet whose Pods run.                *)
LEMMA HistoryPrunedOK == ASSUME IndInv, HistoryPruned PROVE IndInv'
<1> DEFINE new == SubSeq(rs.api, Len(rs.api) - HistoryLimit, Len(rs.api))
<1>1. HistoryLimit \in Nat /\ HistoryLimit < Len(rs.api)
  BY NumberAssumption DEF HistoryPruned, IndInv, TypeOK
<1>2. /\ new \in Seq(Wanted) /\ IsInjective(new)
      /\ Range(new) \subseteq Range(rs.api) /\ Last(rs.api) \in Range(new)
  BY <1>1, SuffixIs DEF IndInv, TypeOK
<1>3. rs'.api = new /\ rs'.seen = rs.seen /\ rs' \in [api: Seq(Wanted), seen: Seq(Wanted)]
  BY <1>2 DEF HistoryPruned, IndInv, TypeOK
<1> HIDE DEF new
<1>4. PodsOwned' /\ Spared'
  BY <1>2, <1>3 DEF HistoryPruned, IndInv, PodsOwned, Spared, cleanup
<1> QED
  BY <1>2, <1>3, <1>4 DEF HistoryPruned, IndInv, TypeOK, cleanup

(* Users.                                                                  *)
LEMMA UsersOK == ASSUME IndInv, UserEditsSpec \/ UserDeletesConfigMap \/ CalmDown PROVE IndInv'
<1>1. edits' \in 0..(MaxEdits + 1)
  BY NumberAssumption DEF UserEditsSpec, UserDeletesConfigMap, CalmDown, UserStep, IndInv, TypeOK
<1>2. CASE UserEditsSpec
  <2>1. spec' \in [api: Wanted, seen: Wanted]
    BY <1>2 DEF UserEditsSpec, IndInv, TypeOK
  <2> QED
    BY <1>1, <1>2, <2>1 DEF UserEditsSpec, IndInv, TypeOK, PodsOwned, Spared,
                            workload, cleanup
<1>3. CASE UserDeletesConfigMap
  <2>1. PICK c \in Range(cms.api) : cms' = [cms EXCEPT !.api = Without(@, c)]
    BY <1>3 DEF UserDeletesConfigMap
  <2>2. /\ cms' \in [api: Seq(Contents), seen: Seq(Contents)]
        /\ IsInjective(cms'.api) /\ IsInjective(cms'.seen)
    BY <2>1, WithoutOne
  <2> QED
    BY <1>1, <1>3, <2>2 DEF UserDeletesConfigMap, IndInv, TypeOK, PodsOwned, Spared,
                            workload, cleanup
<1>4. CASE CalmDown
  BY <1>1, <1>4 DEF CalmDown, IndInv, TypeOK, PodsOwned, Spared, workload, cleanup
<1> QED
  BY <1>2, <1>3, <1>4

(* Every step preserves the inductive invariant.                           *)
LEMMA NextOK == IndInv /\ [Next]_vars => IndInv'
<1> SUFFICES ASSUME IndInv, [Next]_vars PROVE IndInv'
  OBVIOUS
<1>1. CASE Begin \/ PassStep \/ PassEnds
  BY <1>1, BeginOK, EnsureOK, HashOK, ApplyOK, CleanupOK, DeleteOK, StatusOK, PassEndsOK
     DEF PassStep
<1>2. CASE SyncSpec \/ SyncConfigMaps \/ SyncWorkload
  BY <1>2, SyncOK
<1>3. CASE Cluster
  BY <1>3, RollOutOK, PodStartsOK, OldPodsStopOK, HistoryPrunedOK DEF Cluster
<1>4. CASE UserEditsSpec \/ UserDeletesConfigMap \/ CalmDown
  BY <1>4, UsersOK
<1>5. CASE UNCHANGED vars
  BY <1>5 DEF vars, IndInv, TypeOK, PodsOwned, Spared
<1> QED
  BY <1>1, <1>2, <1>3, <1>4, <1>5 DEF Next

(* The inductive invariant holds in every reachable state.                 *)
LEMMA Invariance == Spec => []IndInv
BY InitOK, NextOK, PTL DEF Spec

(* Every variable keeps its type: each generated ConfigMap exists once, in *)
(* the cluster and in the cache, through creations, cleanups and deletions *)
(* by users.                                                               *)
THEOREM TypeCorrect == Spec => []TypeOK
<1>1. IndInv => TypeOK
  BY DEF IndInv
<1> QED
  BY <1>1, Invariance, PTL

(* Cleanup that saw the Deployment and its ReplicaSets as they were never  *)
(* deletes a ConfigMap that running Pods have mounted or that the          *)
(* Deployment names, for any number of contents, any retention and any     *)
(* history, although Pods are started and stopped, ReplicaSets made and    *)
(* pruned and the spec edited between the read and each Delete.            *)
THEOREM InUseKept == Spec => InUseConfigKept
<1> DEFINE A == (DeleteOld /\ fresh) =>
                   Range(cms.api) \ Range(cms'.api) \subseteq Contents \ (running \cup {dep.api})
<1>1. ASSUME IndInv, DeleteOld, fresh
      PROVE  Range(cms.api) \ Range(cms'.api) \subseteq Contents \ (running \cup {dep.api})
  <2>1. PICK c \in doomed : cms' = [cms EXCEPT !.api = Without(@, c)]
    BY <1>1 DEF DeleteOld
  <2>2. Range(cms'.api) = Range(cms.api) \ {c}
    BY <1>1, <2>1, WithoutOne
  <2>3. doomed \cap (running \cup {dep.api}) = {} /\ doomed \subseteq Contents
    BY <1>1 DEF DeleteOld, IndInv, TypeOK, PodsOwned, Spared
  <2> QED
    BY <2>2, <2>3
<1>2. IndInv /\ [Next]_vars => [A]_vars
  BY <1>1
<1> QED
  BY <1>2, Invariance, PTL DEF Spec, InUseConfigKept
================================================================================
