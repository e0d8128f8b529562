--------------------------- MODULE ClusterProofs ----------------------------
(***************************************************************************)
(* What holds of every TechnitiumCluster, for any number of replicas, of   *)
(* users' actions and of faults: its types, the credentials its volumes    *)
(* accept, and the one cluster its nodes belong to.                        *)
(***************************************************************************)
EXTENDS Cluster, FiniteSetTheorems, TLAPS

-----------------------------------------------------------------------------
(* Types. *)

\* The values things start with are well-typed.
LEMMA Initially ==
  /\ NoTc \in TechnitiumCluster /\ NoPod \in [ready : BOOLEAN, ip : Numbers, old : BOOLEAN]
  /\ NoVol \in [id : Numbers, dying : BOOLEAN, pw : Numbers, cluster : Numbers, ip : Numbers]
  /\ NoTable \in Table /\ NoSeen \in Seen
  <1>1. 1 \in 1 .. MaxReplicas /\ 0 \in 0 .. MaxReplicas /\ None \in Numbers
    BY ClusterConstants DEF Numbers, None
  <1>2. NoTable \in Table
    BY <1>1 DEF NoTable, NoEntry, Table
  <1>3. [i \in Ordinals |-> NoPod] \in Pods
    BY <1>1 DEF NoPod, Pods
  <1> QED BY <1>1, <1>2, <1>3 DEF NoTc, TechnitiumCluster, NoPod, NoVol, NoSeen, Seen

\* A number that is not in use is found among Ids as long as few are in use.
LEMMA FreshIds ==
  ASSUME NEW used, IsFiniteSet(used), Cardinality(used) < MaxReplicas + 6
  PROVE  Fresh(used) \in Ids /\ Fresh(used) \notin used
  <1>1. IsFiniteSet(Ids) /\ Cardinality(Ids) = MaxReplicas + 6
    <2>1. 1 \in Int /\ MaxReplicas + 6 \in Int /\ 1 <= MaxReplicas + 6 /\ (MaxReplicas + 6) - 1 + 1 = MaxReplicas + 6
      BY ClusterConstants
    <2> QED BY <2>1, FS_Interval DEF Ids
  <1>2. ~(Ids \subseteq used)
    <2>1. SUFFICES ASSUME Ids \subseteq used PROVE FALSE
      OBVIOUS
    <2>2. Cardinality(Ids) <= Cardinality(used)
      BY <2>1, FS_Subset
    <2>3. Cardinality(used) \in Nat
      BY FS_CardinalityType
    <2> QED BY <1>1, <2>2, <2>3, ClusterConstants
  <1>3. \E n \in Ids : n \notin used
    BY <1>2
  <1> QED BY <1>3 DEF Fresh

\* A set of numbers, one per element of a finite set, is no larger than that set.
LEMMA OneEach ==
  ASSUME NEW S, IsFiniteSet(S), NEW f, f = [x \in S |-> f[x]]
  PROVE  IsFiniteSet({f[x] : x \in S}) /\ Cardinality({f[x] : x \in S}) <= Cardinality(S)
  <1>1. f \in Surjection(S, {f[x] : x \in S})
    BY DEF Surjection
  <1> QED BY <1>1, FS_Surjection

\* There are as many nodes as replicas at most, and four kinds of objects.
LEMMA Sizes ==
  /\ IsFiniteSet(Ordinals) /\ Cardinality(Ordinals) = MaxReplicas
  /\ IsFiniteSet(Objects) /\ Cardinality(Objects) = 4
  <1>1. IsFiniteSet(Ordinals) /\ Cardinality(Ordinals) = MaxReplicas
    <2>1. 0 \in Int /\ MaxReplicas - 1 \in Int /\ 0 <= MaxReplicas - 1 /\ (MaxReplicas - 1) - 0 + 1 = MaxReplicas
      BY ClusterConstants
    <2> QED BY <2>1, FS_Interval DEF Ordinals
  <1>2. IsFiniteSet(Objects) /\ Cardinality(Objects) = 4
    <2>1. Objects = ((({"services"} \cup {"secret"}) \cup {"statefulset"}) \cup {"pdb"})
      BY DEF Objects
    <2>2. IsFiniteSet({"services"}) /\ Cardinality({"services"}) = 1
      BY FS_Singleton
    <2>3. /\ IsFiniteSet({"services"} \cup {"secret"})
          /\ Cardinality({"services"} \cup {"secret"}) = 2
      BY <2>2, FS_AddElement
    <2>4. /\ IsFiniteSet(({"services"} \cup {"secret"}) \cup {"statefulset"})
          /\ Cardinality(({"services"} \cup {"secret"}) \cup {"statefulset"}) = 3
      BY <2>3, FS_AddElement
    <2> QED BY <2>1, <2>4, FS_AddElement
  <1> QED BY <1>1, <1>2

\* The fresh numbers of the model: passwords and clusters, uids, volumes, addresses.
LEMMA FreshOfNodes ==
  ASSUME NEW f, f = [i \in Ordinals |-> f[i]]
  PROVE  Fresh({f[i] : i \in Ordinals}) \in Ids
  <1>1. IsFiniteSet({f[i] : i \in Ordinals}) /\ Cardinality({f[i] : i \in Ordinals}) <= MaxReplicas
    BY Sizes, OneEach
  <1>2. Cardinality({f[i] : i \in Ordinals}) \in Nat
    BY <1>1, FS_CardinalityType
  <1> QED BY <1>1, <1>2, FreshIds, ClusterConstants

\* The uid of a new TechnitiumCluster is its own.
LEMMA FreshUid ==
  ASSUME owner \in [Objects -> Numbers \cup {Absent}]
  PROVE  LET used == {owner[o] : o \in Objects} \cup {t.uid}
         IN  Fresh(used) \in Ids /\ Fresh(used) \notin used
  <1> DEFINE owners == {owner[o] : o \in Objects}
  <1>1. IsFiniteSet(owners) /\ Cardinality(owners) <= 4
    BY Sizes, OneEach
  <1>2. Cardinality(owners) \in Nat
    BY <1>1, FS_CardinalityType
  <1> HIDE DEF owners
  <1>3. IsFiniteSet(owners \cup {t.uid}) /\ Cardinality(owners \cup {t.uid}) \in {Cardinality(owners), Cardinality(owners) + 1}
    BY <1>1, FS_AddElement
  <1>4. Cardinality(owners \cup {t.uid}) < MaxReplicas + 6
    BY <1>1, <1>2, <1>3, ClusterConstants
  <1>5. Fresh(owners \cup {t.uid}) \in Ids /\ Fresh(owners \cup {t.uid}) \notin owners \cup {t.uid}
    BY <1>3, <1>4, FreshIds
  <1> QED BY <1>5 DEF owners

\* A number other than three given ones.
LEMMA FreshOfThree ==
  ASSUME NEW a, NEW b, NEW c
  PROVE  /\ Fresh({a}) \in Ids /\ Fresh({a, b}) \in Ids /\ Fresh({a, b} \cup {}) \in Ids
         /\ Fresh({a, b} \cup {c}) \in Ids
  <1>0. 1 \in Ids /\ 2 \in Ids /\ 3 \in Ids /\ 4 \in Ids
    BY ClusterConstants DEF Ids
  <1>1. \E n \in Ids : n \notin {a, b} \cup {c}
    BY <1>0
  <1> QED BY <1>1 DEF Fresh

Reasons == {"ReconcileFailed", "PodDisruptionBudgetConflict", "AdminCredentialsRejected"}

\* markDegraded changes the status only.
LEMMA DegradedKeeps ==
  ASSUME TypeOK, NEW reason \in Reasons, markDegraded(reason)
  PROVE  /\ tc' \in TechnitiumCluster
         /\ tc'.exists = tc.exists /\ tc'.finalizer = tc.finalizer /\ tc'.uid = tc.uid
  BY DEF TypeOK, TechnitiumCluster, Reasons, markDegraded

\* A pass that ends forgets what it read.
LEMMA EndKeeps == EndPass => pc' = "idle" /\ t' \in TechnitiumCluster /\ seen' \in Seen
  BY Initially DEF EndPass

\* The steps that make the objects are well-typed.
LEMMA TypesOfWorkload ==
  ASSUME TypeOK,
         Reconcile \/ AddFinalizer \/ reconcileServices \/ reconcileAdminSecret \/ reconcileStatefulSet
         \/ reconcilePodDisruptionBudget \/ PDBConflict
  PROVE  TypeOK'
  <1> USE DEF kube, nodes, limits, history
  <1>1. CASE Reconcile
    BY <1>1 DEF Reconcile, TypeOK
  <1>2. CASE AddFinalizer
    <2>1. tc' \in TechnitiumCluster
      BY <1>2 DEF AddFinalizer, TypeOK, TechnitiumCluster
    <2>2. t' \in TechnitiumCluster /\ seen' \in Seen /\ pc' \in {"idle", "services"}
      BY <1>2, <2>1, EndKeeps DEF AddFinalizer, TypeOK
    <2> QED BY <1>2, <2>1, <2>2 DEF AddFinalizer, TypeOK
  <1>3. CASE reconcileServices
    <2>1. owner' \in [Objects -> Numbers \cup {Absent}]
      BY <1>3 DEF reconcileServices, Own, TypeOK, TechnitiumCluster
    <2>2. tc' \in TechnitiumCluster
      BY <1>3, DegradedKeeps DEF reconcileServices, Fails, Reasons, TypeOK
    <2>3. t' \in TechnitiumCluster /\ seen' \in Seen /\ pc' \in {"idle", "secret"}
      BY <1>3, EndKeeps DEF reconcileServices, Step, Fails, TypeOK
    <2> QED BY <1>3, <2>1, <2>2, <2>3 DEF reconcileServices, TypeOK
  <1>4. CASE reconcileAdminSecret
    <2>1. owner' \in [Objects -> Numbers \cup {Absent}]
      BY <1>4 DEF reconcileAdminSecret, TypeOK, TechnitiumCluster
    <2>2. Fresh({vol[i].pw : i \in Ordinals}) \in Ids
      <3> DEFINE f == [i \in Ordinals |-> vol[i].pw]
      <3>1. Fresh({f[i] : i \in Ordinals}) \in Ids
        BY FreshOfNodes
      <3>2. {f[i] : i \in Ordinals} = {vol[i].pw : i \in Ordinals}
        OBVIOUS
      <3> QED BY <3>1, <3>2
    <2>3. secret' \in [pw : Numbers, token : Numbers]
      BY <1>4, <2>2 DEF reconcileAdminSecret, TypeOK, Numbers
    <2> QED BY <1>4, <2>1, <2>3 DEF reconcileAdminSecret, Step, TypeOK
  <1>5. CASE reconcileStatefulSet
    <2>1. owner' \in [Objects -> Numbers \cup {Absent}] /\ scale' \in 0 .. MaxReplicas
      BY <1>5 DEF reconcileStatefulSet, Own, TypeOK, TechnitiumCluster
    <2>2. tc' \in TechnitiumCluster
      BY <1>5, DegradedKeeps DEF reconcileStatefulSet, Fails, Reasons, TypeOK
    <2>3. ReadyReplicas \in 0 .. MaxReplicas
      <3>1. {i \in Ordinals : Up(i) /\ ~pods[i].old} \in SUBSET Ordinals
        OBVIOUS
      <3>2. ReadyReplicas <= MaxReplicas /\ ReadyReplicas \in Nat
        BY <3>1, Sizes, FS_Subset, FS_CardinalityType DEF ReadyReplicas
      <3> QED BY <3>2, ClusterConstants
    <2>4. t' \in TechnitiumCluster /\ seen' \in Seen /\ pc' \in {"idle", "pdb"}
      BY <1>5, <2>3, EndKeeps DEF reconcileStatefulSet, Fails, TypeOK, Seen
    <2> QED BY <1>5, <2>1, <2>2, <2>4 DEF reconcileStatefulSet, TypeOK
  <1>6. CASE reconcilePodDisruptionBudget
    <2>1. owner' \in [Objects -> Numbers \cup {Absent}]
      BY <1>6 DEF reconcilePodDisruptionBudget, TypeOK, TechnitiumCluster
    <2> QED BY <1>6, <2>1 DEF reconcilePodDisruptionBudget, Step, TypeOK
  <1>7. CASE PDBConflict
    <2>1. tc' \in TechnitiumCluster
      BY <1>7, DegradedKeeps DEF PDBConflict, Fails, Reasons
    <2> QED BY <1>7, <2>1, EndKeeps DEF PDBConflict, Fails, TypeOK
  <1> QED BY <1>1, <1>2, <1>3, <1>4, <1>5, <1>6, <1>7

\* What the calls leave on the nodes is well-typed.
LEMMA TypesOfCalls ==
  ASSUME TypeOK, NEW i \in Ordinals, NEW ip \in Numbers
  PROVE  /\ InitCluster(ip) => vol' \in Volumes /\ table' \in Table
         /\ SetAddress(i, ip) => vol' \in Volumes
         /\ UpdateNodeIPAddresses(i, ip) => vol' \in Volumes /\ table' \in Table /\ faults' \in 0 .. MaxFaults
         /\ i \in Secondaries /\ InitJoinCluster(i, ip) => vol' \in Volumes /\ table' \in Table
  <1>0. 0 \in Ordinals /\ vol \in Volumes /\ table \in Table
    BY ClusterConstants DEF TypeOK, Ordinals
  <1>1. ASSUME InitCluster(ip) PROVE vol' \in Volumes /\ table' \in Table
    <2>1. Fresh({vol[j].cluster : j \in Ordinals}) \in Numbers
      <3> DEFINE f == [j \in Ordinals |-> vol[j].cluster]
      <3>1. Fresh({f[j] : j \in Ordinals}) \in Ids
        BY FreshOfNodes
      <3>2. {f[j] : j \in Ordinals} = {vol[j].cluster : j \in Ordinals}
        OBVIOUS
      <3> QED BY <3>1, <3>2 DEF Numbers
    <2> QED BY <1>0, <1>1, <2>1, Initially DEF InitCluster, Volumes
  <1>2. ASSUME SetAddress(i, ip) PROVE vol' \in Volumes
    BY <1>0, <1>2 DEF SetAddress, Volumes
  <1>3. ASSUME UpdateNodeIPAddresses(i, ip)
        PROVE  vol' \in Volumes /\ table' \in Table /\ faults' \in 0 .. MaxFaults
    <2>1. vol' \in Volumes
      BY <1>2, <1>3 DEF UpdateNodeIPAddresses
    <2>2. table' \in Table
      BY <1>0, <1>3 DEF UpdateNodeIPAddresses, Table, Enrolled
    <2>3. faults' \in 0 .. MaxFaults
      BY <1>3, ClusterConstants DEF UpdateNodeIPAddresses, TypeOK
    <2> QED BY <2>1, <2>2, <2>3
  <1>4. ASSUME i \in Secondaries, InitJoinCluster(i, ip) PROVE vol' \in Volumes /\ table' \in Table
    BY <1>0, <1>4, ZenonT(40) DEF InitJoinCluster, Volumes, Table
  <1> QED BY <1>1, <1>2, <1>3, <1>4

\* The steps of bootstrapping and clustering are well-typed.
LEMMA TypesOfClustering ==
  ASSUME TypeOK,
         ensureToken \/ resolveClusterPods \/ ClusterPrimary \/ ClusterSecondary \/ Converged \/ updateStatus
  PROVE  TypeOK'
  <1> USE DEF kube, nodes, limits, history
  <1>0. 0 \in Ordinals
    BY ClusterConstants DEF Ordinals
  <1>1. CASE ensureToken
    <2>1. secret' \in [pw : Numbers, token : Numbers]
      BY <1>0, <1>1 DEF ensureToken, TypeOK, Volumes
    <2>2. tc' \in TechnitiumCluster
      BY <1>1, DegradedKeeps DEF ensureToken, Fails, Reasons, TypeOK
    <2>3. t' \in TechnitiumCluster /\ seen' \in Seen /\ pc' \in {"idle", "status", "pods"}
      BY <1>1, EndKeeps DEF ensureToken, Fails, Step, TypeOK, Seen, TechnitiumCluster
    <2> QED BY <1>1, <2>1, <2>2, <2>3 DEF ensureToken, TypeOK
  <1>2. CASE resolveClusterPods
    <2>2. tc' \in TechnitiumCluster
      BY <1>2, DegradedKeeps DEF resolveClusterPods, Fails, Reasons, TypeOK
    <2>3. t' \in TechnitiumCluster /\ seen' \in Seen /\ pc' \in {"idle", "primary", "status"}
      BY <1>2, EndKeeps DEF resolveClusterPods, Fails, TypeOK, Seen
    <2> QED BY <1>2, <2>2, <2>3 DEF resolveClusterPods, TypeOK
  <1>3. CASE ClusterPrimary
    <2>0. seen.pods[0].ip \in Numbers
      BY <1>0 DEF TypeOK, Seen, Pods
    <2>1. vol' \in Volumes /\ table' \in Table /\ faults' \in 0 .. MaxFaults
      BY <1>0, <1>3, <2>0, TypesOfCalls DEF ClusterPrimary, TypeOK
    <2>2. t' \in TechnitiumCluster /\ seen' \in Seen /\ pc' \in {"join", "status"}
      BY <1>3, <2>1 DEF ClusterPrimary, Step, TypeOK, Seen
    <2> QED BY <1>3, <2>1, <2>2 DEF ClusterPrimary, TypeOK
  <1>4. CASE ClusterSecondary
    <2> DEFINE i == seen.next
    <2>0. i \in Secondaries /\ i \in Ordinals /\ i + 1 \in 1 .. MaxReplicas
      BY <1>4, ClusterConstants DEF ClusterSecondary, TypeOK, Seen, TechnitiumCluster, Secondaries, Ordinals
    <2>1. seen.pods[i].ip \in Numbers
      BY <2>0 DEF TypeOK, Seen, Pods
    <2>2. vol' \in Volumes /\ table' \in Table /\ faults' \in 0 .. MaxFaults
      BY <1>4, <2>0, <2>1, TypesOfCalls DEF ClusterSecondary, TypeOK
    <2>3. tc' \in TechnitiumCluster
      BY <1>4, DegradedKeeps DEF ClusterSecondary, Fails, Reasons, TypeOK
    <2>4. t' \in TechnitiumCluster /\ seen' \in Seen /\ pc' \in {"join", "idle"}
      BY <1>4, <2>0, EndKeeps DEF ClusterSecondary, Fails, TypeOK, Seen
    <2> QED BY <1>4, <2>2, <2>3, <2>4 DEF ClusterSecondary, TypeOK
  <1>5. CASE Converged
    <2>1. seen' \in Seen
      BY <1>5 DEF Converged, TypeOK, Seen
    <2> QED BY <1>5, <2>1 DEF Converged, TypeOK
  <1>6. CASE updateStatus
    <2>1. tc' \in TechnitiumCluster
      BY <1>6 DEF updateStatus, TypeOK, TechnitiumCluster
    <2> QED BY <1>6, <2>1, EndKeeps DEF updateStatus, TypeOK
  <1> QED BY <1>1, <1>2, <1>3, <1>4, <1>5, <1>6

\* The steps of finalizeCluster, and a pass cut short, are well-typed.
LEMMA TypesOfDeletion ==
  ASSUME TypeOK,
         teardownClusterState \/ RemoveSecondary \/ DeletePrimaryCluster
         \/ reconcileAdminSecretRetention \/ reconcilePVCRetention \/ RemoveFinalizer \/ PassFails
  PROVE  TypeOK'
  <1> USE DEF kube, nodes, limits, history
  <1>0. None \in Numbers
    BY DEF Numbers
  <1>1. CASE teardownClusterState
    <2>1. seen' \in Seen /\ pc' \in {"remove", "release"} /\ t' = t
      BY <1>1 DEF teardownClusterState, Step, TypeOK, Seen
    <2> QED BY <1>1, <2>1 DEF teardownClusterState, TypeOK
  <1>2. CASE reconcileAdminSecretRetention
    <2>1. owner' \in [Objects -> Numbers \cup {Absent}]
      BY <1>0, <1>2 DEF reconcileAdminSecretRetention, TypeOK
    <2> QED BY <1>2, <2>1 DEF reconcileAdminSecretRetention, Step, TypeOK
  <1>3. CASE reconcilePVCRetention
    <2>1. ASSUME NEW claims, Wipe(claims) PROVE vol' \in Volumes /\ wiped' \in BOOLEAN
      <3>1. vol' \in Volumes
        BY <2>1, ZenonT(30) DEF Wipe, TypeOK, Volumes
      <3> QED BY <2>1, <3>1 DEF Wipe, TypeOK
    <2>2. vol' \in Volumes /\ wiped' \in BOOLEAN /\ faults' \in 0 .. MaxFaults
      BY <1>3, <2>1, ClusterConstants DEF reconcilePVCRetention, TypeOK
    <2>3. t' \in TechnitiumCluster /\ seen' \in Seen /\ pc' \in {"idle", "drop"}
      BY <1>3, EndKeeps DEF reconcilePVCRetention, Step, TypeOK
    <2> QED BY <1>3, <2>2, <2>3 DEF reconcilePVCRetention, TypeOK
  <1>4. CASE RemoveFinalizer
    BY <1>4, EndKeeps, Initially DEF RemoveFinalizer, TypeOK
  <1>5. CASE PassFails
    <2>1. tc' \in TechnitiumCluster
      BY <1>5, DegradedKeeps DEF PassFails, Reasons, TypeOK
    <2>2. faults' \in 0 .. MaxFaults
      BY <1>5, ClusterConstants DEF PassFails, TypeOK
    <2> QED BY <1>5, <2>1, <2>2, EndKeeps DEF PassFails, TypeOK
  <1>6. CASE RemoveSecondary
    <2>1. seen' \in Seen /\ UNCHANGED <<pc, t>>
      BY <1>6, ClusterConstants DEF RemoveSecondary, TypeOK, Seen
    <2>2. faults' \in 0 .. MaxFaults
      <3>1. UNCHANGED faults \/ (faults < MaxFaults /\ faults' = faults + 1)
        BY <1>6, Zenon DEF RemoveSecondary
      <3>2. faults \in 0 .. MaxFaults
        BY DEF TypeOK
      <3> QED BY <3>1, <3>2, ClusterConstants
    <2>3. ASSUME NEW leaves, NEW dropped, Detach(seen.next, leaves, dropped)
          PROVE  vol' \in Volumes /\ table' \in Table /\ stray' \in BOOLEAN
      <3>1. vol' \in Volumes
        BY <1>0, <2>3 DEF Detach, TypeOK, Volumes
      <3>2. NoEntry \in [listed : BOOLEAN, ip : Numbers, conn : BOOLEAN]
        BY <1>0 DEF NoEntry
      <3>3. table' \in Table
        BY <2>3, <3>2 DEF Detach, TypeOK, Table
      <3>4. stray' \in BOOLEAN
        BY <2>3, Zenon DEF Detach
      <3> QED BY <3>1, <3>3, <3>4
    <2>4. vol' \in Volumes /\ table' \in Table /\ stray' \in BOOLEAN
      <3>1. UNCHANGED <<vol, table, stray>> \/ \E leaves, dropped : Detach(seen.next, leaves, dropped)
        BY <1>6, Zenon DEF RemoveSecondary
      <3> QED BY <2>3, <3>1 DEF TypeOK
    <2> QED BY <1>6, <2>1, <2>2, <2>4 DEF RemoveSecondary, TypeOK
  <1>7. CASE DeletePrimaryCluster
    <2>1. seen' \in Seen /\ pc' = "release" /\ t' = t
      BY <1>7, Initially DEF DeletePrimaryCluster
    <2>2. faults' \in 0 .. MaxFaults
      BY <1>7, ClusterConstants DEF DeletePrimaryCluster, TypeOK
    <2>3. vol' \in Volumes
      BY <1>0, <1>7 DEF DeletePrimaryCluster, TypeOK, Volumes
    <2>4. table' \in Table
      BY <1>7, Initially DEF DeletePrimaryCluster, TypeOK
    <2>5. stray' \in BOOLEAN
      BY <1>7, Zenon DEF DeletePrimaryCluster, TypeOK
    <2> QED BY <1>7, <2>1, <2>2, <2>3, <2>4, <2>5 DEF DeletePrimaryCluster, TypeOK
  <1> QED BY <1>1, <1>2, <1>3, <1>4, <1>5, <1>6, <1>7

\* An edit changes the spec and nothing else.
LEMMA SpecifiedType ==
  ASSUME NEW o \in TechnitiumCluster, NEW s \in Specs
  PROVE  /\ Specified(o, s) \in TechnitiumCluster
         /\ Specified(o, s).exists = o.exists /\ Specified(o, s).finalizer = o.finalizer /\ Specified(o, s).uid = o.uid
  <1>1. /\ s.replicas \in 1 .. MaxReplicas /\ s.retention \in {"Retain", "Delete"}
        /\ s.policy \in {"Delete", "Orphan"} /\ s.budget \in BOOLEAN
    BY ClusterConstants DEF ClusterSpec
  <1> QED BY <1>1 DEF Specified, TechnitiumCluster

\* What Kubernetes, the nodes and the users do is well-typed.
LEMMA TypesOfWorld ==
  ASSUME TypeOK, NodeStep \/ (\E o \in Objects : Collect(o)) \/ Create \/ Edit \/ DeleteSecret
  PROVE  TypeOK'
  <1> USE DEF kube, nodes, pass, limits, history
  <1>0. None \in Numbers /\ MaxReplicas \in Nat \ {0} /\ 0 \in Ordinals
    BY ClusterConstants DEF Numbers, Ordinals
  <1>1. ASSUME NEW o \in Objects, Collect(o) PROVE TypeOK'
    <2>1. owner' \in [Objects -> Numbers \cup {Absent}]
      BY <1>1 DEF Collect, TypeOK
    <2>2. secret' \in [pw : Numbers, token : Numbers]
      BY <1>0, <1>1 DEF Collect, TypeOK, NoSecret
    <2>3. pods' \in Pods /\ scale' \in 0 .. MaxReplicas
      BY <1>0, <1>1 DEF Collect, TypeOK, Pods, Up
    <2> QED BY <1>1, <2>1, <2>2, <2>3 DEF Collect, TypeOK
  <1>2. ASSUME NEW i \in Ordinals, StartPod(i) PROVE TypeOK'
    <2>1. pods' \in Pods
      <3>1. /\ Fresh({vol[i].ip, seen.pods[i].ip} \cup {}) \in Numbers
            /\ Fresh({vol[i].ip, seen.pods[i].ip} \cup {table[i].ip}) \in Numbers
        BY FreshOfThree DEF Numbers
      <3>2. vol[i].ip \in Numbers
        BY DEF TypeOK, Volumes
      <3>3. PICK ip \in Numbers : pods' = [pods EXCEPT ![i] = [ready |-> TRUE, ip |-> ip, old |-> FALSE]]
        BY <1>2, <3>1, <3>2 DEF StartPod
      <3> QED BY <3>3 DEF TypeOK, Pods
    <2>2. Fresh({secret.token}) \in Numbers
      BY FreshOfThree DEF Numbers
    <2>3. secret.pw \in Numbers
      BY DEF TypeOK
    <2>4. [NoVol EXCEPT !.id = Fresh({secret.token}), !.pw = secret.pw]
            \in [id : Numbers, dying : BOOLEAN, pw : Numbers, cluster : Numbers, ip : Numbers]
      BY <1>0, <2>2, <2>3 DEF NoVol
    <2>5. vol' \in Volumes
      BY <1>2, <2>4 DEF StartPod, TypeOK, Volumes
    <2> QED BY <1>2, <2>1, <2>5 DEF StartPod, TypeOK
  <1>3. ASSUME NEW i \in Ordinals, StopPod(i) PROVE TypeOK'
    <2>1. pods' \in Pods
      BY <1>3, Initially DEF StopPod, TypeOK, Pods
    <2>2. faults' \in 0 .. MaxFaults
      BY <1>3, ClusterConstants DEF StopPod, TypeOK
    <2> QED BY <1>3, <2>1, <2>2 DEF StopPod, TypeOK
  <1>4. ASSUME NEW i \in Ordinals, RemoveVolume(i) PROVE TypeOK'
    <2>1. vol' \in Volumes /\ table' \in Table
      BY <1>4, Initially DEF RemoveVolume, TypeOK, Volumes
    <2> QED BY <1>4, <2>1 DEF RemoveVolume, TypeOK
  <1>5. ASSUME NEW i \in Ordinals, Heartbeat(i) PROVE TypeOK'
    <2>1. table' \in Table
      BY <1>5, ZenonT(40) DEF Heartbeat, TypeOK, Table, Secondaries, Up, Member, Initialized, Pods
    <2> QED BY <1>5, <2>1 DEF Heartbeat, TypeOK
  <1>edited. Edited => edits' \in 0 .. MaxEdits
    BY ClusterConstants DEF Edited, TypeOK
  <1>6. CASE Create
    <2>1. Fresh({owner[o] : o \in Objects} \cup {t.uid}) \in Numbers
      BY FreshUid DEF TypeOK, Numbers
    <2>2. tc' \in TechnitiumCluster
      <3> DEFINE new == Fresh({owner[o] : o \in Objects} \cup {t.uid})
      <3>1. PICK s \in Specs : tc' = Specified([NoTc EXCEPT !.exists = TRUE, !.uid = new], s)
        BY <1>6 DEF Create
      <3>2. new \in Numbers
        BY <2>1
      <3> HIDE DEF new
      <3>3. [NoTc EXCEPT !.exists = TRUE, !.uid = new] \in TechnitiumCluster
        BY <3>2, Initially DEF TechnitiumCluster
      <3> QED BY <3>1, <3>3, SpecifiedType
    <2>3. edits' \in 0 .. MaxEdits
      <3>1. Edited
        BY <1>6 DEF Create
      <3> QED BY <1>edited, <3>1
    <2> QED BY <1>6, <2>2, <2>3 DEF Create, Edited, TypeOK
  <1>7. CASE Edit
    <2>0. tc \in TechnitiumCluster
      BY DEF TypeOK
    <2>1. tc' \in TechnitiumCluster
      <3>1. CASE \E s \in Specs : tc' = Specified(tc, s)
        BY <2>0, <3>1, SpecifiedType
      <3>2. CASE tc' \in {[tc EXCEPT !.deleting = TRUE], NoTc}
        BY <2>0, <3>2, Initially DEF TechnitiumCluster
      <3> QED BY <1>7, <3>1, <3>2 DEF Edit
    <2>2. edits' \in 0 .. MaxEdits
      <3>1. Edited
        BY <1>7 DEF Edit
      <3> QED BY <1>edited, <3>1
    <2> QED BY <1>7, <2>1, <2>2 DEF Edit, Edited, TypeOK
  <1>8. CASE DeleteSecret
    <2>1. owner' \in [Objects -> Numbers \cup {Absent}] /\ secret' \in [pw : Numbers, token : Numbers]
      BY <1>0, <1>8 DEF DeleteSecret, NoSecret, TypeOK
    <2>2. edits' \in 0 .. MaxEdits
      BY <1>8, <1>edited DEF DeleteSecret
    <2> QED BY <1>8, <2>1, <2>2 DEF DeleteSecret, Edited, TypeOK
  <1> QED BY <1>1, <1>2, <1>3, <1>4, <1>5, <1>6, <1>7, <1>8 DEF NodeStep

\* Every step is well-typed.
LEMMA TypeStep == ASSUME TypeOK, [Next]_vars PROVE TypeOK'
  <1>1. CASE UNCHANGED vars
    BY <1>1 DEF vars, kube, nodes, pass, limits, history, TypeOK
  <1>2. CASE Next
    BY <1>2, TypesOfWorkload, TypesOfClustering, TypesOfDeletion, TypesOfWorld DEF Next, Operator, Pass
  <1> QED BY <1>1, <1>2

-----------------------------------------------------------------------------
(* The invariant. *)

\* A pass past its finalizer is about a TechnitiumCluster that is still there.
Living ==
  /\ tc.exists => tc.uid \in Ids
  /\ pc = "finalizer" => t.exists
  /\ pc \notin {"idle", "finalizer"} => tc.exists /\ tc.finalizer /\ tc.uid = t.uid

\* No volume is deleted unless its cluster was, under the retention policy Delete.
VolumesKept == ~wiped => \A i \in Ordinals : ~vol[i].dying

\* The garbage collector cannot reap the Secret: its owner is there, finalizer and
\* all, and the finalizer goes only once the Secret has no owner.
SecretSafe ==
  (~lost /\ ~wiped) =>
    /\ owner["secret"] \notin {Absent, None} => tc.exists /\ tc.finalizer /\ owner["secret"] = tc.uid
    /\ (pc = "drop" \/ (pc = "pvcs" /\ t.retention # "Delete")) => owner["secret"] # t.uid

\* A node that runs or belongs to a cluster has a volume.
Mounted == \A i \in Ordinals : (Up(i) \/ Initialized(i)) => vol[i].id # None

IInv == TypeOK /\ Living /\ VolumesKept /\ SecretSafe /\ Mounted /\ CredentialsKept /\ OneCluster

\* The TechnitiumCluster as far as its life goes.
SameLife == tc'.exists = tc.exists /\ tc'.finalizer = tc.finalizer /\ tc'.uid = tc.uid

\* A step that leaves the Secret, its owner and the volumes alone and starts no pod,
\* and in which the pass waits, ends, goes on before the finalizer's removal, or
\* starts.
Quiet ==
  /\ UNCHANGED <<secret, vol, wiped, lost, stray>> /\ owner'["secret"] = owner["secret"] /\ SameLife
  /\ \A i \in Ordinals : Up(i)' => Up(i)
  /\ \/ UNCHANGED <<pc, t>>
     \/ pc' = "idle"
     \/ /\ pc' \notin {"idle", "finalizer", "pvcs", "drop"}
        /\ pc \notin {"idle", "finalizer"} /\ t' = t
     \/ /\ pc = "idle" /\ pc' \in {"finalizer", "services", "teardown"} /\ t' = tc /\ tc.exists
        /\ pc' # "finalizer" => tc.finalizer

\* Such a step keeps the invariant.
LEMMA QuietStep == ASSUME IInv, TypeOK', Quiet PROVE IInv'
  <1>1. Living'
    BY DEF IInv, Quiet, SameLife, Living
  <1>2. SecretSafe'
    BY DEF IInv, Quiet, SameLife, SecretSafe
  <1>3. VolumesKept' /\ CredentialsKept' /\ OneCluster'
    <2>1. UNCHANGED <<secret, vol, wiped, lost, stray>> /\ owner'["secret"] = owner["secret"]
      BY DEF Quiet
    <2> QED BY <2>1 DEF IInv, VolumesKept, CredentialsKept, OneCluster, Initialized, Member
  <1>4. Mounted'
    BY DEF IInv, Quiet, Mounted, Initialized
  <1> QED BY <1>1, <1>2, <1>3, <1>4 DEF IInv

\* The steps that are quiet.
LEMMA QuietSteps ==
  ASSUME IInv,
         Reconcile \/ reconcileServices \/ reconcileStatefulSet \/ reconcilePodDisruptionBudget \/ PDBConflict
         \/ resolveClusterPods \/ Converged \/ updateStatus \/ teardownClusterState \/ PassFails
         \/ (\E i \in Ordinals : StopPod(i) \/ Heartbeat(i)) \/ UNCHANGED vars
  PROVE  Quiet
  <1> USE DEF kube, nodes, limits, history, pass
  <1>0. TypeOK /\ owner \in [Objects -> Numbers \cup {Absent}] /\ tc \in TechnitiumCluster
    BY DEF IInv, TypeOK
  <1>f. ASSUME NEW reason \in Reasons, Fails(reason) PROVE SameLife /\ pc' = "idle"
    BY <1>0, <1>f, DegradedKeeps DEF Fails, EndPass, SameLife
  <1>p. \A i \in Ordinals : Up(i)' => Up(i)
    <2>1. ASSUME NEW i \in Ordinals, NEW j \in Ordinals, StopPod(j) PROVE Up(i)' => Up(i)
      BY <2>1 DEF StopPod, Up, NoPod, IInv, TypeOK, Pods
    <2>2. UNCHANGED pods \/ \E j \in Ordinals : StopPod(j)
      BY DEF Reconcile, reconcileServices, reconcileStatefulSet, reconcilePodDisruptionBudget, PDBConflict,
             resolveClusterPods, Converged, updateStatus, teardownClusterState, PassFails, Heartbeat, vars
    <2> QED BY <2>1, <2>2 DEF Up
  <1>1. CASE Reconcile
    BY <1>1, <1>p DEF Reconcile, Quiet, SameLife
  <1>2. CASE reconcileServices
    <2>1. owner'["secret"] = owner["secret"]
      BY <1>0, <1>2 DEF reconcileServices, Own, Objects
    <2> QED BY <1>2, <1>f, <2>1, <1>p DEF reconcileServices, Step, Quiet, SameLife, Reasons
  <1>3. CASE reconcileStatefulSet
    <2>1. owner'["secret"] = owner["secret"]
      BY <1>0, <1>3 DEF reconcileStatefulSet, Own, Objects
    <2> QED BY <1>3, <1>f, <2>1, <1>p DEF reconcileStatefulSet, Step, Quiet, SameLife, Reasons
  <1>4. CASE reconcilePodDisruptionBudget
    <2>1. owner'["secret"] = owner["secret"]
      BY <1>0, <1>4 DEF reconcilePodDisruptionBudget, Objects
    <2> QED BY <1>4, <2>1, <1>p DEF reconcilePodDisruptionBudget, Step, Quiet, SameLife
  <1>5. CASE PDBConflict \/ resolveClusterPods
    BY <1>5, <1>f, <1>p DEF PDBConflict, resolveClusterPods, Quiet, SameLife, Reasons
  <1>6. CASE Converged
    BY <1>6, <1>p DEF Converged, Quiet, SameLife
  <1>7. CASE updateStatus
    <2>1. SameLife
      BY <1>0, <1>7 DEF updateStatus, SameLife, TechnitiumCluster
    <2> QED BY <1>7, <2>1, <1>p DEF updateStatus, EndPass, Quiet
  <1>8. CASE PassFails
    <2>1. SameLife
      BY <1>0, <1>8, DegradedKeeps DEF PassFails, SameLife, Reasons
    <2> QED BY <1>8, <2>1, <1>p DEF PassFails, EndPass, Quiet
  <1>9. CASE (\E i \in Ordinals : StopPod(i) \/ Heartbeat(i)) \/ UNCHANGED vars
    BY <1>9, <1>p DEF StopPod, Heartbeat, vars, Quiet, SameLife
  <1>10. CASE teardownClusterState
    BY <1>10, <1>p DEF teardownClusterState, Step, Quiet, SameLife
  <1> QED BY <1>1, <1>2, <1>3, <1>4, <1>5, <1>6, <1>7, <1>8, <1>9, <1>10

\* The pass makes or takes over the Secret, mints the token, and lets the Secret
\* and the volumes go or not.
LEMMA InvSecret ==
  ASSUME IInv, TypeOK',
         AddFinalizer \/ reconcileAdminSecret \/ ensureToken \/ reconcileAdminSecretRetention \/ RemoveFinalizer
  PROVE  IInv'
  <1> USE DEF kube, nodes, limits, history
  <1>0. /\ TypeOK /\ owner \in [Objects -> Numbers \cup {Absent}] /\ tc \in TechnitiumCluster
        /\ secret \in [pw : Numbers, token : Numbers] /\ t \in TechnitiumCluster /\ "secret" \in Objects
    BY DEF IInv, TypeOK, Objects
  <1>1. UNCHANGED <<pods, vol, wiped, lost, stray>>
    BY DEF AddFinalizer, reconcileAdminSecret, ensureToken, reconcileAdminSecretRetention, RemoveFinalizer
  <1>2. VolumesKept' /\ OneCluster' /\ Mounted'
    BY <1>1 DEF IInv, VolumesKept, OneCluster, Initialized, Member, Mounted, Up
  <1>3. CASE AddFinalizer
    <2>1. CASE EndPass /\ UNCHANGED tc
      <3>1. Quiet
        BY <1>3, <2>1 DEF AddFinalizer, EndPass, Quiet, SameLife, Up
      <3> QED BY <3>1, QuietStep
    <2>2. CASE Unchanged /\ tc' = [tc EXCEPT !.finalizer = TRUE] /\ t' = tc' /\ pc' = "services"
      <3>1. tc.exists /\ tc'.exists /\ tc'.finalizer /\ tc'.uid = tc.uid
        BY <1>0, <1>3, <2>2 DEF AddFinalizer, IInv, Living, Unchanged, TechnitiumCluster
      <3>2. Living' /\ SecretSafe'
        BY <1>1, <1>3, <2>2, <3>1 DEF AddFinalizer, IInv, Living, SecretSafe
      <3>3. CredentialsKept'
        BY <1>1, <1>3 DEF AddFinalizer, IInv, CredentialsKept
      <3> QED BY <1>2, <3>2, <3>3 DEF IInv
    <2> QED BY <1>3, <2>1, <2>2 DEF AddFinalizer
  <1>4. CASE reconcileAdminSecret
    <2>1. /\ pc = "secret" /\ pc' = "statefulset" /\ UNCHANGED <<t, tc>>
          /\ owner'["secret"] = t.uid /\ tc.exists /\ tc.finalizer /\ tc.uid = t.uid /\ t.uid \in Ids
      BY <1>0, <1>4 DEF reconcileAdminSecret, Step, IInv, Living
    <2>2. Living' /\ SecretSafe'
      BY <1>1, <2>1 DEF IInv, Living, SecretSafe
    <2>3. t.uid # Absent
      BY <2>1, ClusterConstants DEF Ids, Absent
    <2>4. CASE owner["secret"] # Absent
      <3>1. CredentialsKept'
        BY <1>1, <1>4, <2>1, <2>3, <2>4 DEF reconcileAdminSecret, IInv, CredentialsKept
      <3> QED BY <1>2, <2>2, <3>1 DEF IInv
    <2>5. CASE owner["secret"] = Absent
      <3>1. secret'.token = None
        BY <1>4, <2>5 DEF reconcileAdminSecret
      <3>2. (~lost /\ ~wiped) => \A i \in Ordinals : vol[i].id = None
        BY <2>5 DEF IInv, CredentialsKept
      <3>3. CredentialsKept'
        BY <1>1, <3>1, <3>2 DEF CredentialsKept
      <3> QED BY <1>2, <2>2, <3>3 DEF IInv
    <2> QED BY <2>4, <2>5
  <1>5. CASE ensureToken
    <2>0. UNCHANGED owner
      BY <1>5 DEF ensureToken
    <2>1. CASE UNCHANGED secret
      <3>1. SameLife
        BY <1>0, <1>5, DegradedKeeps DEF ensureToken, Fails, SameLife, Reasons
      <3>2. pc = "token" /\ (pc' = "idle" \/ (pc' \in {"status", "pods"} /\ t' = t))
        BY <1>5 DEF ensureToken, Fails, EndPass, Step
      <3>3. Quiet
        BY <1>1, <2>0, <2>1, <3>1, <3>2 DEF Quiet, Up
      <3> QED BY <3>3, QuietStep
    <2>2. CASE secret.token = None /\ secret' = [secret EXCEPT !.token = vol[0].id]
      <3>1. \/ UNCHANGED secret
            \/ pc = "token" /\ pc' \in {"status", "pods"} /\ UNCHANGED <<tc, t>>
        BY <1>0, <1>5, <2>2 DEF ensureToken
      <3>2. secret'.pw = secret.pw /\ secret'.token = vol[0].id
        BY <1>0, <2>2
      <3>3. CredentialsKept'
        BY <1>1, <2>0, <3>2 DEF IInv, CredentialsKept
      <3>4. ~UNCHANGED secret => Living' /\ SecretSafe'
        BY <1>1, <2>0, <3>1 DEF IInv, Living, SecretSafe
      <3> QED BY <1>2, <2>1, <3>3, <3>4 DEF IInv
    <2> QED BY <1>5, <2>1, <2>2 DEF ensureToken
  <1>6. CASE reconcileAdminSecretRetention
    <2>1. /\ pc = "release" /\ pc' = "pvcs" /\ UNCHANGED <<t, tc, secret>>
          /\ tc.exists /\ tc.finalizer /\ tc.uid = t.uid /\ t.uid \in Ids
      BY <1>6 DEF reconcileAdminSecretRetention, Step, IInv, Living
    <2>2. t.uid # None /\ None # Absent
      BY <2>1, ClusterConstants DEF Ids, None, Absent
    <2>3. \/ owner'["secret"] = None /\ owner["secret"] = t.uid
          \/ owner' = owner /\ (t.retention = "Retain" => owner["secret"] # t.uid)
      BY <1>0, <1>6 DEF reconcileAdminSecretRetention
    <2>4. t.retention \in {"Retain", "Delete"}
      BY <1>0 DEF TechnitiumCluster
    <2>5. Living'
      BY <2>1 DEF IInv, Living
    <2>6. SecretSafe'
      BY <1>1, <2>1, <2>2, <2>3, <2>4 DEF IInv, SecretSafe
    <2>7. CredentialsKept'
      BY <1>1, <2>1, <2>2, <2>3 DEF IInv, CredentialsKept
    <2> QED BY <1>2, <2>5, <2>6, <2>7 DEF IInv
  <1>7. CASE RemoveFinalizer
    <2>1. pc = "drop" /\ pc' = "idle" /\ UNCHANGED <<owner, secret>> /\ tc' \in {NoTc, tc} /\ tc.uid = t.uid
      BY <1>7 DEF RemoveFinalizer, EndPass, IInv, Living
    <2>2. SecretSafe'
      BY <1>1, <2>1 DEF IInv, SecretSafe
    <2>3. Living'
      BY <2>1 DEF IInv, Living, NoTc
    <2>4. CredentialsKept'
      BY <1>1, <2>1 DEF IInv, CredentialsKept
    <2> QED BY <1>2, <2>2, <2>3, <2>4 DEF IInv
  <1> QED BY <1>3, <1>4, <1>5, <1>6, <1>7

\* A step of the Secondaries' loop in reconcileClustering touches only a volume's
\* address, or makes its node a member of the Primary's cluster, which there is.
LEMMA SecondaryVolumes ==
  ASSUME vol \in Volumes, ClusterSecondary
  PROVE  \A j \in Ordinals :
           /\ vol'[j].id = vol[j].id /\ vol'[j].pw = vol[j].pw /\ vol'[j].dying = vol[j].dying
           /\ vol'[j].cluster = vol[j].cluster \/ (Initialized(0) /\ vol'[j].cluster = vol[0].cluster)
  <1>1. CASE UNCHANGED vol
    BY <1>1, Zenon
  <1>2. ASSUME NEW k, NEW ip, SetAddress(k, ip), NEW j \in Ordinals
        PROVE  /\ vol'[j].id = vol[j].id /\ vol'[j].pw = vol[j].pw /\ vol'[j].dying = vol[j].dying
               /\ vol'[j].cluster = vol[j].cluster
    BY <1>2 DEF SetAddress, Volumes
  <1>3. ASSUME NEW k, NEW ip, vol' = [vol EXCEPT ![k].cluster = vol[0].cluster, ![k].ip = ip], NEW j \in Ordinals
        PROVE  /\ vol'[j].id = vol[j].id /\ vol'[j].pw = vol[j].pw /\ vol'[j].dying = vol[j].dying
               /\ vol'[j].cluster = vol[j].cluster \/ vol'[j].cluster = vol[0].cluster
    BY <1>3 DEF Volumes
  <1>4. \/ UNCHANGED vol
        \/ \E k, ip : SetAddress(k, ip)
        \/ Initialized(0) /\ \E k, ip : vol' = [vol EXCEPT ![k].cluster = vol[0].cluster, ![k].ip = ip]
    BY Zenon DEF ClusterSecondary, UpdateNodeIPAddresses, InitJoinCluster, Joinable
  <1> QED BY <1>1, <1>2, <1>3, <1>4, Zenon

\* teardownClusterState's calls take nodes out of the cluster and touch nothing else
\* of their volumes; the Primary leaves it last.
LEMMA TeardownVolumes ==
  ASSUME vol \in Volumes, seen \in Seen, RemoveSecondary \/ DeletePrimaryCluster
  PROVE  /\ \A j \in Ordinals :
              /\ vol'[j].id = vol[j].id /\ vol'[j].pw = vol[j].pw /\ vol'[j].dying = vol[j].dying
              /\ vol'[j].cluster = vol[j].cluster \/ vol'[j].cluster = None
         /\ stray => stray'
         /\ ~stray' => vol'[0].cluster = vol[0].cluster \/ \A i \in Secondaries : ~Member(i)
  <1>0. 0 \in Ordinals /\ seen.next # 0
    BY ClusterConstants DEF Ordinals, Seen
  <1>1. CASE UNCHANGED <<vol, stray>>
    BY <1>1
  <1>2. ASSUME NEW k, vol' = [vol EXCEPT ![k].cluster = None, ![k].ip = None], NEW j \in Ordinals
        PROVE  /\ vol'[j].id = vol[j].id /\ vol'[j].pw = vol[j].pw /\ vol'[j].dying = vol[j].dying
               /\ vol'[j].cluster = vol[j].cluster \/ vol'[j].cluster = None
               /\ j # k => vol'[j] = vol[j]
    BY <1>2 DEF Volumes
  <1>3. ASSUME NEW leaves, NEW dropped, Detach(seen.next, leaves, dropped)
        PROVE  /\ \A j \in Ordinals :
                    /\ vol'[j].id = vol[j].id /\ vol'[j].pw = vol[j].pw /\ vol'[j].dying = vol[j].dying
                    /\ vol'[j].cluster = vol[j].cluster \/ vol'[j].cluster = None
               /\ stray => stray'
               /\ vol'[0].cluster = vol[0].cluster
    <2>1. stray => stray'
      BY <1>3, Zenon DEF Detach
    <2>2. vol' = vol \/ vol' = [vol EXCEPT ![seen.next].cluster = None, ![seen.next].ip = None]
      BY <1>3, Zenon DEF Detach
    <2> QED BY <1>0, <1>2, <2>1, <2>2
  <1>4. CASE RemoveSecondary
    <2>1. UNCHANGED <<vol, stray>> \/ \E leaves, dropped : Detach(seen.next, leaves, dropped)
      BY <1>4, Zenon DEF RemoveSecondary
    <2> QED BY <1>1, <1>3, <2>1
  <1>5. CASE DeletePrimaryCluster
    <2>1. \/ UNCHANGED <<vol, stray>>
          \/ /\ vol' = [vol EXCEPT ![0].cluster = None, ![0].ip = None]
             /\ stray' = (stray \/ \E i \in Secondaries : Member(i))
      BY <1>5, Zenon DEF DeletePrimaryCluster
    <2> QED BY <1>1, <1>2, <2>1
  <1> QED BY <1>4, <1>5

\* The calls to the nodes change neither what a volume is nor its password, and
\* keep the nodes in one cluster.
LEMMA InvNodes ==
  ASSUME IInv, TypeOK', ClusterPrimary \/ ClusterSecondary \/ RemoveSecondary \/ DeletePrimaryCluster
  PROVE  IInv'
  <1> USE DEF kube, nodes, limits, history
  <1>0. vol \in Volumes /\ seen \in Seen /\ 0 \in Ordinals /\ tc \in TechnitiumCluster /\ TypeOK
    BY ClusterConstants DEF IInv, TypeOK, Ordinals
  <1>1. UNCHANGED <<owner, secret, pods, wiped, lost>>
    BY DEF ClusterPrimary, ClusterSecondary, RemoveSecondary, DeletePrimaryCluster
  <1>2. SameLife
    BY <1>0, DegradedKeeps DEF ClusterPrimary, ClusterSecondary, RemoveSecondary, DeletePrimaryCluster, Fails, SameLife, Reasons
  <1>3. /\ pc \in {"primary", "join", "remove"}
        /\ pc' = "idle" \/ (pc' \in {"status", "join", "remove", "release"} /\ t' = t)
    BY DEF ClusterPrimary, ClusterSecondary, RemoveSecondary, DeletePrimaryCluster, Fails, EndPass, Step
  <1>4. Living' /\ SecretSafe'
    BY <1>1, <1>2, <1>3 DEF SameLife, IInv, Living, SecretSafe
  <1>5. ASSUME NEW i \in Ordinals
        PROVE  vol'[i].id = vol[i].id /\ vol'[i].pw = vol[i].pw /\ vol'[i].dying = vol[i].dying
    <2>1. CASE ClusterPrimary
      BY <1>0, <2>1 DEF ClusterPrimary, InitCluster, SetAddress, Volumes
    <2>2. CASE ClusterSecondary
      BY <1>0, <2>2, SecondaryVolumes, Zenon
    <2>3. CASE RemoveSecondary \/ DeletePrimaryCluster
      BY <1>0, <2>3, TeardownVolumes, Zenon
    <2> QED BY <2>1, <2>2, <2>3
  <1>6. VolumesKept' /\ CredentialsKept'
    BY <1>0, <1>1, <1>5 DEF IInv, VolumesKept, CredentialsKept
  <1>7. OneCluster'
    <2>0. SUFFICES ASSUME ~stray', ~wiped', NEW i \in Secondaries, vol'[i].cluster # None
                   PROVE  vol'[0].cluster # None /\ vol'[i].cluster = vol'[0].cluster
      BY DEF OneCluster, Initialized, Member
    <2>1. ~stray /\ i \in Ordinals /\ i # 0
      <3>1. ClusterPrimary \/ ClusterSecondary => UNCHANGED stray
        BY DEF ClusterPrimary, ClusterSecondary
      <3> QED BY <1>0, <2>0, <3>1, TeardownVolumes DEF Secondaries
    <2>2. vol[i].cluster # None => vol[0].cluster # None /\ vol[i].cluster = vol[0].cluster
      BY <1>1, <2>0, <2>1 DEF IInv, OneCluster, Initialized, Member
    <2>3. CASE ClusterPrimary
      <3>1. vol'[i] = vol[i]
        BY <1>0, <2>1, <2>3 DEF ClusterPrimary, InitCluster, SetAddress, Volumes
      <3>2. vol[0].cluster # None => vol'[0].cluster = vol[0].cluster
        BY <1>0, <2>3 DEF ClusterPrimary, InitCluster, SetAddress, Volumes, Initialized
      <3> QED BY <2>0, <2>2, <3>1, <3>2
    <2>4. CASE ClusterSecondary
      <3>1. vol'[0].cluster = vol[0].cluster
        BY <1>0, <2>4, SecondaryVolumes, Zenon
      <3>2. vol'[i].cluster = vol[i].cluster \/ (vol'[i].cluster = vol[0].cluster /\ vol[0].cluster # None)
        BY <1>0, <2>1, <2>4, SecondaryVolumes, Zenon DEF Initialized
      <3> QED BY <2>0, <2>2, <3>1, <3>2
    <2>5. CASE RemoveSecondary \/ DeletePrimaryCluster
      <3>1. vol'[i].cluster = vol[i].cluster
        BY <1>0, <2>0, <2>1, <2>5, TeardownVolumes, Zenon
      <3>2. Member(i)
        BY <2>0, <2>2, <3>1 DEF Member, Initialized
      <3>3. vol'[0].cluster = vol[0].cluster
        BY <1>0, <2>0, <2>5, <3>2, TeardownVolumes, Zenon
      <3> QED BY <2>0, <2>2, <3>1, <3>3
    <2> QED BY <2>3, <2>4, <2>5
  <1>8. Mounted'
    <2>0. SUFFICES ASSUME NEW i \in Ordinals, vol'[i].cluster # None
                   PROVE  vol[i].cluster # None \/ Up(i)
      BY <1>1, <1>5 DEF IInv, Mounted, Up, Initialized
    <2>1. CASE ClusterPrimary
      BY <1>0, <2>0, <2>1 DEF ClusterPrimary, InitCluster, SetAddress, Volumes, Answers
    <2>2. CASE ClusterSecondary
      BY <1>0, <2>0, <2>2 DEF ClusterSecondary, InitJoinCluster, UpdateNodeIPAddresses, SetAddress, Volumes, Answers
    <2>3. CASE RemoveSecondary \/ DeletePrimaryCluster
      BY <1>0, <2>0, <2>3, TeardownVolumes, Zenon
    <2> QED BY <2>1, <2>2, <2>3
  <1> QED BY <1>4, <1>6, <1>7, <1>8 DEF IInv

\* Volumes are made with the Secret's password, and deleted only when that was
\* asked for.
LEMMA InvVolumes ==
  ASSUME IInv, TypeOK',
         reconcilePVCRetention \/ (\E i \in Ordinals : StartPod(i) \/ RemoveVolume(i))
  PROVE  IInv'
  <1> USE DEF kube, nodes, limits, history, pass
  <1>0. /\ vol \in Volumes /\ pods \in Pods /\ t \in TechnitiumCluster /\ 0 \in Ordinals
        /\ secret \in [pw : Numbers, token : Numbers]
    BY ClusterConstants DEF IInv, TypeOK, Ordinals
  <1>1. CASE reconcilePVCRetention
    <2>0. UNCHANGED <<tc, owner, secret, pods, lost, stray>> /\ pc = "pvcs"
      BY <1>1 DEF reconcilePVCRetention
    <2>1. \E claims : Wipe(claims)
      BY <1>1 DEF reconcilePVCRetention
    <2>2. Mounted'
      <3>1. PICK claims : Wipe(claims)
        BY <2>1
      <3>2. \A i \in Ordinals : vol'[i].id = vol[i].id /\ vol'[i].cluster = vol[i].cluster
        BY <1>0, <3>1 DEF Wipe, Volumes
      <3> QED BY <2>0, <3>2 DEF IInv, Mounted, Up, Initialized
    <2>3. pc' = "idle" \/ (pc' = "drop" /\ t' = t)
      BY <1>1 DEF reconcilePVCRetention, Step, EndPass
    <2>4. Living'
      BY <2>0, <2>3 DEF IInv, Living
    <2>5. CASE t.retention = "Delete"
      <3>1. wiped'
        BY <2>1, <2>5 DEF Wipe
      <3> QED BY <2>2, <2>4, <3>1 DEF IInv, VolumesKept, SecretSafe, CredentialsKept, OneCluster
    <2>6. CASE t.retention # "Delete"
      <3>1. Wipe({}) /\ Step("drop")
        BY <1>1, <2>6 DEF reconcilePVCRetention
      <3>2. UNCHANGED vol
        BY <1>0, <3>1 DEF Wipe, Volumes
      <3>3. wiped' => wiped
        BY <2>6, <3>1 DEF Wipe
      <3>3a. wiped => wiped'
        BY <3>1 DEF Wipe
      <3>4. VolumesKept' /\ CredentialsKept' /\ OneCluster'
        BY <2>0, <3>2, <3>3, <3>3a DEF IInv, VolumesKept, CredentialsKept, OneCluster, Initialized, Member
      <3>5. SecretSafe'
        BY <2>0, <2>6, <3>1, <3>3, <3>3a DEF IInv, SecretSafe, Step
      <3> QED BY <2>2, <2>4, <3>4, <3>5 DEF IInv
    <2> QED BY <2>5, <2>6
  <1>2. ASSUME NEW k \in Ordinals, StartPod(k) PROVE IInv'
    <2>0. UNCHANGED <<tc, owner, secret, wiped, lost, stray, pc, t>> /\ owner["secret"] # Absent
      BY <1>2 DEF StartPod
    <2>1. Living' /\ SecretSafe'
      BY <2>0 DEF IInv, Living, SecretSafe
    <2>2. \A i \in Ordinals : i # k => pods'[i] = pods[i] /\ vol'[i] = vol[i]
      BY <1>0, <1>2 DEF StartPod, Pods, Volumes
    <2>3. CASE vol[k].id # None
      <3>1. UNCHANGED vol
        BY <1>2, <2>3 DEF StartPod
      <3>2. VolumesKept' /\ CredentialsKept' /\ OneCluster'
        BY <2>0, <3>1 DEF IInv, VolumesKept, CredentialsKept, OneCluster, Initialized, Member
      <3>3. Mounted'
        BY <2>2, <2>3, <3>1 DEF IInv, Mounted, Up, Initialized
      <3> QED BY <2>1, <3>2, <3>3 DEF IInv
    <2>4. CASE vol[k].id = None
      <3>1. /\ ~vol'[k].dying /\ vol'[k].pw = secret.pw /\ vol'[k].cluster = None
            /\ vol'[k].id = Fresh({secret.token})
        BY <1>0, <1>2, <2>4 DEF StartPod, Volumes, NoVol
      <3>2. vol'[k].id # None
        <4>1. Fresh({secret.token}) \in Ids
          BY FreshOfThree
        <4> QED BY <3>1, <4>1, ClusterConstants DEF Ids, None
      <3>3. vol[k].cluster = None
        BY <2>4 DEF IInv, Mounted, Initialized
      <3>4. Mounted' /\ VolumesKept'
        BY <2>0, <2>2, <3>1, <3>2 DEF IInv, Mounted, VolumesKept, Up, Initialized
      <3>5. CredentialsKept'
        BY <1>0, <2>0, <2>2, <2>4, <3>1 DEF IInv, CredentialsKept
      <3>6. OneCluster'
        BY <1>0, <2>0, <2>2, <3>1, <3>3 DEF IInv, OneCluster, Initialized, Member, Secondaries
      <3> QED BY <2>1, <3>4, <3>5, <3>6 DEF IInv
    <2> QED BY <2>3, <2>4
  <1>3. ASSUME NEW k \in Ordinals, RemoveVolume(k) PROVE IInv'
    <2>0. UNCHANGED <<tc, owner, secret, pods, wiped, lost, stray, pc, t>> /\ vol[k].dying /\ ~Up(k)
      BY <1>3 DEF RemoveVolume
    <2>1. wiped'
      BY <2>0 DEF IInv, VolumesKept
    <2>2. Living'
      BY <2>0 DEF IInv, Living
    <2>3. \A i \in Ordinals : vol'[i] = IF i = k THEN NoVol ELSE vol[i]
      BY <1>0, <1>3 DEF RemoveVolume, Volumes
    <2>4. Mounted'
      <3>1. \A i \in Ordinals : (Up(i) \/ Initialized(i)) => vol[i].id # None
        BY Zenon DEF IInv, Mounted
      <3>2. \A i \in Ordinals : i # k => vol'[i] = vol[i] /\ (Up(i)' <=> Up(i))
        BY <2>0, <2>3, Zenon DEF Up
      <3>3. ~Up(k)' /\ ~Initialized(k)'
        <4>1. vol'[k] = NoVol /\ UNCHANGED pods
          BY <2>0, <2>3, Zenon
        <4>2. ~Up(k)'
          BY <2>0, <4>1, Zenon DEF Up
        <4> QED BY <4>1, <4>2 DEF Initialized, NoVol
      <3> QED BY <3>1, <3>2, <3>3, Zenon DEF Mounted, Initialized
    <2> QED BY <2>1, <2>2, <2>4 DEF IInv, VolumesKept, SecretSafe, CredentialsKept, OneCluster
  <1> QED BY <1>1, <1>2, <1>3

\* Users and the garbage collector.
LEMMA InvWorld ==
  ASSUME IInv, TypeOK', (\E o \in Objects : Collect(o)) \/ Create \/ Edit \/ DeleteSecret
  PROVE  IInv'
  <1> USE DEF kube, nodes, limits, history, pass
  <1>0. /\ owner \in [Objects -> Numbers \cup {Absent}] /\ tc \in TechnitiumCluster /\ pods \in Pods
        /\ "secret" \in Objects
    BY DEF IInv, TypeOK, Objects
  <1>1. UNCHANGED <<vol, wiped, stray, pc, t>>
    BY DEF Collect, Create, Edit, DeleteSecret
  <1>2. VolumesKept' /\ OneCluster'
    BY <1>1 DEF IInv, VolumesKept, OneCluster, Initialized, Member
  <1>3. ASSUME NEW o \in Objects, Collect(o) PROVE IInv'
    <2>0. UNCHANGED <<tc, lost>>
      BY <1>3 DEF Collect
    <2>1. \A i \in Ordinals : Up(i)' => Up(i)
      BY <1>0, <1>3 DEF Collect, Up, Pods
    <2>2. Mounted'
      BY <1>1, <2>1 DEF IInv, Mounted, Initialized
    <2>3. CASE o # "secret"
      <3>1. owner'["secret"] = owner["secret"] /\ secret' = secret
        BY <1>0, <1>3, <2>3 DEF Collect
      <3>2. Quiet
        BY <1>1, <2>0, <2>1, <3>1 DEF Quiet, SameLife
      <3> QED BY <3>2, QuietStep
    <2>4. CASE o = "secret"
      <3>1. lost \/ wiped
        BY <1>3, <2>4 DEF Collect, IInv, SecretSafe
      <3>2. Living'
        BY <1>1, <2>0 DEF IInv, Living
      <3> QED BY <1>1, <1>2, <2>0, <2>2, <3>1, <3>2 DEF IInv, SecretSafe, CredentialsKept
    <2> QED BY <2>3, <2>4
  <1>4. ASSUME UNCHANGED <<owner, secret, pods, lost>> PROVE Mounted' /\ CredentialsKept'
    BY <1>1, <1>4 DEF IInv, Mounted, CredentialsKept, Up, Initialized
  <1>5. CASE Create
    <2>1. tc'.exists /\ tc'.uid \in Ids
      <3> DEFINE new == Fresh({owner[o] : o \in Objects} \cup {t.uid})
      <3>1. PICK s \in Specs : tc' = Specified([NoTc EXCEPT !.exists = TRUE, !.uid = new], s)
        BY <1>5 DEF Create
      <3>2. new \in Ids
        BY FreshUid DEF IInv, TypeOK
      <3> HIDE DEF new
      <3>3. [NoTc EXCEPT !.exists = TRUE, !.uid = new] \in TechnitiumCluster
        BY <3>2, Initially DEF TechnitiumCluster, Numbers
      <3>4. [NoTc EXCEPT !.exists = TRUE, !.uid = new].exists /\ [NoTc EXCEPT !.exists = TRUE, !.uid = new].uid = new
        BY DEF NoTc
      <3> QED BY <3>1, <3>2, <3>3, <3>4, SpecifiedType
    <2>2. ~tc.exists /\ pc \in {"idle", "finalizer"} /\ UNCHANGED <<owner, secret, pods, lost>>
      BY <1>5 DEF Create, IInv, Living
    <2>3. Living'
      BY <1>1, <2>1, <2>2 DEF IInv, Living
    <2>4. SecretSafe'
      BY <1>1, <2>2 DEF IInv, SecretSafe
    <2> QED BY <1>2, <1>4, <2>2, <2>3, <2>4 DEF IInv
  <1>6. CASE Edit
    <2>1. UNCHANGED <<owner, secret, pods, lost>> /\ tc.exists
      BY <1>6 DEF Edit
    <2>2. SameLife \/ (~tc.finalizer /\ tc' = NoTc)
      <3>1. CASE \E s \in Specs : tc' = Specified(tc, s)
        BY <1>0, <3>1, SpecifiedType DEF SameLife
      <3>2. CASE tc' = IF tc.finalizer THEN [tc EXCEPT !.deleting = TRUE] ELSE NoTc
        BY <1>0, <3>2 DEF SameLife, TechnitiumCluster
      <3> QED BY <1>6, <3>1, <3>2 DEF Edit
    <2>3. Living'
      <3>1. CASE SameLife
        BY <1>1, <2>1, <3>1 DEF IInv, Living, SameLife
      <3>2. CASE ~tc.finalizer /\ tc' = NoTc
        <4>1. ~tc'.exists
          BY <3>2 DEF NoTc
        <4> QED BY <1>1, <3>2, <4>1 DEF IInv, Living
      <3> QED BY <2>2, <3>1, <3>2
    <2>4. SecretSafe'
      BY <1>1, <2>1, <2>2 DEF IInv, Living, SecretSafe, SameLife
    <2> QED BY <1>2, <1>4, <2>1, <2>3, <2>4 DEF IInv
  <1>7. CASE DeleteSecret
    <2>1. lost' /\ UNCHANGED <<tc, pods>>
      BY <1>7 DEF DeleteSecret
    <2>2. Living' /\ Mounted'
      BY <1>1, <2>1 DEF IInv, Living, Mounted, Up, Initialized
    <2> QED BY <1>2, <2>1, <2>2 DEF IInv, SecretSafe, CredentialsKept
  <1> QED BY <1>3, <1>5, <1>6, <1>7

\* The invariant holds before anything happens.
LEMMA InvInit == Init => IInv
  <1> SUFFICES ASSUME Init PROVE IInv
    OBVIOUS
  <1>1. TypeOK
    <2>1. /\ owner \in [Objects -> Numbers \cup {Absent}] /\ secret \in [pw : Numbers, token : Numbers]
          /\ pods \in Pods /\ vol \in Volumes
      BY Initially DEF Init, NoSecret, Numbers, Pods, Volumes
    <2>2. tc \in TechnitiumCluster /\ t \in TechnitiumCluster /\ seen \in Seen /\ table \in Table
      BY Initially DEF Init
    <2>3. scale \in 0 .. MaxReplicas /\ edits \in 0 .. MaxEdits /\ faults \in 0 .. MaxFaults
      BY ClusterConstants DEF Init
    <2> QED BY <2>1, <2>2, <2>3 DEF Init, TypeOK
  <1>2. Living /\ VolumesKept /\ SecretSafe
    BY DEF Init, Living, VolumesKept, SecretSafe, NoTc, NoVol, Objects
  <1>3. Mounted /\ CredentialsKept /\ OneCluster
    BY DEF Init, Mounted, CredentialsKept, OneCluster, Up, Initialized, NoPod, NoVol, NoSecret, Secondaries
  <1> QED BY <1>1, <1>2, <1>3 DEF IInv

\* Every step keeps the invariant.
LEMMA InvStep == ASSUME IInv, [Next]_vars PROVE IInv'
  <1>1. TypeOK'
    BY TypeStep DEF IInv
  <1> QED BY <1>1, QuietSteps, QuietStep, InvSecret, InvNodes, InvVolumes, InvWorld
          DEF Next, Operator, Pass, NodeStep

\* Every variable stays in its range, through any number of lives of the
\* TechnitiumCluster: the numbers that uids, passwords, clusters and addresses
\* are drawn from never run out (a new admin password, an initialized cluster, a
\* pod's address).
THEOREM ClusterTypes == Spec => []TypeOK
  <1>1. IInv => TypeOK
    BY DEF IInv
  <1> QED BY <1>1, InvInit, InvStep, PTL DEF Spec

\* For any number of replicas, edits and faults: through deletion, crashes and
\* recreation the Secret holds the password of the volumes' first boot, until
\* somebody deletes the Secret or asks for the volumes to be deleted
\* (reconcileAdminSecretRetention before RemoveFinalizer).
THEOREM CredentialsSurvive == Spec => []CredentialsKept
  <1>1. IInv => CredentialsKept
    BY DEF IInv
  <1> QED BY <1>1, InvInit, InvStep, PTL DEF Spec

\* For any number of replicas, edits and faults: no two nodes belong to different
\* clusters, unless a Secondary missed its removal or volumes were deleted
\* (reconcileClustering, teardownClusterState).
THEOREM NeverSplit == Spec => []OneCluster
  <1>1. IInv => OneCluster
    BY DEF IInv
  <1> QED BY <1>1, InvInit, InvStep, PTL DEF Spec
=============================================================================
