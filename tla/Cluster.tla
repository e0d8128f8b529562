------------------------------- MODULE Cluster -------------------------------
(***************************************************************************)
(* The life of a TechnitiumCluster, all but its rolling upgrade: the       *)
(* objects the operator owns, the admin token, the membership of the       *)
(* nodes, and what deletion undoes and what it leaves for a cluster of the *)
(* same name created later.  The data volumes outlive the objects: each    *)
(* keeps the password of its first boot and its place in a cluster.        *)
(*                                                                         *)
(* A pass is a sequence of steps, one per object or per node it calls, so  *)
(* that edits, deletion, garbage collection, restarts and operator crashes *)
(* fall between them.  Passwords, volumes, clusters and addresses are      *)
(* numbers, compared for equality only.  wiped, lost and stray are history *)
(* variables.                                                              *)
(***************************************************************************)
EXTENDS Integers, FiniteSets

CONSTANTS
  MaxReplicas,           \* spec.replicas ranges over 1..MaxReplicas
  Specs,                 \* the specs users give a cluster
  MaxEdits, MaxFaults    \* bounds of users' actions and of faults

\* spec.replicas, spec.storage.retentionPolicy, spec.deletionPolicy and
\* spec.podDisruptionBudget.enabled.
ClusterSpec == [replicas : 1 .. MaxReplicas, retention : {"Retain", "Delete"},
                policy : {"Delete", "Orphan"}, budget : BOOLEAN]

ASSUME ClusterConstants ==
  /\ MaxReplicas \in Nat \ {0} /\ MaxEdits \in Nat /\ MaxFaults \in Nat
  /\ Specs \subseteq ClusterSpec

VARIABLES
  tc,        \* the TechnitiumCluster: spec, finalizer and status
  owner,     \* the owner of each object the operator makes
  secret,    \* the admin Secret: password and token
  scale,     \* spec.replicas of the StatefulSet
  pods,      \* the pods, by ordinal: Ready, their address, of a StatefulSet that is gone
  vol,       \* the data volumes, by ordinal
  table,     \* the Primary's entries for the Secondaries, on its volume
  pc,        \* next step of the Reconcile pass
  t,         \* the pass's copy of the TechnitiumCluster
  seen,      \* what the pass has read and concluded so far
  edits, faults,
  wiped,     \* a cluster was deleted under the retention policy Delete
  lost,      \* somebody deleted the Secret
  stray      \* a Secondary is left with a cluster that was torn down

kube == <<owner, secret, scale>>
nodes == <<pods, vol, table>>
pass == <<pc, t, seen>>
limits == <<edits, faults>>
history == <<wiped, lost, stray>>
vars == <<tc, kube, nodes, pass, limits, history>>

Ordinals == 0 .. MaxReplicas - 1
Secondaries == Ordinals \ {0}
None == 0
Ids == 1 .. MaxReplicas + 6
Fresh(used) == CHOOSE n \in Ids : n \notin used

\* The objects, in the order reconcileWorkload makes them.
Objects == {"services", "secret", "statefulset", "pdb"}
Absent == -1     \* owner of an object that does not exist; None is no owner

NoTc == [exists |-> FALSE, deleting |-> FALSE, finalizer |-> FALSE, uid |-> None,
         replicas |-> 1, retention |-> "Retain", policy |-> "Delete", budget |-> TRUE,
         phase |-> "None", degraded |-> "None"]
NoSecret == [pw |-> None, token |-> None]
NoPod == [ready |-> FALSE, ip |-> None, old |-> FALSE]
NoVol == [id |-> None, dying |-> FALSE, pw |-> None, cluster |-> None, ip |-> None]
NoEntry == [listed |-> FALSE, ip |-> None, conn |-> FALSE]
NoTable == [i \in Secondaries |-> NoEntry]
NoSeen == [ready |-> 0, pods |-> [i \in Ordinals |-> NoPod], view |-> NoTable,
           next |-> 1, allJoined |-> TRUE, bootstrapped |-> FALSE, clustered |-> FALSE]

Init ==
  /\ tc = NoTc /\ owner = [o \in Objects |-> Absent] /\ secret = NoSecret /\ scale = 0
  /\ pods = [i \in Ordinals |-> NoPod] /\ vol = [i \in Ordinals |-> NoVol] /\ table = NoTable
  /\ pc = "idle" /\ t = NoTc /\ seen = NoSeen
  /\ edits = 0 /\ faults = 0 /\ wiped = FALSE /\ lost = FALSE /\ stray = FALSE

EndPass == pc' = "idle" /\ t' = NoTc /\ seen' = NoSeen
Step(next) == pc' = next /\ UNCHANGED <<t, seen>>

\* Mutant: the reason is reported as a phase.
markDegradedPhase(reason) == tc' = IF tc.exists THEN [tc EXCEPT !.phase = reason] ELSE tc

\* markDegraded re-fetches the TechnitiumCluster.
markDegraded(reason) == tc' = IF tc.exists THEN [tc EXCEPT !.degraded = reason] ELSE tc

\* The pass returns an error, after reporting it.
Fails(reason) == markDegraded(reason) /\ EndPass

\* Nobody has written the TechnitiumCluster since the pass read it.
Unchanged == tc = t

-----------------------------------------------------------------------------
(* The nodes' side of the calls (external). *)

Up(i) == pods[i].ready
Initialized(i) == vol[i].cluster # None

\* A login with the Secret's password succeeds.
Answers(i) == Up(i) /\ owner["secret"] # Absent /\ vol[i].pw = secret.pw

\* The Primary takes node i for a member of its cluster.
Member(i) == Initialized(0) /\ vol[i].cluster = vol[0].cluster

\* InitCluster on the Primary, under the address the pass believes it has.
InitCluster(ip) ==
  /\ vol' = [vol EXCEPT ![0].cluster = Fresh({vol[i].cluster : i \in Ordinals}), ![0].ip = ip]
  /\ table' = NoTable

\* The Secondaries the Primary has an entry for.
Enrolled == {i \in Secondaries : table[i].listed}

\* UpdateNodeIPAddresses on the Primary, and on a Secondary, which tells the
\* Primary once and may fail to.
SetAddress(i, ip) == vol' = [vol EXCEPT ![i].ip = ip]
UpdateNodeIPAddresses(i, ip) ==
  LET told == i \in Enrolled /\ Up(0) /\ Member(i)
  IN  /\ SetAddress(i, ip)
      /\ \/ told /\ table' = [table EXCEPT ![i].ip = ip] /\ UNCHANGED faults
         \/ ~told /\ UNCHANGED <<table, faults>>
         \/ told /\ faults < MaxFaults /\ faults' = faults + 1 /\ UNCHANGED table

\* The Primary the joining node dials is there, initialized, and lets it in: it
\* refuses a node whose name it has in its list.
Joinable(i) == Answers(0) /\ pods[0].ip = seen.pods[0].ip /\ Initialized(0) /\ i \notin Enrolled

InitJoinCluster(i, ip) ==
  /\ vol' = [vol EXCEPT ![i].cluster = vol[0].cluster, ![i].ip = ip]
  /\ table' = [table EXCEPT ![i] = [listed |-> TRUE, ip |-> ip, conn |-> FALSE]]

-----------------------------------------------------------------------------
(* The pass of a TechnitiumCluster that is not being deleted. *)

Reconcile ==
  /\ pc = "idle" /\ tc.exists /\ (tc.deleting => tc.finalizer)
  /\ pc' = IF tc.deleting THEN "teardown" ELSE IF tc.finalizer THEN "services" ELSE "finalizer"
  /\ t' = tc /\ UNCHANGED <<tc, kube, nodes, seen, limits, history>>

\* The finalizer is registered before any object is made.
AddFinalizer ==
  /\ pc = "finalizer"
  /\ \/ /\ Unchanged /\ tc' = [tc EXCEPT !.finalizer = TRUE]
        /\ t' = tc' /\ pc' = "services" /\ UNCHANGED seen
     \/ ~Unchanged /\ EndPass /\ UNCHANGED tc
  /\ UNCHANGED <<kube, nodes, limits, history>>

\* SetControllerReference refuses an object of another controller, here one of a
\* deleted TechnitiumCluster that the garbage collector has not reaped yet.
Own(o) == owner[o] \in {Absent, None, t.uid} /\ owner' = [owner EXCEPT ![o] = t.uid]
Owned(o) == owner[o] \notin {Absent, None, t.uid}

reconcileServices ==
  /\ pc = "services"
  /\ \/ Own("services") /\ Step("secret") /\ UNCHANGED tc
     \/ Owned("services") /\ Fails("ReconcileFailed") /\ UNCHANGED owner
  /\ UNCHANGED <<secret, scale, nodes, limits, history>>

\* A stale controller reference is dropped, an existing password and token stay.
reconcileAdminSecret ==
  /\ pc = "secret" /\ Step("statefulset")
  /\ owner' = [owner EXCEPT !["secret"] = t.uid]
  /\ secret' = IF owner["secret"] # Absent THEN secret
               ELSE [pw |-> Fresh({vol[i].pw : i \in Ordinals}), token |-> None]
  /\ UNCHANGED <<tc, scale, nodes, limits, history>>

ReadyReplicas == Cardinality({i \in Ordinals : Up(i) /\ ~pods[i].old})

reconcileStatefulSet ==
  /\ pc = "statefulset"
  /\ \/ /\ Own("statefulset") /\ scale' = t.replicas
        /\ pc' = "pdb" /\ seen' = [seen EXCEPT !.ready = ReadyReplicas]
        /\ UNCHANGED <<tc, t>>
     \/ Owned("statefulset") /\ Fails("ReconcileFailed") /\ UNCHANGED <<owner, scale>>
  /\ UNCHANGED <<secret, nodes, limits, history>>

\* Mutant: the pass waits for one replica more than there are.
reconcilePodDisruptionBudgetWaits ==
  /\ pc = "pdb" /\ owner' = [owner EXCEPT !["pdb"] = t.uid]
  /\ Step(IF seen.ready > t.replicas THEN "token" ELSE "status")
  /\ UNCHANGED <<tc, secret, scale, nodes, limits, history>>

\* A budget is wanted for several replicas unless it is disabled; one of another
\* owner is left alone, and an error when one is wanted.  Then the workload must be
\* up to go on.
Wanted == t.budget /\ t.replicas > 1

reconcilePodDisruptionBudget ==
  /\ pc = "pdb"
  /\ \/ /\ Wanted /\ owner["pdb"] \in {Absent, t.uid}
        /\ owner' = [owner EXCEPT !["pdb"] = t.uid]
     \/ /\ ~Wanted
        /\ owner' = IF owner["pdb"] = t.uid THEN [owner EXCEPT !["pdb"] = Absent] ELSE owner
  /\ Step(IF seen.ready >= t.replicas THEN "token" ELSE "status")
  /\ UNCHANGED <<tc, secret, scale, nodes, limits, history>>

PDBConflict ==
  /\ pc = "pdb" /\ Wanted /\ owner["pdb"] \notin {Absent, t.uid}
  /\ Fails("PodDisruptionBudgetConflict")
  /\ UNCHANGED <<kube, nodes, limits, history>>

\* A token that is there is taken for good; otherwise one is minted on the Primary.
ensureToken ==
  /\ pc = "token"
  /\ \/ /\ owner["secret"] = Absent /\ Fails("ReconcileFailed") /\ UNCHANGED secret
     \/ /\ owner["secret"] # Absent /\ secret.token = None /\ Up(0) /\ ~Answers(0)
        /\ Fails("AdminCredentialsRejected") /\ UNCHANGED secret
     \/ /\ owner["secret"] # Absent /\ secret.token = None /\ ~Up(0)
        /\ Step("status") /\ UNCHANGED <<tc, secret>>
     \/ /\ owner["secret"] # Absent /\ (secret.token = None => Answers(0))
        /\ secret' = IF secret.token = None THEN [secret EXCEPT !.token = vol[0].id] ELSE secret
        /\ seen' = [seen EXCEPT !.bootstrapped = TRUE, !.clustered = t.replicas = 1]
        /\ pc' = IF t.replicas > 1 THEN "pods" ELSE "status"
        /\ UNCHANGED <<tc, t>>
  /\ UNCHANGED <<owner, scale, nodes, limits, history>>

\* adminCredentials and resolveClusterPods.
resolveClusterPods ==
  /\ pc = "pods"
  /\ \/ owner["secret"] = Absent /\ Fails("ReconcileFailed")
     \/ /\ owner["secret"] # Absent
        /\ seen' = [seen EXCEPT !.pods = pods]
        /\ pc' = IF Up(0) THEN "primary" ELSE "status"
        /\ UNCHANGED <<tc, t>>
  /\ UNCHANGED <<kube, nodes, limits, history>>

\* refreshNodeIP: the node, or the Primary's entry for it, has another address.
Refresh(i, view) ==
  \/ vol[i].ip # seen.pods[i].ip
  \/ i # 0 /\ view.listed /\ view.ip # seen.pods[i].ip

\* Mutant: a Primary with another address is initialized once more.
ClusterPrimaryAgain ==
  /\ pc = "primary"
  /\ \/ ~Answers(0) /\ Step("status") /\ UNCHANGED <<vol, table, faults>>
     \/ /\ Answers(0)
        /\ \/ (Initialized(0) => Refresh(0, NoEntry)) /\ InitCluster(seen.pods[0].ip) /\ UNCHANGED faults
           \/ Initialized(0) /\ ~Refresh(0, NoEntry) /\ UNCHANGED <<vol, table, faults>>
        /\ seen' = [seen EXCEPT !.view = table'] /\ pc' = "join" /\ UNCHANGED t
  /\ UNCHANGED <<tc, kube, pods, edits, history>>

\* The Primary's half of reconcileClustering.
ClusterPrimary ==
  /\ pc = "primary"
  /\ \/ ~Answers(0) /\ Step("status") /\ UNCHANGED <<vol, table, faults>>
     \/ /\ Answers(0)
        /\ \/ ~Initialized(0) /\ InitCluster(seen.pods[0].ip) /\ UNCHANGED faults
           \/ Initialized(0) /\ Refresh(0, NoEntry) /\ SetAddress(0, seen.pods[0].ip) /\ UNCHANGED <<table, faults>>
           \/ Initialized(0) /\ ~Refresh(0, NoEntry) /\ UNCHANGED <<vol, table, faults>>
        /\ seen' = [seen EXCEPT !.view = table'] /\ pc' = "join" /\ UNCHANGED t
  /\ UNCHANGED <<tc, kube, pods, edits, history>>

\* The next Secondary of the loop: not there yet, corrected, joined, or failed.
ClusterSecondary ==
  /\ pc = "join" /\ seen.next < t.replicas
  /\ LET i == seen.next
         ip == seen.pods[i].ip
     IN  \/ /\ ~seen.pods[i].ready \/ ~Answers(i)
            /\ seen' = [seen EXCEPT !.next = i + 1, !.allJoined = FALSE]
            /\ UNCHANGED <<tc, pc, t, vol, table, faults>>
         \/ /\ seen.pods[i].ready /\ Answers(i) /\ (Initialized(i) \/ Joinable(i))
            /\ \/ ~Initialized(i) /\ InitJoinCluster(i, ip) /\ UNCHANGED faults
               \/ Initialized(i) /\ Refresh(i, seen.view[i]) /\ UpdateNodeIPAddresses(i, ip)
               \/ Initialized(i) /\ ~Refresh(i, seen.view[i]) /\ UNCHANGED <<vol, table, faults>>
            /\ seen' = [seen EXCEPT !.next = i + 1] /\ UNCHANGED <<tc, pc, t>>
         \/ /\ seen.pods[i].ready /\ Answers(i) /\ ~Initialized(i) /\ ~Joinable(i)
            /\ Fails("ReconcileFailed") /\ UNCHANGED <<vol, table, faults>>
  /\ UNCHANGED <<kube, pods, edits, history>>

\* Convergence is judged on the Primary's entries, read once more.
Converged ==
  /\ pc = "join" /\ seen.next = t.replicas
  /\ pc' = "status" /\ UNCHANGED t
  /\ seen' = [seen EXCEPT !.clustered = /\ seen.allJoined /\ Answers(0)
                                        /\ \A i \in 1 .. t.replicas - 1 : table[i].listed /\ table[i].conn]
  /\ UNCHANGED <<tc, kube, nodes, limits, history>>

\* updateStatus re-fetches the TechnitiumCluster.
updateStatus ==
  /\ pc = "status"
  /\ tc' = IF ~tc.exists THEN tc
           ELSE [tc EXCEPT !.degraded = "None",
                           !.phase = IF seen.ready < tc.replicas THEN "Provisioning"
                                     ELSE IF ~seen.bootstrapped THEN "Bootstrapping"
                                     ELSE IF tc.replicas > 1 /\ ~seen.clustered THEN "Clustering"
                                     ELSE "Ready"]
  /\ EndPass /\ UNCHANGED <<kube, nodes, limits, history>>

-----------------------------------------------------------------------------
(* finalizeCluster. *)

\* teardownClusterState is skipped when orphaning or when the Primary cannot be
\* read.  Its Secondaries are read once.
teardownClusterState ==
  /\ pc = "teardown"
  /\ IF t.policy = "Delete" /\ Answers(0) /\ Initialized(0)
     THEN pc' = "remove" /\ seen' = [seen EXCEPT !.view = table] /\ UNCHANGED t
     ELSE Step("release")
  /\ UNCHANGED <<tc, kube, nodes, limits, history>>

\* The Secondary leaves the cluster, and the Primary drops its entry.
Detach(i, leaves, dropped) ==
  /\ vol' = IF leaves THEN [vol EXCEPT ![i].cluster = None, ![i].ip = None] ELSE vol
  /\ table' = IF dropped THEN [table EXCEPT ![i] = NoEntry] ELSE table
  /\ stray' = (stray \/ (dropped /\ ~leaves /\ Member(i)))

\* RemoveSecondary and DeleteSecondary for the next Secondary of the loop, which
\* hears of it when it is up.  A call that fails is logged, and the loop goes on.
RemoveSecondary ==
  /\ pc = "remove" /\ seen.next < MaxReplicas
  /\ seen' = [seen EXCEPT !.next = @ + 1] /\ UNCHANGED <<pc, t>>
  /\ LET i == seen.next
         called == seen.view[i].listed /\ Up(0)
         hears == Up(i) /\ Member(i)
     IN  \/ ~called /\ UNCHANGED <<vol, table, stray, faults>>
         \/ called /\ Detach(i, hears, TRUE) /\ UNCHANGED faults
         \/ /\ called /\ faults < MaxFaults /\ faults' = faults + 1
            /\ \E leaves, dropped \in BOOLEAN : (leaves => hears) /\ Detach(i, leaves, dropped)
  /\ UNCHANGED <<tc, kube, pods, edits, wiped, lost>>

\* The Primary's own configuration, last and whoever is still a member; a failure
\* is logged, and the finalization goes on.
DeletePrimaryCluster ==
  /\ pc = "remove" /\ seen.next = MaxReplicas
  /\ pc' = "release" /\ seen' = NoSeen /\ UNCHANGED t
  /\ \/ /\ Up(0) /\ vol' = [vol EXCEPT ![0].cluster = None, ![0].ip = None] /\ table' = NoTable
        /\ stray' = (stray \/ \E i \in Secondaries : Member(i)) /\ UNCHANGED faults
     \/ ~Up(0) /\ UNCHANGED <<vol, table, stray, faults>>
     \/ Up(0) /\ faults < MaxFaults /\ faults' = faults + 1 /\ UNCHANGED <<vol, table, stray>>
  /\ UNCHANGED <<tc, kube, pods, edits, wiped, lost>>

\* Mutant: the Secret stays with its owner.
reconcileAdminSecretRetentionNever ==
  /\ pc = "release" /\ Step("pvcs")
  /\ UNCHANGED <<tc, kube, nodes, limits, history>>

\* The Secret is kept with the volumes: it no longer goes with its owner.
reconcileAdminSecretRetention ==
  /\ pc = "release" /\ Step("pvcs")
  /\ owner' = IF t.retention = "Retain" /\ owner["secret"] = t.uid
              THEN [owner EXCEPT !["secret"] = None] ELSE owner
  /\ UNCHANGED <<tc, secret, scale, nodes, limits, history>>

\* A deleted claim stays until no pod uses it.
Wipe(claims) ==
  /\ vol' = [i \in Ordinals |-> IF i \in claims THEN [vol[i] EXCEPT !.dying = TRUE] ELSE vol[i]]
  /\ wiped' = (wiped \/ t.retention = "Delete")

reconcilePVCRetention ==
  /\ pc = "pvcs"
  /\ LET claims == IF t.retention = "Delete" THEN {i \in Ordinals : vol[i].id # None} ELSE {}
     IN  \/ Wipe(claims) /\ Step("drop") /\ UNCHANGED faults
         \/ /\ faults < MaxFaults /\ faults' = faults + 1
            /\ \E some \in SUBSET claims : some # claims /\ Wipe(some) /\ EndPass
  /\ UNCHANGED <<tc, kube, pods, table, edits, lost, stray>>

\* RemoveFinalizer and Update: the TechnitiumCluster is gone, or it is a conflict.
RemoveFinalizer ==
  /\ pc = "drop" /\ EndPass
  /\ tc' = IF Unchanged THEN NoTc ELSE tc
  /\ UNCHANGED <<kube, nodes, limits, history>>

\* A call fails and the pass returns its error, or the operator process dies.
PassFails ==
  /\ pc # "idle" /\ faults < MaxFaults /\ faults' = faults + 1
  /\ \/ pc \notin {"finalizer", "teardown", "remove", "release", "pvcs", "drop"} /\ markDegraded("ReconcileFailed")
     \/ UNCHANGED tc
  /\ EndPass /\ UNCHANGED <<kube, nodes, edits, history>>

Pass ==
  \/ AddFinalizer \/ reconcileServices \/ reconcileAdminSecret \/ reconcileStatefulSet
  \/ reconcilePodDisruptionBudget \/ PDBConflict \/ ensureToken \/ resolveClusterPods
  \/ ClusterPrimary \/ ClusterSecondary \/ Converged \/ updateStatus
  \/ teardownClusterState \/ RemoveSecondary \/ DeletePrimaryCluster
  \/ reconcileAdminSecretRetention \/ reconcilePVCRetention \/ RemoveFinalizer

Operator == Reconcile \/ Pass \/ PassFails

-----------------------------------------------------------------------------
(* Users, Kubernetes and the nodes (external). *)

\* The garbage collector reaps what belongs to a TechnitiumCluster that is gone.
Collect(o) ==
  /\ owner[o] \notin {Absent, None} /\ ~(tc.exists /\ owner[o] = tc.uid)
  /\ owner' = [owner EXCEPT ![o] = Absent]
  /\ secret' = IF o = "secret" THEN NoSecret ELSE secret
  /\ IF o = "statefulset"
     THEN scale' = 0 /\ pods' = [i \in Ordinals |-> [pods[i] EXCEPT !.old = Up(i)]]
     ELSE UNCHANGED <<scale, pods>>
  /\ UNCHANGED <<tc, vol, table, pass, limits, history>>

\* OrderedReady creation.  The pod needs the Secret; a new volume takes its
\* password, and the pod may come back under another address.
StartPod(i) ==
  /\ i < scale /\ ~Up(i) /\ \A j \in 0 .. i - 1 : Up(j) /\ ~pods[j].old
  /\ owner["secret"] # Absent /\ ~vol[i].dying
  /\ \E ip \in {vol[i].ip, Fresh({vol[i].ip, seen.pods[i].ip} \cup (IF i = 0 THEN {} ELSE {table[i].ip}))} \ {None} :
        pods' = [pods EXCEPT ![i] = [ready |-> TRUE, ip |-> ip, old |-> FALSE]]
  /\ vol' = IF vol[i].id # None THEN vol
            ELSE [vol EXCEPT ![i] = [NoVol EXCEPT !.id = Fresh({secret.token}), !.pw = secret.pw]]
  /\ UNCHANGED <<tc, kube, table, pass, limits, history>>

\* A pod is scaled down, goes with its StatefulSet, or is evicted.
StopPod(i) ==
  /\ Up(i) /\ pods' = [pods EXCEPT ![i] = NoPod]
  /\ \/ (i >= scale \/ pods[i].old) /\ UNCHANGED faults
     \/ i < scale /\ ~pods[i].old /\ faults < MaxFaults /\ faults' = faults + 1
  /\ UNCHANGED <<tc, kube, vol, table, pass, edits, history>>

RemoveVolume(i) ==
  /\ vol[i].dying /\ ~Up(i)
  /\ vol' = [vol EXCEPT ![i] = NoVol]
  /\ table' = IF i = 0 THEN NoTable ELSE table
  /\ UNCHANGED <<tc, kube, pods, pass, limits, history>>

\* The Primary reaches a member under the address it has for it, or gives it up.
Heartbeat(i) ==
  /\ i # 0 /\ Up(0) /\ table[i].listed
  /\ LET conn == Up(i) /\ Member(i) /\ table[i].ip = pods[i].ip
     IN  table[i].conn # conn /\ table' = [table EXCEPT ![i].conn = conn]
  /\ UNCHANGED <<tc, kube, pods, vol, pass, limits, history>>

Edited == edits < MaxEdits /\ edits' = edits + 1 /\ UNCHANGED faults

Specified(o, s) ==
  [o EXCEPT !.replicas = s.replicas, !.retention = s.retention, !.policy = s.policy, !.budget = s.budget]

Create ==
  /\ ~tc.exists /\ Edited
  /\ \E s \in Specs :
        tc' = Specified([NoTc EXCEPT !.exists = TRUE, !.uid = Fresh({owner[o] : o \in Objects} \cup {t.uid})], s)
  /\ UNCHANGED <<kube, nodes, pass, history>>

Edit ==
  /\ tc.exists /\ Edited
  /\ \/ \E s \in Specs : tc' = Specified(tc, s) /\ tc' # tc
     \/ ~tc.deleting /\ tc' = IF tc.finalizer THEN [tc EXCEPT !.deleting = TRUE] ELSE NoTc
  /\ UNCHANGED <<kube, nodes, pass, history>>

DeleteSecret ==
  /\ owner["secret"] # Absent /\ Edited
  /\ owner' = [owner EXCEPT !["secret"] = Absent] /\ secret' = NoSecret /\ lost' = TRUE
  /\ UNCHANGED <<tc, scale, nodes, pass, wiped, stray>>

NodeStep ==
  \E i \in Ordinals : StartPod(i) \/ StopPod(i) \/ RemoveVolume(i) \/ Heartbeat(i)

Next ==
  \/ Operator \/ NodeStep \/ (\E o \in Objects : Collect(o))
  \/ Create \/ Edit \/ DeleteSecret

\* Every pass is requeued, a failed one with backoff; the garbage collector, the
\* StatefulSet controller and the heartbeats keep going.  Edits and faults need
\* never come.
Fairness ==
  /\ WF_vars(Reconcile) /\ WF_vars(Pass /\ faults' = faults)
  /\ \A o \in Objects : WF_vars(Collect(o))
  /\ \A i \in Ordinals : /\ WF_vars(StartPod(i)) /\ WF_vars(StopPod(i) /\ faults' = faults)
                         /\ WF_vars(RemoveVolume(i)) /\ WF_vars(Heartbeat(i))

Spec == Init /\ [][Next]_vars /\ Fairness

-----------------------------------------------------------------------------
(* Properties. *)

Numbers == Ids \cup {None}
TechnitiumCluster ==
  [exists : BOOLEAN, deleting : BOOLEAN, finalizer : BOOLEAN, uid : Numbers,
   replicas : 1 .. MaxReplicas, retention : {"Retain", "Delete"}, policy : {"Delete", "Orphan"}, budget : BOOLEAN,
   phase : {"None", "Provisioning", "Bootstrapping", "Clustering", "Ready"},
   degraded : {"None", "ReconcileFailed", "PodDisruptionBudgetConflict", "AdminCredentialsRejected"}]
Pods == [Ordinals -> [ready : BOOLEAN, ip : Numbers, old : BOOLEAN]]
Volumes == [Ordinals -> [id : Numbers, dying : BOOLEAN, pw : Numbers, cluster : Numbers, ip : Numbers]]
Table == [Secondaries -> [listed : BOOLEAN, ip : Numbers, conn : BOOLEAN]]
Seen == [ready : 0 .. MaxReplicas, pods : Pods, view : Table, next : 1 .. MaxReplicas,
         allJoined : BOOLEAN, bootstrapped : BOOLEAN, clustered : BOOLEAN]

\* Type correctness of the whole state.
TypeOK ==
  /\ tc \in TechnitiumCluster /\ owner \in [Objects -> Numbers \cup {Absent}]
  /\ secret \in [pw : Numbers, token : Numbers] /\ scale \in 0 .. MaxReplicas
  /\ pods \in Pods /\ vol \in Volumes /\ table \in Table
  /\ pc \in {"idle", "finalizer", "services", "secret", "statefulset", "pdb", "token", "pods",
             "primary", "join", "status", "teardown", "remove", "release", "pvcs", "drop"}
  /\ t \in TechnitiumCluster /\ seen \in Seen
  /\ edits \in 0 .. MaxEdits /\ faults \in 0 .. MaxFaults
  /\ wiped \in BOOLEAN /\ lost \in BOOLEAN /\ stray \in BOOLEAN

\* Until somebody deletes the Secret or asks for the data volumes to be deleted,
\* the Secret's password and token are the ones the volumes accept, through
\* deletion, failures and recreation (reconcileAdminSecretRetention before
\* RemoveFinalizer, and reconcileAdminSecret taking an existing Secret over).
CredentialsKept ==
  (~lost /\ ~wiped) =>
    /\ \A i \in Ordinals : vol[i].id # None => owner["secret"] # Absent /\ vol[i].pw = secret.pw
    /\ secret.token \in {None, vol[0].id}

\* Two nodes never belong to different clusters, unless a Secondary missed its
\* removal or volumes were deleted (reconcileClustering joining only a Primary
\* that is initialized, and never initializing it twice).
OneCluster ==
  (~stray /\ ~wiped) =>
    \A i \in Secondaries : Initialized(i) => Member(i)

\* The Secret's password is not the one node i took on its first boot.
LockedOut(i) == vol[i].pw # secret.pw

\* Once edits and faults are over, a deleted cluster is gone.  Any other says that
\* its credentials are rejected if they are the Primary's, and is Ready otherwise:
\* every Secondary is connected to the Primary under the address of its pod.  A
\* Secondary that left the cluster while the Primary has its name is refused, and
\* the error is reported.  The code has no way out, and says so nowhere, for a
\* Secondary that alone rejects the credentials or that was left in a cluster since
\* torn down.
Settles ==
  <>[](/\ ~tc.deleting
       /\ tc.exists =>
            IF LockedOut(0) THEN tc.degraded = "AdminCredentialsRejected"
            ELSE \/ /\ tc.phase = "Ready" /\ tc.degraded = "None"
                    /\ \A i \in 1 .. tc.replicas - 1 : Member(i) /\ table[i].conn /\ table[i].ip = pods[i].ip
                 \/ tc.degraded = "ReconcileFailed" /\ \E i \in 1 .. tc.replicas - 1 : table[i].listed /\ ~Initialized(i)
                 \/ stray \/ \E i \in 1 .. tc.replicas - 1 : LockedOut(i))
=============================================================================
