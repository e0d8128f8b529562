------------------------------- MODULE Rollout -------------------------------
(***************************************************************************)
(* The gated rolling upgrade of a TechnitiumCluster: the operator's        *)
(* reconcileStatefulSet and reconcileRollout, against the StatefulSet      *)
(* controller, the kubelets and the Primary's member table.                *)
(*                                                                         *)
(* A Reconcile pass is a sequence of steps, one per write or batch of      *)
(* reads, so that edits, restarts, evictions and operator crashes fall     *)
(* between them.  The StatefulSet is read through the informer cache,      *)
(* which may lag behind; pods and the Primary's state are read at the      *)
(* gate.  inflight and vol are history variables.                          *)
(***************************************************************************)
EXTENDS Integers, FiniteSets

CONSTANTS
  MinReplicas, MaxReplicas,   \* spec.replicas ranges over MinReplicas..MaxReplicas
  Images,                     \* image tags; a tag is the version it runs
  Unparseable,                \* tags with no parseable version ("latest", digests)
  Broken,                     \* images whose pods never become Ready
  AllowDowngrade,             \* the allow-downgrade annotation is "true"
  MidRollout,                 \* spec may be edited while a rollout is running
  StallTimeout, MaxTime,      \* clock ticks; bound of the clock
  MaxEdits, MaxFaults         \* bounds of spec edits and of faults

ASSUME RolloutConstants ==
  /\ MinReplicas \in Nat \ {0} /\ MaxReplicas \in Nat /\ MinReplicas <= MaxReplicas
  /\ Images \subseteq Nat \ {0} /\ Images # {}
  /\ Unparseable \subseteq Images /\ Broken \subseteq Images
  /\ AllowDowngrade \in BOOLEAN /\ MidRollout \in BOOLEAN
  /\ StallTimeout \in Nat /\ MaxTime \in Nat /\ MaxEdits \in Nat /\ MaxFaults \in Nat

VARIABLES
  spec,      \* TechnitiumCluster.spec: image and replicas
  status,    \* TechnitiumCluster.status: Upgrading reason, Degraded, bookmark, version
  sts,       \* the StatefulSet: spec and status
  cache,     \* the operator's informer copy of sts
  pods,      \* the pods, by ordinal
  member,    \* the Primary's entry for each node, and the facts it holds
  inited,    \* the Primary has an initialized cluster
  pc,        \* next step of the Reconcile pass
  tc,        \* the pass's copy of the TechnitiumCluster: spec and status
  out,       \* the pass's statefulSetOutcome: its sts (the one first read, while
             \* it is read again), templateChanged and downgrade
  result,    \* the pass's rolloutState
  now,       \* the clock
  edits, faults,
  inflight,  \* nodes the rollout took down that are not back in service
  vol        \* newest version that has run on each node's data volume

kube == <<sts, pods, member, inited, inflight, vol>>
pass == <<pc, tc, out, result>>
vars == <<spec, status, cache, kube, pass, now, edits, faults>>

Ordinals == 0 .. MaxReplicas - 1
NoNode == -1
Lesser(a, b) == IF a < b THEN a ELSE b

\* The pod template depends on the replica count: a clustered pod gets its own
\* DNS_SERVER_DOMAIN and an anti-affinity, a single one does not.
podTemplateFor(image, replicas) == [image |-> image, multi |-> replicas > 1]

Template == [image : Images, multi : BOOLEAN]
StatefulSet == [exists : BOOLEAN, template : Template, replicas : 0 .. MaxReplicas,
                partition : 0 .. MaxReplicas, observed : BOOLEAN,
                updateRev : Template, currentRev : Template]
Reasons == {"UpToDate", "RollingOut", "Stalled", "DowngradeBlocked"}
Degraded == {"None", "UpgradeStalled", "DowngradeBlocked", "ReconcileFailed"}
ClusterSpec == [image : Images, replicas : MinReplicas .. MaxReplicas]
\* node and started are the rollout bookmark; version is 0 while unknown or mixed.
Status == [reason : Reasons, degraded : Degraded, node : Ordinals \cup {NoNode},
           started : 0 .. MaxTime, version : Images \cup {0}]

NoTemplate == [image |-> CHOOSE i \in Images : TRUE, multi |-> FALSE]
NoSts == [exists |-> FALSE, template |-> NoTemplate, replicas |-> 0, partition |-> 0,
          observed |-> FALSE, updateRev |-> NoTemplate, currentRev |-> NoTemplate]
NoPod == [on |-> FALSE, rev |-> NoTemplate, ready |-> FALSE]
NoStatus == [reason |-> "UpToDate", degraded |-> "None", node |-> NoNode,
             started |-> 0, version |-> 0]
NoSpec == [image |-> NoTemplate.image, replicas |-> MinReplicas]
NoTc == [spec |-> NoSpec, status |-> NoStatus]
NoOut == [sts |-> NoSts, templateChanged |-> FALSE, downgrade |-> FALSE]

Init ==
  /\ spec \in ClusterSpec
  /\ status = NoStatus
  /\ sts = NoSts /\ cache = NoSts
  /\ pods = [i \in Ordinals |-> NoPod]
  /\ member = [i \in Ordinals |-> [conn |-> FALSE, ip |-> FALSE, heard |-> FALSE]]
  /\ inited = FALSE
  /\ pc = "idle" /\ tc = NoTc /\ out = NoOut /\ result = NoStatus
  /\ now = 0 /\ edits = 0 /\ faults = 0
  /\ inflight = {} /\ vol = [i \in Ordinals |-> 0]

-----------------------------------------------------------------------------
(* The Reconcile pass. *)

EndPass == pc' = "idle" /\ tc' = NoTc /\ out' = NoOut /\ result' = NoStatus

\* Reconcile fetches the TechnitiumCluster.
Begin ==
  /\ pc = "idle"
  /\ pc' = "sts" /\ tc' = [spec |-> spec, status |-> status]
  /\ UNCHANGED <<spec, status, cache, kube, out, result, now, edits, faults>>

\* Mutant: the deployed version is taken from the status, unknown while mixed.
checkDowngradeByStatus(t, existing) ==
  /\ ~AllowDowngrade /\ existing.exists /\ t.spec.image \notin Unparseable
  /\ t.spec.image < t.status.version

\* spec.image is older than the deployed version and nothing permits it.
checkDowngrade(t, existing) ==
  /\ ~AllowDowngrade /\ existing.exists /\ t.spec.image \notin Unparseable
  /\ LET image == existing.template.image
         deployed == IF image \in Unparseable THEN t.status.version ELSE image
     IN  t.spec.image < deployed

\* The image to deploy: a refused downgrade keeps the one found deployed.
effective(t, existing) == IF checkDowngrade(t, existing) THEN existing.template.image ELSE t.spec.image

\* Mutant: parks for as long as the revisions differ, not only when the template
\* changes.
DesiredReparks(t, image, s) ==
  LET template == podTemplateFor(image, t.spec.replicas)
  IN  [exists |-> TRUE, template |-> template, replicas |-> t.spec.replicas,
       partition |-> IF ~s.exists \/ t.spec.replicas <= 1 THEN 0
                     ELSE IF s.template # template \/ s.currentRev # s.updateRev THEN t.spec.replicas
                     ELSE Lesser(s.partition, t.spec.replicas),
       observed |-> s.observed,
       updateRev |-> IF s.exists THEN s.updateRev ELSE template,
       currentRev |-> IF s.exists THEN s.currentRev ELSE template]

\* Mutant: never parks, a changed template rolls out at the partition it finds.
DesiredUnparked(t, image, s) ==
  LET template == podTemplateFor(image, t.spec.replicas)
  IN  [exists |-> TRUE, template |-> template, replicas |-> t.spec.replicas,
       partition |-> Lesser(s.partition, t.spec.replicas),
       observed |-> s.observed,
       updateRev |-> IF s.exists THEN s.updateRev ELSE template,
       currentRev |-> IF s.exists THEN s.currentRev ELSE template]

\* The StatefulSet that CreateOrUpdate makes out of the one it read, s.
Desired(t, image, s) ==
  LET replicas == t.spec.replicas
      template == podTemplateFor(image, replicas)
      templateChanged == s.exists /\ s.template # template
      partition == IF ~s.exists \/ replicas <= 1 THEN 0
                   ELSE IF templateChanged THEN replicas
                   ELSE Lesser(s.partition, replicas)
  IN  [exists |-> TRUE, template |-> template, replicas |-> replicas, partition |-> partition,
       observed |-> s.observed,
       updateRev |-> IF s.exists THEN s.updateRev ELSE template,
       currentRev |-> IF s.exists THEN s.currentRev ELSE template]

\* The same when both reads of the StatefulSet return s.
DesiredSts(t, s) == Desired(t, effective(t, s), s)

markDegraded == status' = [status EXCEPT !.degraded = "ReconcileFailed"]

\* The downgrade guard and CreateOrUpdate each read the StatefulSet.  The reads
\* follow one another at once, unless the informer happens to move in between.
ReadDeployed ==
  /\ pc = "sts" /\ faults < MaxFaults /\ faults' = faults + 1
  /\ pc' = "reread" /\ out' = [NoOut EXCEPT !.sts = cache]
  /\ UNCHANGED <<spec, status, cache, kube, tc, result, now, edits>>

\* The StatefulSet the downgrade guard has looked at.
Existing == IF pc = "reread" THEN out.sts ELSE cache

Outcome(s) == [sts |-> s, templateChanged |-> cache.exists /\ s.template # cache.template,
               downgrade |-> checkDowngrade(tc, Existing)]

\* Nothing to write, a write on a fresh read, or a write on a stale read, which
\* the API server rejects as a conflict.
reconcileStatefulSet ==
  /\ pc \in {"sts", "reread"}
  /\ LET want == Desired(tc, effective(tc, Existing), cache) IN
     \/ /\ want = cache
        /\ pc' = "walk" /\ out' = Outcome(cache)
        /\ UNCHANGED <<status, tc, result, sts, inflight>>
     \/ /\ want # cache /\ cache = sts
        /\ sts' = [want EXCEPT !.observed = FALSE]
        /\ inflight' = {i \in inflight : i < want.replicas}
        /\ pc' = "walk" /\ out' = Outcome(sts')
        /\ UNCHANGED <<status, tc, result>>
     \/ /\ want # cache /\ cache # sts
        /\ markDegraded /\ EndPass
        /\ UNCHANGED <<sts, inflight>>
  /\ UNCHANGED <<spec, cache, pods, member, inited, vol, now, edits, faults>>

\* Mutant: trusts the revisions alone, which agree until the controller observes.
NothingToRollByRevision == ~out.templateChanged /\ out.sts.updateRev = out.sts.currentRev

\* walkRollout's first test: no rollout has anything left to do.
NothingToRoll ==
  /\ ~out.templateChanged /\ out.sts.partition = 0
  /\ tc.status.reason \notin {"RollingOut", "Stalled"}
  /\ out.sts.updateRev = out.sts.currentRev

\* Mutant: takes the Primary's word for Connected, at whatever IP and time.
checkConnected(i) ==
  /\ pods[i].on /\ pods[i].rev = out.sts.updateRev /\ pods[i].ready
  /\ (i # 0 /\ out.sts.replicas > 1) => pods[0].on /\ pods[0].ready /\ (inited => member[i].conn)

\* rolloutGate.check(i), its reads succeeding: the pod is on the update revision
\* and Ready, runs the target version and, for a Secondary of an initialized
\* cluster, the Primary lists it Connected at its IP and heard since it was Ready.
check(i) ==
  /\ pods[i].on /\ pods[i].rev = out.sts.updateRev /\ pods[i].ready
  /\ out.sts.template.image \notin Unparseable => pods[i].rev.image = out.sts.template.image
  /\ (i # 0 /\ out.sts.replicas > 1) =>
       /\ pods[0].on /\ pods[0].ready
       /\ inited => member[i].conn /\ member[i].ip /\ member[i].heard

\* reconcileRollout's overlay for a refused downgrade, and the stall test.
RolloutState(reason, node, started) ==
  LET stalled == reason = "RollingOut" /\ node # NoNode /\ now - started > StallTimeout
  IN [reason |-> IF stalled THEN "Stalled"
                 ELSE IF reason = "UpToDate" /\ out.downgrade THEN "DowngradeBlocked" ELSE reason,
      degraded |-> IF out.downgrade THEN "DowngradeBlocked"
                   ELSE IF stalled THEN "UpgradeStalled" ELSE "None",
      node |-> node, started |-> started, version |-> 0]

Report(state) == pc' = "status" /\ result' = state /\ UNCHANGED <<tc, out>>

WalkIdle ==
  /\ pc = "walk" /\ NothingToRoll
  /\ Report(RolloutState("UpToDate", NoNode, 0))
  /\ UNCHANGED <<spec, status, cache, kube, now, edits, faults>>

\* The template was just parked, or the StatefulSet controller has not observed
\* it: the bookmark is kept and its clock is not looked at.
WalkWait ==
  /\ pc = "walk" /\ ~NothingToRoll
  /\ out.templateChanged \/ ~out.sts.observed
  /\ Report([RolloutState("RollingOut", NoNode, 0) EXCEPT
               !.node = tc.status.node, !.started = tc.status.started])
  /\ UNCHANGED <<spec, status, cache, kube, now, edits, faults>>

\* The ordinals released so far, and those of them that pass the gate.
Released == Lesser(out.sts.partition, out.sts.replicas) .. out.sts.replicas - 1
Gated == {i \in Released : check(i)}

\* Mutant: releases without looking whether an ordinal is left.
WalkFromPastZero(gated) ==
  \/ /\ Released \subseteq gated
     /\ pc' = "release" /\ UNCHANGED <<tc, out, result>>
  \/ \E pending \in Released \ gated :
        /\ \A i \in Released \ gated : pending <= i
        /\ Report(RolloutState("RollingOut", pending,
                    IF tc.status.node = pending THEN tc.status.started ELSE now))

\* Mutant: restarts the stall clock in every pass.
WalkFromRestartsClock(gated) ==
  \/ /\ Released \subseteq gated /\ out.sts.partition > 0
     /\ pc' = "release" /\ UNCHANGED <<tc, out, result>>
  \/ /\ Released \subseteq gated /\ out.sts.partition = 0
     /\ Report(RolloutState("UpToDate", NoNode, 0))
  \/ \E pending \in Released \ gated :
        /\ \A i \in Released \ gated : pending <= i
        /\ Report(RolloutState("RollingOut", pending, now))

\* What the walk does once the gate found the ordinals in gated done.
WalkFrom(gated) ==
  \/ /\ Released \subseteq gated /\ out.sts.partition > 0
     /\ pc' = "release" /\ UNCHANGED <<tc, out, result>>
  \/ /\ Released \subseteq gated /\ out.sts.partition = 0
     /\ Report(RolloutState("UpToDate", NoNode, 0))
  \/ \E pending \in Released \ gated :
        /\ \A i \in Released \ gated : pending <= i
        /\ Report(RolloutState("RollingOut", pending,
                    IF tc.status.node = pending THEN tc.status.started ELSE now))

Walking ==
  /\ pc = "walk" /\ ~NothingToRoll /\ ~out.templateChanged /\ out.sts.observed
  /\ UNCHANGED <<spec, status, cache, kube, now, edits>>

Walk == Walking /\ WalkFrom(Gated) /\ UNCHANGED faults

\* Some node's API, or the Primary's, cannot be read in this pass.
WalkUnreadable ==
  /\ Walking /\ faults < MaxFaults /\ faults' = faults + 1
  /\ \E gated \in SUBSET Gated : gated # Gated /\ WalkFrom(gated)

\* Mutant: opens the whole StatefulSet to the rolling update at once.
releaseAll ==
  /\ pc = "release"
  /\ sts' = [sts EXCEPT !.partition = 0, !.observed = FALSE]
  /\ Report(RolloutState("RollingOut", 0, now))
  /\ UNCHANGED <<spec, status, cache, pods, member, inited, inflight, vol, now, edits, faults>>

\* The merge patch carries the partition alone and no resourceVersion.
release ==
  /\ pc = "release"
  /\ LET next == Lesser(out.sts.partition, out.sts.replicas) - 1 IN
     /\ sts' = IF sts.partition = next THEN sts
               ELSE [sts EXCEPT !.partition = next, !.observed = FALSE]
     /\ Report(RolloutState("RollingOut", next, now))
  /\ UNCHANGED <<spec, status, cache, pods, member, inited, inflight, vol, now, edits, faults>>

\* What node i may be reported to run, 0 for nothing: its own answer, which the
\* table of an initialized Primary that answers has once it has heard from it, and
\* until then at most an older one.
Reports(i) ==
  LET ready(j) == pods[j].on /\ pods[j].ready
  IN  IF i # 0 /\ inited /\ ready(0) /\ ~(ready(i) /\ member[i].heard) THEN {0, sts.currentRev.image}
      ELSE IF ready(i) THEN {pods[i].rev.image} ELSE {0}

\* The version of the nodes that report one: 0 for none or "mixed".
summarizeVersions(nodes) ==
  LET reported == {nodes[i] : i \in DOMAIN nodes} \ {0}
  IN  IF \E v \in reported : reported = {v} THEN CHOOSE v \in reported : TRUE ELSE 0

\* The version is looked at again when the pass's copy of the StatefulSet counts
\* enough ready replicas, and it may be behind either way.
updateStatus ==
  /\ pc = "status"
  /\ \/ status' = [result EXCEPT !.version = status.version]
     \/ \E nodes \in [0 .. spec.replicas - 1 -> Images \cup {0}] :
           /\ \A i \in DOMAIN nodes : nodes[i] \in Reports(i)
           /\ status' = [result EXCEPT !.version = summarizeVersions(nodes)]
  /\ EndPass
  /\ UNCHANGED <<spec, cache, kube, now, edits, faults>>

\* A call fails and the pass returns its error, or the operator process dies.
PassFails ==
  /\ pc # "idle" /\ faults < MaxFaults /\ faults' = faults + 1
  /\ markDegraded \/ UNCHANGED status
  /\ EndPass
  /\ UNCHANGED <<spec, cache, kube, now, edits>>

CacheSync ==
  /\ cache # sts /\ cache' = sts
  /\ UNCHANGED <<spec, status, kube, pass, now, edits, faults>>

Operator ==
  \/ Begin \/ ReadDeployed \/ reconcileStatefulSet \/ WalkIdle \/ WalkWait \/ Walk \/ WalkUnreadable
  \/ release \/ updateStatus \/ PassFails \/ CacheSync

-----------------------------------------------------------------------------
(* The world around it: Kubernetes and the Technitium nodes (external). *)

Replicas == 0 .. sts.replicas - 1
Up(i) == pods[i].on /\ pods[i].ready

\* Node i serves and, as a Secondary, the Primary has heard from this very pod.
Back(i) == Up(i) /\ (i # 0 /\ inited => member[i].ip /\ member[i].heard)

\* A node the rollout takes down is in flight until it is back in service.
Track(down) == inflight' = {i \in inflight \cup down : i < sts.replicas /\ ~ Back(i)'}

StsObserve ==
  /\ sts.exists /\ ~sts.observed
  /\ sts' = [sts EXCEPT !.observed = TRUE, !.updateRev = sts.template]
  /\ UNCHANGED <<spec, status, cache, pods, member, inited, inflight, vol, pass, now, edits, faults>>

\* OrderedReady creation: ordinals below the partition come up on the current
\* revision, the others on the update revision.  A new pod may get a new IP.
StsCreatePod(i) ==
  /\ i \in Replicas /\ ~pods[i].on /\ \A j \in 0 .. i - 1 : Up(j)
  /\ LET rev == IF i < sts.partition THEN sts.currentRev ELSE sts.template IN
     /\ pods' = [pods EXCEPT ![i] = [on |-> TRUE, rev |-> rev, ready |-> FALSE]]
     /\ vol' = [vol EXCEPT ![i] = IF @ < rev.image THEN rev.image ELSE @]
  /\ \E ip \in {FALSE, member[i].ip} :
        member' = [member EXCEPT ![i].ip = ip, ![i].heard = FALSE]
  /\ UNCHANGED <<spec, status, cache, sts, inited, inflight, pass, now, edits, faults>>

\* The StatefulSet controller's rolling update: with every pod Ready, the highest
\* ordinal at or above the partition that is off the update revision goes down.
StsUpdatePod(i) ==
  /\ i \in Replicas /\ i >= sts.partition
  /\ \A j \in Replicas : Up(j)
  /\ pods[i].rev # sts.template /\ \A j \in Replicas : j > i => pods[j].rev = sts.template
  /\ pods' = [pods EXCEPT ![i] = NoPod]
  /\ UNCHANGED <<member, inited>> /\ Track({i})
  /\ UNCHANGED <<spec, status, cache, sts, vol, pass, now, edits, faults>>

StsScaleDown(i) ==
  /\ sts.exists /\ i \in Ordinals \ Replicas /\ pods[i].on
  /\ pods' = [pods EXCEPT ![i] = NoPod]
  /\ UNCHANGED <<spec, status, cache, sts, member, inited, inflight, vol, pass, now, edits, faults>>

\* Every replica runs the update revision: it becomes the current one.
StsComplete ==
  /\ sts.exists /\ sts.observed /\ sts.currentRev # sts.updateRev
  /\ \A i \in Replicas : Up(i) /\ pods[i].rev = sts.updateRev
  /\ sts' = [sts EXCEPT !.currentRev = sts.updateRev]
  /\ UNCHANGED <<spec, status, cache, pods, member, inited, inflight, vol, pass, now, edits, faults>>

\* Becoming Ready restarts the "seen since Ready" clock of the node's entry.
PodReady(i) ==
  /\ pods[i].on /\ ~pods[i].ready /\ pods[i].rev.image \notin Broken
  /\ pods' = [pods EXCEPT ![i].ready = TRUE]
  /\ member' = [member EXCEPT ![i].heard = FALSE]
  /\ UNCHANGED inited /\ Track({})
  /\ UNCHANGED <<spec, status, cache, sts, vol, pass, now, edits, faults>>

\* A container dies, or the pod is evicted with its node.
PodFails(i) ==
  /\ pods[i].on /\ faults < MaxFaults /\ faults' = faults + 1
  /\ \/ pods[i].ready /\ pods' = [pods EXCEPT ![i].ready = FALSE]
     \/ pods' = [pods EXCEPT ![i] = NoPod]
  /\ UNCHANGED <<spec, status, cache, sts, member, inited, inflight, vol, pass, now, edits>>

\* reconcileClustering initializes the cluster and corrects a node's IP; the
\* node's heartbeat then reaches the Primary, which marks lost nodes late.
Membership(i) ==
  /\ \/ /\ i = 0 /\ ~inited /\ sts.replicas > 1 /\ Up(0)
        /\ inited' = TRUE /\ UNCHANGED member
     \/ /\ i # 0 /\ inited /\ Up(i) /\ Up(0) /\ ~member[i].ip
        /\ member' = [member EXCEPT ![i].ip = TRUE] /\ UNCHANGED inited
     \/ /\ i # 0 /\ inited /\ Up(i) /\ Up(0) /\ member[i].ip
        /\ ~(member[i].conn /\ member[i].heard)
        /\ member' = [member EXCEPT ![i].conn = TRUE, ![i].heard = TRUE] /\ UNCHANGED inited
  /\ UNCHANGED pods /\ Track({})
  /\ UNCHANGED <<spec, status, cache, sts, vol, pass, now, edits, faults>>

NoticeLost(i) ==
  /\ i # 0 /\ member[i].conn /\ ~Up(i)
  /\ member' = [member EXCEPT ![i].conn = FALSE]
  /\ UNCHANGED <<spec, status, cache, sts, pods, inited, inflight, vol, pass, now, edits, faults>>

\* No rollout is under way: the spec is applied, every pod runs the template,
\* the operator has seen it and the status says so.
Quiescent ==
  /\ cache = sts
  /\ sts.exists /\ sts.observed /\ sts.partition = 0
  /\ DesiredSts([spec |-> spec, status |-> status], sts) = sts
  /\ sts.currentRev = sts.template /\ sts.updateRev = sts.template
  /\ \A i \in Replicas : pods[i].on /\ pods[i].rev = sts.template
  /\ \A i \in Ordinals \ Replicas : ~pods[i].on
  /\ inflight = {} /\ status.reason \notin {"RollingOut", "Stalled"}

EditSpec ==
  /\ edits < MaxEdits /\ edits' = edits + 1
  /\ MidRollout \/ Quiescent
  /\ spec' \in ClusterSpec \ {spec}
  /\ UNCHANGED <<status, cache, kube, pass, now, faults>>

\* A tick (minutes) is long against a pass and against the lag of a watch.
Tick ==
  /\ now < MaxTime /\ now' = now + 1
  /\ pc = "idle" /\ cache = sts /\ sts.observed
  /\ UNCHANGED <<spec, status, cache, kube, pass, edits, faults>>

World ==
  \/ StsObserve \/ StsComplete \/ EditSpec \/ Tick
  \/ \E i \in Ordinals :
        \/ StsCreatePod(i) \/ StsUpdatePod(i) \/ StsScaleDown(i)
        \/ PodReady(i) \/ PodFails(i) \/ Membership(i) \/ NoticeLost(i)

Next == Operator \/ World

\* A failed pass is retried with backoff, a finished one is requeued; the
\* StatefulSet controller, the kubelets, the nodes' heartbeats and the clock
\* keep going (the clock ticks between passes).  Edits, faults and the notice of
\* a lost node need never come.
Fairness ==
  /\ WF_vars(Begin) /\ WF_vars(reconcileStatefulSet) /\ WF_vars(WalkIdle \/ WalkWait \/ Walk)
  /\ WF_vars(release) /\ WF_vars(updateStatus) /\ WF_vars(CacheSync)
  /\ WF_vars(StsObserve) /\ WF_vars(StsComplete) /\ SF_vars(Tick)
  /\ \A i \in Ordinals :
        /\ WF_vars(StsCreatePod(i)) /\ WF_vars(StsUpdatePod(i)) /\ WF_vars(StsScaleDown(i))
        /\ WF_vars(PodReady(i)) /\ WF_vars(Membership(i))

Spec == Init /\ [][Next]_vars /\ Fairness

-----------------------------------------------------------------------------
(* Properties. *)

\* Type correctness of the whole state.
TypeOK ==
  /\ spec \in ClusterSpec /\ status \in Status
  /\ sts \in StatefulSet /\ cache \in StatefulSet
  /\ pods \in [Ordinals -> [on : BOOLEAN, rev : Template, ready : BOOLEAN]]
  /\ member \in [Ordinals -> [conn : BOOLEAN, ip : BOOLEAN, heard : BOOLEAN]]
  /\ inited \in BOOLEAN
  /\ pc \in {"idle", "reread", "sts", "walk", "release", "status"}
  /\ tc \in [spec : ClusterSpec, status : Status]
  /\ out \in [sts : StatefulSet, templateChanged : BOOLEAN, downgrade : BOOLEAN]
  /\ result \in Status
  /\ now \in 0 .. MaxTime /\ edits \in 0 .. MaxEdits /\ faults \in 0 .. MaxFaults
  /\ inflight \subseteq Ordinals /\ vol \in [Ordinals -> Images \cup {0}]

\* The rollout never has two nodes out of service: one it took down is Ready,
\* and the Primary has heard from its new pod, before the next one goes down
\* (walkRollout releasing an ordinal only when every released one is gated).
OneRestartAtATime == \A i, j \in inflight : i = j

\* No node is started on an older version than its data volume has seen, tags
\* being parseable and the annotation absent (checkDowngrade and the partition,
\* which decides the revision an evicted pod is recreated on).
VolumeNeverDowngraded ==
  (~AllowDowngrade /\ Unparseable = {}) => \A i \in Ordinals : pods[i].on => pods[i].rev.image >= vol[i]

\* "Every node runs <version>" is written only when no pod runs another template
\* (walkRollout's idle outcome, carried over to updateStatus).
UpToDateIsTrue ==
  [][(pc = "status" /\ pc' = "idle" /\ result.reason = "UpToDate" /\ faults' = faults)
       => \A i \in Replicas : pods[i].on => pods[i].rev = sts.template]_vars

\* While a template is being rolled out, a pass only ever moves the partition
\* down by one, whatever stale StatefulSet it read (release's unlocked patch).
PartitionWalksDown ==
  [][(sts.exists /\ sts'.template = sts.template /\ sts'.replicas = sts.replicas
       /\ sts'.partition # sts.partition) => sts'.partition = sts.partition - 1]_vars

\* A node that never passes its gate is reported: with the bookmark written at
\* time 0 and the broken template in place, the rollout ends up Stalled
\* (walkRollout keeping NodeStartedTime while it waits on the same node).
StallReported ==
  (/\ now = 0 /\ status.reason = "RollingOut" /\ status.node # NoNode
   /\ sts.template.image \in Broken)
    ~> (status.reason = "Stalled" /\ status.degraded # "None")

\* Once edits and faults are over, every node ends up Ready on the wanted
\* template and the walk is reported finished (the requeue of every pass), unless
\* an image that never becomes Ready has been rolled out.
RolloutCompletes ==
  <>[](\/ \E i \in Replicas : pods[i].on /\ pods[i].rev.image \in Broken
       \/ /\ sts.exists /\ sts.replicas = spec.replicas
          /\ AllowDowngrade => sts.template = podTemplateFor(spec.image, spec.replicas)
          /\ sts.template.image >= spec.image
          /\ \A i \in Replicas : Back(i) /\ pods[i].rev = sts.template
          /\ status.reason \in {"UpToDate", "DowngradeBlocked"})
=============================================================================
