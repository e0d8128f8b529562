--------------------------- MODULE RolloutProofs ----------------------------
(***************************************************************************)
(* The proofs about Rollout, for every value of its constants: type        *)
(* correctness; that the operator's steps, then those of the StatefulSet   *)
(* controller, the pods and the user, keep the invariant of RolloutInv;    *)
(* and what holds of every rollout that is not edited while it runs.       *)
(***************************************************************************)
EXTENDS RolloutInv, TLAPS

(* Type correctness. *)

\* The constants' derived values have their types.
LEMMA ConstantTypes ==
  /\ NoTemplate \in Template /\ NoSts \in StatefulSet /\ NoStatus \in Status
  /\ NoSpec \in ClusterSpec /\ NoTc \in [spec : ClusterSpec, status : Status]
  /\ NoOut \in [sts : StatefulSet, templateChanged : BOOLEAN, downgrade : BOOLEAN]
  /\ NoPod \in [on : BOOLEAN, rev : Template, ready : BOOLEAN]
  /\ 0 \in 0 .. MaxTime /\ 0 \in 0 .. MaxEdits /\ 0 \in 0 .. MaxFaults
<1>1. NoTemplate \in Template
  BY RolloutConstants DEF NoTemplate, Template
<1>2. NoSts \in StatefulSet
  BY <1>1, RolloutConstants DEF NoSts, StatefulSet
<1>3. NoStatus \in Status
  BY RolloutConstants DEF NoStatus, Status, Reasons, Degraded, NoNode
<1>4. NoSpec \in ClusterSpec
  BY <1>1, RolloutConstants DEF NoSpec, ClusterSpec, Template
<1>5. QED
  BY <1>1, <1>2, <1>3, <1>4, RolloutConstants DEF NoTc, NoOut, NoPod

\* The image to deploy is an image.
LEMMA EffectiveType ==
  ASSUME NEW t \in [spec : ClusterSpec, status : Status], NEW s \in StatefulSet
  PROVE  effective(t, s) \in Images
BY DEF effective, ClusterSpec, StatefulSet, Template

\* What CreateOrUpdate writes is a StatefulSet with at least one replica, its
\* partition at most the replica count, and 0 for a single replica.
LEMMA DesiredType ==
  ASSUME NEW t \in [spec : ClusterSpec, status : Status], NEW image \in Images, NEW s \in StatefulSet
  PROVE  /\ Desired(t, image, s) \in StatefulSet
         /\ Desired(t, image, s).exists /\ Desired(t, image, s).replicas = t.spec.replicas
         /\ Desired(t, image, s).replicas > 0
<1>1. t.spec.replicas \in MinReplicas .. MaxReplicas
  BY DEF ClusterSpec
<1>2. s.template \in Template /\ s.partition \in 0 .. MaxReplicas
  BY DEF StatefulSet
<1>. DEFINE template == podTemplateFor(image, t.spec.replicas)
<1>3. template \in Template
  BY <1>1, RolloutConstants DEF podTemplateFor, Template
<1>4. QED
  BY <1>1, <1>2, <1>3, RolloutConstants DEF Desired, StatefulSet, Lesser

-----------------------------------------------------------------------------
(* Type correctness. *)

\* TypeOK, with what keeps release from lowering a partition below zero.
TypeInv ==
  /\ TypeOK
  /\ pc \in {"walk", "release"} => out.sts.replicas > 0
  /\ pc = "release" => out.sts.partition > 0

\* The initial state is well typed.
LEMMA TypeInit == Init => TypeInv
<1>. SUFFICES ASSUME Init PROVE TypeInv
  OBVIOUS
<1>1. spec \in ClusterSpec /\ status \in Status /\ sts \in StatefulSet /\ cache \in StatefulSet
  BY ConstantTypes DEF Init
<1>2. pods \in [Ordinals -> [on : BOOLEAN, rev : Template, ready : BOOLEAN]]
  BY ConstantTypes DEF Init
<1>3. member \in [Ordinals -> [conn : BOOLEAN, ip : BOOLEAN, heard : BOOLEAN]]
  BY DEF Init
<1>4. QED
  BY <1>1, <1>2, <1>3, ConstantTypes, Zenon DEF Init, TypeInv, TypeOK

\* What a walk reports is a status.
LEMMA RolloutStateType ==
  ASSUME NEW reason \in {"UpToDate", "RollingOut"}, NEW node \in Ordinals \cup {NoNode},
         NEW started \in 0 .. MaxTime
  PROVE  RolloutState(reason, node, started) \in Status
BY DEF RolloutState, Status, Reasons, Degraded

\* summarizeVersions yields a known version, or 0.
LEMMA SummaryType ==
  ASSUME NEW N, NEW nodes \in [N -> Images \cup {0}]
  PROVE  summarizeVersions(nodes) \in Images \cup {0}
<1>. DEFINE reported == {nodes[i] : i \in DOMAIN nodes} \ {0}
<1>1. reported \subseteq Images
  OBVIOUS
<1>2. QED
  BY <1>1 DEF summarizeVersions

\* Every step of the pass keeps the types.
LEMMA TypeOperator == TypeInv /\ Operator => TypeInv'
<1>. SUFFICES ASSUME TypeInv, Operator PROVE TypeInv'
  OBVIOUS
<1>. USE ConstantTypes DEF TypeInv
<1>1. CASE Begin
  BY <1>1 DEF Begin, TypeOK, kube
<1>2. CASE reconcileStatefulSet
  <2>. DEFINE want == Desired(tc, effective(tc, Existing), cache)
  <2>1. want \in StatefulSet /\ want.replicas > 0
    <3>1. Existing \in StatefulSet /\ cache \in StatefulSet /\ tc \in [spec : ClusterSpec, status : Status]
      BY DEF TypeOK, Existing
    <3>2. effective(tc, Existing) \in Images
      BY <3>1, EffectiveType
    <3>3. QED
      BY <3>1, <3>2, DesiredType
  <2>2. ASSUME NEW s \in StatefulSet
        PROVE  Outcome(s) \in [sts : StatefulSet, templateChanged : BOOLEAN, downgrade : BOOLEAN]
    BY DEF Outcome, TypeOK, StatefulSet, checkDowngrade
  <2>3. CASE want = cache /\ pc' = "walk" /\ out' = Outcome(cache) /\ UNCHANGED <<status, tc, result, sts, inflight>>
    BY <1>2, <2>1, <2>2, <2>3 DEF reconcileStatefulSet, TypeOK, Outcome
  <2>4. CASE /\ sts' = [want EXCEPT !.observed = FALSE]
             /\ inflight' = {i \in inflight : i < want.replicas}
             /\ pc' = "walk" /\ out' = Outcome(sts') /\ UNCHANGED <<status, tc, result>>
    <3>1. sts' \in StatefulSet /\ sts'.replicas > 0
      BY <2>1, <2>4, Zenon DEF StatefulSet
    <3>2. QED
      BY <1>2, <3>1, <2>2, <2>4, Zenon DEF reconcileStatefulSet, TypeOK, Outcome
  <2>5. CASE markDegraded /\ EndPass /\ UNCHANGED <<sts, inflight>>
    <3>1. status' \in Status
      BY <2>5, Zenon DEF markDegraded, TypeOK, Status, Degraded
    <3>2. QED
      BY <1>2, <2>5, <3>1 DEF reconcileStatefulSet, TypeOK, EndPass
  <2>6. QED
    BY <1>2, <2>3, <2>4, <2>5 DEF reconcileStatefulSet
<1>3. CASE WalkIdle
  <2>1. RolloutState("UpToDate", NoNode, 0) \in Status
    BY RolloutStateType
  <2>2. QED
    BY <1>3, <2>1 DEF WalkIdle, Report, TypeOK, kube
<1>4. CASE WalkWait
  <2>1. tc.status.node \in Ordinals \cup {NoNode} /\ tc.status.started \in 0 .. MaxTime
    BY DEF TypeOK, Status
  <2>2. RolloutState("RollingOut", NoNode, 0) \in Status
    BY RolloutStateType
  <2>3. [RolloutState("RollingOut", NoNode, 0) EXCEPT
           !.node = tc.status.node, !.started = tc.status.started] \in Status
    BY <2>1, <2>2, Zenon DEF Status
  <2>4. QED
    BY <1>4, <2>3 DEF WalkWait, Report, TypeOK, kube
<1>5. ASSUME NEW gated, Walking, WalkFrom(gated), faults' \in 0 .. MaxFaults
      PROVE  TypeInv'
  <2>1. Released \subseteq Ordinals
    BY RolloutConstants DEF Released, TypeOK, StatefulSet, Ordinals, Lesser
  <2>2. RolloutState("UpToDate", NoNode, 0) \in Status
    BY RolloutStateType
  <2>3. ASSUME NEW pending \in Released
        PROVE  RolloutState("RollingOut", pending,
                 IF tc.status.node = pending THEN tc.status.started ELSE now) \in Status
    <3>1. tc.status.started \in 0 .. MaxTime /\ now \in 0 .. MaxTime
      BY DEF TypeOK, Status
    <3>2. QED
      BY <2>1, <3>1, RolloutStateType
  <2>4. \/ /\ out.sts.partition > 0 /\ pc' = "release" /\ UNCHANGED <<tc, out, result>>
        \/ pc' = "status" /\ result' \in Status /\ UNCHANGED <<tc, out>>
    BY <1>5, <2>2, <2>3 DEF WalkFrom, Report
  <2>5. QED
    BY <1>5, <2>4 DEF Walking, TypeOK, kube
<1>6. CASE Walk
  BY <1>5, <1>6 DEF Walk, TypeOK
<1>7. CASE WalkUnreadable
  <2>1. faults' \in 0 .. MaxFaults
    BY <1>7, RolloutConstants DEF WalkUnreadable, TypeOK
  <2>2. QED
    BY <1>5, <1>7, <2>1 DEF WalkUnreadable
<1>8. CASE release
  <2>. DEFINE next == Lesser(out.sts.partition, out.sts.replicas) - 1
  <2>1. next \in 0 .. MaxReplicas - 1
    BY <1>8, RolloutConstants DEF release, TypeOK, StatefulSet, Lesser
  <2>. HIDE DEF next
  <2>2. sts' \in StatefulSet
    <3>1. next \in 0 .. MaxReplicas
      BY <2>1, RolloutConstants
    <3>2. sts' = IF sts.partition = next THEN sts
                 ELSE [sts EXCEPT !.partition = next, !.observed = FALSE]
      BY <1>8 DEF release, next
    <3>3. QED
      BY <3>1, <3>2, Zenon DEF TypeOK, StatefulSet
  <2>3. RolloutState("RollingOut", next, now) \in Status
    BY <2>1, RolloutStateType DEF TypeOK, Ordinals
  <2>4. QED
    BY <1>8, <2>2, <2>3 DEF release, Report, TypeOK, next
<1>9. CASE updateStatus
  <2>1. status.version \in Images \cup {0}
    BY DEF TypeOK, Status
  <2>2. status' \in Status
    <3>1. PICK v \in Images \cup {0} : status' = [result EXCEPT !.version = v]
      <4>1. CASE status' = [result EXCEPT !.version = status.version]
        BY <2>1, <4>1
      <4>2. ASSUME NEW nodes \in [0 .. spec.replicas - 1 -> Images \cup {0}],
                   status' = [result EXCEPT !.version = summarizeVersions(nodes)]
            PROVE  \E v \in Images \cup {0} : status' = [result EXCEPT !.version = v]
        BY <4>2, SummaryType
      <4>3. QED
        BY <1>9, <4>1, <4>2 DEF updateStatus
    <3>2. result \in Status
      BY DEF TypeOK
    <3>3. QED
      BY <3>1, <3>2, ZenonT(30) DEF Status
  <2>3. QED
    BY <1>9, <2>2 DEF updateStatus, EndPass, TypeOK, kube
<1>10. CASE PassFails
  <2>1. faults' \in 0 .. MaxFaults
    BY <1>10, RolloutConstants DEF PassFails, TypeOK
  <2>2. status' \in Status
    <3>1. status \in Status
      BY DEF TypeOK
    <3>2. CASE markDegraded
      BY <3>1, <3>2, ZenonT(30) DEF markDegraded, Status, Degraded
    <3>3. CASE UNCHANGED status
      BY <3>1, <3>3
    <3>4. QED
      BY <1>10, <3>2, <3>3 DEF PassFails
  <2>3. QED
    BY <1>10, <2>1, <2>2 DEF PassFails, EndPass, TypeOK, kube
<1>11. CASE CacheSync
  BY <1>11 DEF CacheSync, TypeOK, kube, pass
<1>12. CASE ReadDeployed
  <2>1. faults' \in 0 .. MaxFaults
    BY <1>12, RolloutConstants DEF ReadDeployed, TypeOK
  <2>2. out' \in [sts : StatefulSet, templateChanged : BOOLEAN, downgrade : BOOLEAN]
    BY <1>12, Zenon DEF ReadDeployed, TypeOK
  <2>3. QED
    BY <1>12, <2>1, <2>2 DEF ReadDeployed, TypeOK, kube
<1>13. QED
  BY <1>1, <1>2, <1>3, <1>4, <1>6, <1>7, <1>8, <1>9, <1>10, <1>11, <1>12 DEF Operator

\* Every step of the world keeps the types.
LEMMA TypeWorld == TypeInv /\ World => TypeInv'
<1>. SUFFICES ASSUME TypeInv, World PROVE TypeInv'
  OBVIOUS
<1>. USE ConstantTypes DEF TypeInv
<1>1. CASE StsObserve
  <2>1. sts' \in StatefulSet
    BY <1>1, Zenon DEF StsObserve, TypeOK, StatefulSet
  <2>2. QED
    BY <1>1, <2>1 DEF StsObserve, TypeOK, pass
<1>2. CASE StsComplete
  <2>1. sts' \in StatefulSet
    BY <1>2 DEF StsComplete, TypeOK, StatefulSet
  <2>2. QED
    BY <1>2, <2>1 DEF StsComplete, TypeOK, pass
<1>3. CASE EditSpec
  BY <1>3, RolloutConstants DEF EditSpec, TypeOK, kube, pass
<1>4. CASE Tick
  BY <1>4, RolloutConstants DEF Tick, TypeOK, kube, pass
<1>5. ASSUME NEW i \in Ordinals, StsCreatePod(i)
      PROVE  TypeInv'
  <2>. DEFINE rev == IF i < sts.partition THEN sts.currentRev ELSE sts.template
  <2>1. rev \in Template /\ rev.image \in Images
    BY DEF TypeOK, StatefulSet, Template
  <2>2. pods' \in [Ordinals -> [on : BOOLEAN, rev : Template, ready : BOOLEAN]]
    BY <1>5, <2>1 DEF StsCreatePod, TypeOK
  <2>3. vol' \in [Ordinals -> Images \cup {0}]
    BY <1>5, <2>1 DEF StsCreatePod, TypeOK
  <2>4. member' \in [Ordinals -> [conn : BOOLEAN, ip : BOOLEAN, heard : BOOLEAN]]
    <3>1. PICK ip \in {FALSE, member[i].ip} :
            member' = [member EXCEPT ![i].ip = ip, ![i].heard = FALSE]
      BY <1>5, Zenon DEF StsCreatePod
    <3>2. ip \in BOOLEAN
      BY Zenon DEF TypeOK
    <3>3. QED
      BY <3>1, <3>2, ZenonT(30) DEF TypeOK
  <2>5. QED
    BY <1>5, <2>2, <2>3, <2>4 DEF StsCreatePod, TypeOK, pass
<1>6. ASSUME NEW i \in Ordinals, StsUpdatePod(i)
      PROVE  TypeInv'
  BY <1>6 DEF StsUpdatePod, Track, TypeOK, pass
<1>7. ASSUME NEW i \in Ordinals, StsScaleDown(i)
      PROVE  TypeInv'
  BY <1>7 DEF StsScaleDown, TypeOK, pass
<1>8. ASSUME NEW i \in Ordinals, PodReady(i)
      PROVE  TypeInv'
  BY <1>8, ZenonT(30) DEF PodReady, Track, TypeOK, pass
<1>9. ASSUME NEW i \in Ordinals, PodFails(i)
      PROVE  TypeInv'
  <2>1. pods' \in [Ordinals -> [on : BOOLEAN, rev : Template, ready : BOOLEAN]]
    <3>1. CASE pods' = [pods EXCEPT ![i].ready = FALSE]
      BY <3>1, Zenon DEF TypeOK
    <3>2. CASE pods' = [pods EXCEPT ![i] = NoPod]
      BY <3>2 DEF TypeOK
    <3>3. QED
      BY <1>9, <3>1, <3>2 DEF PodFails
  <2>2. faults' \in 0 .. MaxFaults
    BY <1>9, RolloutConstants DEF PodFails, TypeOK
  <2>3. QED
    BY <1>9, <2>1, <2>2 DEF PodFails, TypeOK, pass
<1>10. ASSUME NEW i \in Ordinals, Membership(i)
       PROVE  TypeInv'
  <2>1. member' \in [Ordinals -> [conn : BOOLEAN, ip : BOOLEAN, heard : BOOLEAN]] /\ inited' \in BOOLEAN
    <3>1. CASE inited' = TRUE /\ UNCHANGED member
      BY <3>1 DEF TypeOK
    <3>2. CASE member' = [member EXCEPT ![i].ip = TRUE] /\ UNCHANGED inited
      BY <3>2, ZenonT(30) DEF TypeOK
    <3>3. CASE member' = [member EXCEPT ![i].conn = TRUE, ![i].heard = TRUE] /\ UNCHANGED inited
      BY <3>3, ZenonT(30) DEF TypeOK
    <3>4. QED
      BY <1>10, <3>1, <3>2, <3>3, Zenon DEF Membership
  <2>2. inflight' \subseteq Ordinals
    BY <1>10 DEF Membership, Track, TypeOK
  <2>3. QED
    BY <1>10, <2>1, <2>2 DEF Membership, TypeOK, pass
<1>11. ASSUME NEW i \in Ordinals, NoticeLost(i)
       PROVE  TypeInv'
  BY <1>11, ZenonT(30) DEF NoticeLost, TypeOK, pass
<1>12. QED
  BY <1>1, <1>2, <1>3, <1>4, <1>5, <1>6, <1>7, <1>8, <1>9, <1>10, <1>11 DEF World

\* Every step keeps the types.
LEMMA TypeStep == TypeInv /\ [Next]_vars => TypeInv'
<1>1. TypeInv /\ UNCHANGED vars => TypeInv'
  BY DEF TypeInv, TypeOK, vars, kube, pass
<1>2. QED
  BY <1>1, TypeOperator, TypeWorld DEF Next

\* The state is always well typed; in particular no pass lowers the partition
\* below zero (walkRollout's "partition > 0" test before it releases).
THEOREM TypeCorrect == Spec => []TypeOK
<1>1. TypeInv => TypeOK
  BY DEF TypeInv
<1>2. QED
  BY <1>1, TypeInit, TypeStep, PTL DEF Spec

-----------------------------------------------------------------------------
(* The operator's steps. *)

(* What CreateOrUpdate asks for, and when it asks for no change. *)

\* The image the downgrade guard leaves, every tag being parseable.
LEMMA EffectiveIsKept ==
  ASSUME Undisturbed, NEW t, NEW s
  PROVE  effective(t, s) = KeptImage(t, s)
<1>1. checkDowngrade(t, s) <=> ~AllowDowngrade /\ s.exists /\ t.spec.image < s.template.image
  BY DEF Undisturbed, checkDowngrade
<1>2. QED
  BY <1>1 DEF KeptImage, effective

\* What CreateOrUpdate asks for, field by field, every tag being parseable.
LEMMA DesiredFields ==
  ASSUME Undisturbed, NEW t \in [spec : ClusterSpec, status : Status], NEW s \in StatefulSet
  PROVE  LET w == DesiredSts(t, s) IN
         /\ w \in StatefulSet /\ w.exists
         /\ w.replicas = t.spec.replicas /\ w.replicas \in Nat \ {0}
         /\ w.template = podTemplateFor(KeptImage(t, s), t.spec.replicas)
         /\ w.partition = IF ~s.exists \/ t.spec.replicas <= 1 THEN 0
                          ELSE IF s.template # w.template THEN t.spec.replicas
                          ELSE Lesser(s.partition, t.spec.replicas)
         /\ w.observed = s.observed
         /\ s.exists => w.updateRev = s.updateRev /\ w.currentRev = s.currentRev
<1>1. DesiredSts(t, s) \in StatefulSet /\ DesiredSts(t, s).replicas > 0
  BY EffectiveType, DesiredType DEF DesiredSts
<1>3. effective(t, s) = KeptImage(t, s)
  BY EffectiveIsKept
<1>4. t.spec.replicas \in Nat
  BY RolloutConstants DEF ClusterSpec
<1>5. /\ DesiredSts(t, s).exists /\ DesiredSts(t, s).replicas = t.spec.replicas
      /\ DesiredSts(t, s).observed = s.observed
  BY DEF DesiredSts, Desired
<1>6. DesiredSts(t, s).template = podTemplateFor(KeptImage(t, s), t.spec.replicas)
  BY <1>3 DEF DesiredSts, Desired
<1>7. DesiredSts(t, s).partition = IF ~s.exists \/ t.spec.replicas <= 1 THEN 0
                                   ELSE IF s.template # DesiredSts(t, s).template THEN t.spec.replicas
                                   ELSE Lesser(s.partition, t.spec.replicas)
  BY DEF DesiredSts, Desired
<1>8. s.exists => DesiredSts(t, s).updateRev = s.updateRev /\ DesiredSts(t, s).currentRev = s.currentRev
  BY DEF DesiredSts, Desired
<1>9. QED
  BY <1>1, <1>4, <1>5, <1>6, <1>7, <1>8

\* Two StatefulSets that agree on every field are equal.
LEMMA StsEquality ==
  ASSUME NEW a \in StatefulSet, NEW b \in StatefulSet,
         a.exists = b.exists, a.template = b.template, a.replicas = b.replicas,
         a.partition = b.partition, a.observed = b.observed,
         a.updateRev = b.updateRev, a.currentRev = b.currentRev
  PROVE  a = b
BY DEF StatefulSet

\* CreateOrUpdate asks for no change exactly when these fields are as wanted.
LEMMA AppliedFields ==
  ASSUME Undisturbed, NEW t \in [spec : ClusterSpec, status : Status], NEW s \in StatefulSet, s.exists
  PROVE  DesiredSts(t, s) = s <=>
           /\ s.replicas = t.spec.replicas
           /\ s.template = podTemplateFor(KeptImage(t, s), t.spec.replicas)
           /\ s.partition = IF t.spec.replicas <= 1 THEN 0 ELSE Lesser(s.partition, t.spec.replicas)
<1>. DEFINE w == DesiredSts(t, s)
<1>1. w \in StatefulSet /\ w.exists /\ w.observed = s.observed
      /\ w.updateRev = s.updateRev /\ w.currentRev = s.currentRev
  BY DesiredFields
<1>2. w = s <=> w.template = s.template /\ w.replicas = s.replicas /\ w.partition = s.partition
  <2>. HIDE DEF w
  <2>1. w.exists = s.exists
    BY <1>1 DEF StatefulSet
  <2>. QED
    BY <1>1, <2>1, StsEquality, Zenon
<1>3. QED
  BY <1>2, DesiredFields

\* Moving the partition, or what the StatefulSet controller reports, leaves an
\* applied spec applied.
LEMMA AppliedStable ==
  ASSUME Undisturbed, NEW t \in [spec : ClusterSpec, status : Status],
         NEW u \in [spec : ClusterSpec, status : Status],
         NEW s \in StatefulSet, NEW s2 \in StatefulSet,
         s.exists, DesiredSts(t, s) = s, u.spec = t.spec,
         s2.exists, s2.template = s.template, s2.replicas = s.replicas,
         s2.partition <= s2.replicas, s2.partition > 0 => s2.replicas > 1
  PROVE  DesiredSts(u, s2) = s2
<1>1. s.replicas = t.spec.replicas /\ s.template = podTemplateFor(KeptImage(t, s), t.spec.replicas)
  BY AppliedFields
<1>2. KeptImage(u, s2) = KeptImage(t, s)
  BY DEF KeptImage
<1>3. s2.partition = IF u.spec.replicas <= 1 THEN 0 ELSE Lesser(s2.partition, u.spec.replicas)
  BY <1>1 DEF Lesser, StatefulSet
<1>4. QED
  BY <1>1, <1>2, <1>3, AppliedFields

\* What was just written is applied.
LEMMA WrittenIsApplied ==
  ASSUME Undisturbed, NEW t \in [spec : ClusterSpec, status : Status],
         NEW u \in [spec : ClusterSpec, status : Status], u.spec = t.spec,
         NEW s \in StatefulSet, WellFormed(s)
  PROVE  LET w == [DesiredSts(t, s) EXCEPT !.observed = FALSE] IN
         w \in StatefulSet /\ w.exists /\ WellFormed(w) /\ DesiredSts(u, w) = w
<1>. DEFINE d == DesiredSts(t, s)
            w == [d EXCEPT !.observed = FALSE]
<1>1. /\ d \in StatefulSet /\ d.exists /\ d.replicas = t.spec.replicas /\ d.replicas \in Nat \ {0}
      /\ d.template = podTemplateFor(KeptImage(t, s), t.spec.replicas)
      /\ d.partition = IF ~s.exists \/ t.spec.replicas <= 1 THEN 0
                       ELSE IF s.template # d.template THEN t.spec.replicas
                       ELSE Lesser(s.partition, t.spec.replicas)
  BY DesiredFields
<1>. HIDE DEF d
<1>2. /\ w \in StatefulSet /\ w.exists /\ w.template = d.template /\ w.replicas = d.replicas
      /\ w.partition = d.partition /\ ~w.observed
  BY <1>1, Zenon DEF StatefulSet
<1>3. w.partition <= w.replicas /\ (w.partition > 0 => w.replicas > 1)
  BY <1>1, <1>2 DEF StatefulSet, Lesser
<1>4. KeptImage(u, w) = KeptImage(t, s)
  <2>1. t.spec.image \in Nat /\ s.template.image \in Nat
    BY RolloutConstants, Zenon DEF ClusterSpec, StatefulSet, Template
  <2>2. w.template.image = KeptImage(t, s)
    BY <1>1, <1>2 DEF podTemplateFor
  <2>3. QED
    BY <2>1, <2>2, <1>2 DEF KeptImage
<1>5. w.partition = IF u.spec.replicas <= 1 THEN 0 ELSE Lesser(w.partition, u.spec.replicas)
  BY <1>1, <1>2, <1>3 DEF Lesser, StatefulSet
<1>6. w.replicas = u.spec.replicas /\ w.template = podTemplateFor(KeptImage(u, w), u.spec.replicas)
  BY <1>1, <1>2, <1>4
<1>7. DesiredSts(u, w) = w
  <2>. HIDE DEF w
  <2>. QED
    BY <1>2, <1>5, <1>6, AppliedFields
<1>8. QED
  BY <1>2, <1>3, <1>7 DEF WellFormed, d

-----------------------------------------------------------------------------
(* The inductive invariant. *)

\* The facts about the order of the naturals that the steps below rest on.
LEMMA NatOrder ==
  /\ \A m, n \in Nat : ~(m < n /\ n < m)
  /\ \A m, n \in Nat : m >= n => ~(m < n)
  /\ \A m, n \in Nat : ~(m < n) => m >= n
  /\ \A m, n \in Nat : n < m => m >= n
  /\ \A m, n \in Nat : m = n => m >= n
  /\ \A l, m, n \in Nat : l <= m /\ m <= n => l <= n
  /\ \A n \in Nat : n <= n
OBVIOUS

\* The lesser of two naturals.
LEMMA LesserFacts ==
  /\ \A n \in Nat : Lesser(0, n) = 0
  /\ \A m, n \in Nat : m <= n => Lesser(m, n) = m
BY DEF Lesser

\* A StatefulSet's counts are naturals.
LEMMA StsNats ==
  ASSUME NEW s \in StatefulSet
  PROVE  s.partition \in Nat /\ s.replicas \in Nat
<1>1. s.partition \in 0 .. MaxReplicas /\ s.replicas \in 0 .. MaxReplicas
  BY DEF StatefulSet
<1>2. QED
  BY <1>1, RolloutConstants

\* Versions and ordinals are naturals.
LEMMA NatFacts ==
  ASSUME TypeOK
  PROVE  /\ \A i \in Ordinals : i \in Nat /\ vol[i] \in Nat /\ pods[i].rev.image \in Nat
         /\ sts.partition \in Nat /\ sts.replicas \in Nat
         /\ sts.template.image \in Nat /\ sts.currentRev.image \in Nat
<1>1. \A n \in Images \cup {0} : n \in Nat
  BY RolloutConstants
<1>2. \A i \in Ordinals : vol[i] \in Images \cup {0} /\ pods[i].rev.image \in Images
  <2>1. vol \in [Ordinals -> Images \cup {0}]
    BY DEF TypeOK
  <2>2. pods \in [Ordinals -> [on : BOOLEAN, rev : Template, ready : BOOLEAN]]
    BY DEF TypeOK
  <2>3. \A i \in Ordinals : vol[i] \in Images \cup {0}
    BY <2>1
  <2>4. QED
    BY <2>2, <2>3 DEF Template
<1>3. sts.template.image \in Images /\ sts.currentRev.image \in Images
      /\ sts.partition \in 0 .. MaxReplicas /\ sts.replicas \in 0 .. MaxReplicas
  <2>1. sts \in StatefulSet
    BY DEF TypeOK
  <2>2. QED
    BY <2>1 DEF StatefulSet, Template
<1>4. Ordinals \subseteq Nat
  BY RolloutConstants DEF Ordinals
<1>5. sts.partition \in Nat /\ sts.replicas \in Nat
  BY <1>3, RolloutConstants
<1>6. sts.template.image \in Nat /\ sts.currentRev.image \in Nat
  BY <1>1, <1>3
<1>7. \A i \in Ordinals : vol[i] \in Nat /\ pods[i].rev.image \in Nat
  BY <1>1, <1>2, Zenon
<1>8. QED
  BY <1>4, <1>5, <1>6, <1>7

\* The invariant holds initially: nothing exists yet.
LEMMA InvInit == Init => IInv
<1>. SUFFICES ASSUME Init PROVE IInv
  OBVIOUS
<1>0. Truthful
  BY DEF Init, Truthful, Behind, NoSts
<1>1. TypeOK
  BY TypeInit DEF TypeInv
<1>2. sts = NoSts /\ cache = NoSts /\ inflight = {} /\ pc = "idle"
  BY DEF Init
<1>3. \A i \in Ordinals : ~pods[i].on /\ vol[i] = 0
  BY DEF Init, NoPod
<1>4. NoTemplate.image \in Nat
  BY ConstantTypes, RolloutConstants, Zenon DEF Template
<1>5. Between
  <2>1. ~sts.exists /\ sts = cache
    BY <1>2 DEF NoSts
  <2>2. QED
    BY <1>2, <1>3, <1>4, <2>1 DEF Between, NoSts, WellFormed, Copy, Walked
<1>6. QED
  BY <1>0, <1>1, <1>2, <1>5 DEF IInv, InPass, Agreed

\* Between speaks of the spec, the StatefulSet, its cached copy and the world.
LEMMA BetweenUnchanged ==
  ASSUME Between, UNCHANGED <<spec, cache, kube>>
  PROVE  Between'
BY DEF Between, kube, WellFormed, Copy, Settled, Applied, Walked, Back, Up

\* Steps of the pass that only read, and the clock.
LEMMA InvReads ==
  ASSUME Undisturbed, TypeInv, IInv,
         Begin \/ ReadDeployed \/ WalkIdle \/ WalkWait \/ Walk \/ WalkUnreadable \/ updateStatus \/ PassFails \/ Tick
  PROVE  Between' /\ InPass'
<1>1. UNCHANGED <<spec, cache, kube>>
  BY DEF Begin, ReadDeployed, WalkIdle, WalkWait, Walk, WalkUnreadable, Walking, updateStatus, PassFails, Tick
<1>2. Between'
  BY <1>1, BetweenUnchanged DEF IInv
<1>3. CASE Begin \/ ReadDeployed
  BY <1>1, <1>2, <1>3 DEF Begin, ReadDeployed, InPass, IInv, kube, Applied
<1>4. CASE WalkIdle \/ WalkWait
  BY <1>1, <1>2, <1>4 DEF WalkIdle, WalkWait, Report, InPass
<1>5. CASE updateStatus \/ PassFails
  BY <1>1, <1>2, <1>5 DEF updateStatus, PassFails, EndPass, InPass
<1>6. CASE Tick
  BY <1>1, <1>2, <1>6 DEF Tick, InPass, pass
<1>7. ASSUME NEW gated, gated \subseteq Gated, Walking, WalkFrom(gated)
      PROVE  InPass'
  <2>1. CASE pc' = "status"
    BY <2>1 DEF InPass
  <2>2. CASE /\ Released \subseteq gated /\ out.sts.partition > 0
             /\ pc' = "release" /\ UNCHANGED <<tc, out, result>>
    <3>1. /\ out.sts.exists /\ WellFormed(out.sts) /\ Copy(out.sts)
          /\ cache.partition <= out.sts.partition /\ ~out.templateChanged
      BY <1>7, <2>2 DEF Walking, IInv, InPass
    <3>2. /\ out.sts.template = sts.template /\ out.sts.replicas = sts.replicas
          /\ out.sts.updateRev = sts.template
      BY <1>7, <2>2, <3>1 DEF Copy, WellFormed, Walking
    <3>3. ASSUME out.sts.partition = sts.partition, sts.partition < sts.replicas
          PROVE  Back(sts.partition) /\ pods[sts.partition].rev = sts.template
      <4>1. sts.partition \in Released
        BY <3>2, <3>3, RolloutConstants DEF Released, Lesser, TypeInv, TypeOK, StatefulSet
      <4>2. check(sts.partition)
        BY <1>7, <2>2, <4>1 DEF Gated
      <4>3. sts.partition # 0 /\ out.sts.replicas > 1
        BY <2>2, <3>1, <3>3 DEF WellFormed
      <4>4. QED
        BY <4>2, <4>3, <3>2 DEF check, Back, Up
    <3>4. out.sts.partition = sts.partition => inflight = {}
      BY <3>3 DEF IInv, Between, Walked
    <3>5. QED
      BY <1>1, <2>2, <3>1, <3>3, <3>4 DEF InPass, kube, WellFormed, Copy
  <2>3. QED
    BY <1>7, <2>1, <2>2 DEF WalkFrom, Report
<1>8. CASE Walk \/ WalkUnreadable
  BY <1>2, <1>7, <1>8 DEF Walk, WalkUnreadable
<1>9. QED
  BY <1>2, <1>3, <1>4, <1>5, <1>6, <1>8

\* A fresher copy of the StatefulSet is still a copy of it.
LEMMA InvCacheSync ==
  ASSUME Undisturbed, TypeInv, IInv, CacheSync
  PROVE  Between' /\ InPass'
<1>1. cache' = sts /\ UNCHANGED <<spec, kube, pass>>
  BY DEF CacheSync
<1>2. Between'
  <2>1. WellFormed(sts)' /\ WellFormed(cache)' /\ Copy(cache)'
    BY <1>1 DEF IInv, Between, WellFormed, Copy, kube, TypeInv, TypeOK, StatefulSet
  <2>2. QED
    BY <1>1, <2>1 DEF IInv, Between, kube, Settled, Applied, Walked, Back, Up
<1>3. InPass'
  <2>1. ASSUME Copy(out.sts), out.sts.partition > 0
        PROVE  sts.partition <= out.sts.partition
    BY <2>1 DEF Copy, TypeInv, TypeOK, StatefulSet
  <2>2. QED
    BY <1>1, <2>1 DEF IInv, InPass, kube, pass, WellFormed, Copy, Applied
<1>4. QED
  BY <1>2, <1>3

\* The pass's view of what to write depends on its spec alone.
LEMMA DesiredBySpec ==
  ASSUME Undisturbed, TypeInv, sts.exists, NEW t \in [spec : ClusterSpec, status : Status]
  PROVE  DesiredSts(t, sts) = sts <=> Applied(t.spec)
<1>. DEFINE u == [spec |-> t.spec, status |-> NoStatus]
<1>1. u \in [spec : ClusterSpec, status : Status] /\ u.spec = t.spec /\ sts \in StatefulSet
  BY ConstantTypes DEF TypeInv, TypeOK
<1>2. KeptImage(u, sts) = KeptImage(t, sts)
  BY <1>1 DEF KeptImage
<1>. HIDE DEF u
<1>3. DesiredSts(u, sts) = sts <=> DesiredSts(t, sts) = sts
  BY <1>1, <1>2, AppliedFields
<1>4. QED
  BY <1>3 DEF Applied, u

\* reconcileStatefulSet when both its reads return the same StatefulSet.
WriteOnce ==
  /\ pc \in {"sts", "reread"}
  /\ LET want == DesiredSts(tc, cache) IN
     \/ /\ want = cache
        /\ pc' = "walk" /\ out' = Outcome(cache)
        /\ UNCHANGED <<status, tc, result, sts, inflight>>
     \/ /\ want # cache /\ cache = sts
        /\ sts' = [want EXCEPT !.observed = FALSE]
        /\ inflight' = {i \in inflight : i < want.replicas}
        /\ pc' = "walk" /\ out' = Outcome(sts')
        /\ UNCHANGED <<status, tc, result>>
     \/ /\ want # cache /\ cache # sts
        /\ markDegraded /\ EndPass
        /\ UNCHANGED <<sts, inflight>>
  /\ UNCHANGED <<spec, cache, pods, member, inited, vol, now, edits, faults>>

\* The informer moving between the downgrade guard's read and CreateOrUpdate's
\* makes no difference to what is written.
LEMMA ReadsAgree ==
  ASSUME Undisturbed, IInv, reconcileStatefulSet
  PROVE  WriteOnce
<1>1. pc \in {"sts", "reread"}
  BY DEF reconcileStatefulSet
<1>2. KeptImage(tc, Existing) = KeptImage(tc, cache)
  BY <1>1 DEF IInv, Agreed, Existing
<1>3. Desired(tc, effective(tc, Existing), cache) = DesiredSts(tc, cache)
  BY <1>2, EffectiveIsKept DEF DesiredSts
<1>4. QED
  BY <1>3, Zenon DEF reconcileStatefulSet, WriteOnce

\* A write happens on a settled StatefulSet, or creates it; it starts a walk at
\* the top, or leaves every node on the template.
LEMMA InvWrite ==
  ASSUME Undisturbed, TypeInv, IInv, WriteOnce
  PROVE  Between' /\ InPass'
<1>. DEFINE want == DesiredSts(tc, cache)
<1>0. /\ tc \in [spec : ClusterSpec, status : Status] /\ cache \in StatefulSet /\ sts \in StatefulSet
      /\ UNCHANGED <<spec, cache, pods, member, inited, vol>> /\ pc \in {"sts", "reread"}
  <2>1. tc \in [spec : ClusterSpec, status : Status] /\ cache \in StatefulSet /\ sts \in StatefulSet
    BY DEF TypeInv, TypeOK
  <2>2. UNCHANGED <<spec, cache, pods, member, inited, vol>> /\ pc \in {"sts", "reread"}
    BY DEF WriteOnce
  <2>3. QED
    BY <2>1, <2>2
<1>1. CASE want = cache /\ pc' = "walk" /\ out' = Outcome(cache) /\ UNCHANGED <<status, tc, result, sts, inflight>>
  <2>1. Between'
    BY <1>0, <1>1, BetweenUnchanged DEF IInv, kube
  <2>2. out'.sts = cache /\ cache.exists
    BY <1>0, <1>1, DesiredFields DEF Outcome
  <2>3. cache.partition <= cache.partition
    BY <1>0 DEF StatefulSet
  <2>4. QED
    BY <1>0, <1>1, <2>1, <2>2, <2>3 DEF IInv, Between, InPass, WellFormed, Copy
<1>2. CASE markDegraded /\ EndPass /\ UNCHANGED <<sts, inflight>>
  BY <1>0, <1>2, BetweenUnchanged DEF EndPass, IInv, kube, InPass
<1>3. CASE /\ want # cache /\ cache = sts
           /\ sts' = [want EXCEPT !.observed = FALSE]
           /\ inflight' = {i \in inflight : i < want.replicas}
           /\ pc' = "walk" /\ out' = Outcome(sts') /\ UNCHANGED <<status, tc, result>>
  <2>1. ~sts.exists \/ (~Applied(tc.spec) /\ tc.spec = spec)
    BY <1>0, <1>3, DesiredBySpec DEF IInv, InPass
  <2>2. ~sts.exists \/ Settled
    BY <2>1 DEF IInv, Between
  <2>3. tc.spec = spec
    BY <1>0, <2>1 DEF IInv, InPass
  <2>4. sts' \in StatefulSet /\ sts'.exists /\ WellFormed(sts') /\ Applied(spec)'
    <3>. DEFINE u == [spec |-> spec, status |-> NoStatus]
    <3>1. u \in [spec : ClusterSpec, status : Status] /\ u.spec = tc.spec
      BY <2>3, ConstantTypes DEF TypeInv, TypeOK
    <3>2. WellFormed(cache)
      BY DEF IInv, Between
    <3>. HIDE DEF u
    <3>3. sts' \in StatefulSet /\ sts'.exists /\ WellFormed(sts') /\ DesiredSts(u, sts') = sts'
      BY <1>0, <1>3, <3>1, <3>2, WrittenIsApplied
    <3>4. QED
      BY <1>0, <3>3 DEF Applied, u
  <2>5. sts.partition = 0 /\ inflight = {} /\ inflight' = {}
    BY <1>0, <1>3, <2>2 DEF IInv, Between, Settled, WellFormed, StatefulSet
  <2>6. Copy(cache)' /\ WellFormed(cache)'
    BY <1>0, <1>3, <2>5 DEF IInv, Between, Copy, WellFormed
  <2>7. Walked'
    <3>1. /\ want \in StatefulSet /\ want.replicas \in Nat \ {0}
          /\ want.template = podTemplateFor(KeptImage(tc, sts), tc.spec.replicas)
          /\ want.partition = IF ~sts.exists \/ want.replicas <= 1 THEN 0
                              ELSE IF sts.template # want.template THEN want.replicas
                              ELSE Lesser(0, want.replicas)
          /\ sts.exists => want.currentRev = sts.currentRev
      BY <1>0, <1>3, <2>5, DesiredFields
    <3>2. /\ sts'.template = want.template /\ sts'.replicas = want.replicas
          /\ sts'.partition = want.partition /\ sts'.currentRev = want.currentRev
      BY <1>3, <3>1 DEF StatefulSet
    <3>3. ASSUME NEW i \in Ordinals, sts'.partition < i, i < sts'.replicas, pods[i].on
          PROVE  pods[i].rev = sts'.template
      <4>1. sts.exists /\ pods[i].rev = sts.template
        BY <2>2, <3>3 DEF IInv, Between, Settled
      <4>2. i \in Nat /\ want.replicas \in Nat
        BY <3>1, RolloutConstants DEF Ordinals
      <4>3. want.partition < i /\ i < want.replicas
        BY <3>2, <3>3
      <4>4. ASSUME sts.template # want.template PROVE FALSE
        <5>1. want.partition = want.replicas \/ want.replicas <= 1
          BY <3>1, <4>1, <4>4, Zenon
        <5>2. CASE want.partition = want.replicas
          BY <4>2, <4>3, <5>2, NatOrder, Zenon
        <5>3. CASE want.replicas <= 1
          <6>1. want.partition = 0
            BY <3>1, <5>3, Zenon
          <6>2. QED
            BY <4>2, <4>3, <5>3, <6>1
        <5>4. QED
          BY <5>1, <5>2, <5>3
      <4>5. QED
        BY <3>2, <4>1, <4>4, Zenon
    <3>4. ASSUME ~AllowDowngrade
          PROVE  /\ sts'.currentRev.image <= sts'.template.image
                 /\ \A i \in Ordinals : /\ vol[i] <= sts'.template.image
                                        /\ vol[i] <= sts'.currentRev.image
                                        /\ pods[i].on => vol[i] <= pods[i].rev.image
      <4>1. sts'.template.image = KeptImage(tc, sts) /\ tc.spec.image \in Nat /\ sts.template.image \in Nat
        <5>1. sts'.template.image = KeptImage(tc, sts)
          <6>1. \A image, n : podTemplateFor(image, n).image = image
            BY DEF podTemplateFor
          <6>2. want.template = podTemplateFor(KeptImage(tc, sts), tc.spec.replicas) /\ sts'.template = want.template
            BY <3>1, <3>2, Zenon
          <6>3. QED
            BY <6>1, <6>2, Zenon
        <5>2. tc.spec.image \in Images /\ sts.template.image \in Images
          BY <1>0 DEF ClusterSpec, StatefulSet, Template
        <5>3. QED
          BY <5>1, <5>2, RolloutConstants, Zenon
      <4>2. CASE sts.exists
        <5>1. sts'.currentRev = sts.template /\ sts.template.image <= sts'.template.image
          <6>1. sts'.currentRev = sts.template
            BY <2>2, <3>1, <3>2, <4>2, Zenon DEF Settled
          <6>2. KeptImage(tc, sts) = IF tc.spec.image < sts.template.image
                                     THEN sts.template.image ELSE tc.spec.image
            BY <3>4, <4>2, Zenon DEF KeptImage
          <6>3. sts.template.image <= KeptImage(tc, sts)
            BY <4>1, <6>2
          <6>4. QED
            BY <4>1, <6>1, <6>3, Zenon
        <5>2. \A i \in Ordinals : vol[i] \in Nat /\ vol[i] <= sts.template.image
                                  /\ (pods[i].on => vol[i] <= pods[i].rev.image)
          <6>1. \A i \in Ordinals : vol[i] \in Nat
            BY NatFacts DEF TypeInv
          <6>2. Walked
            BY DEF IInv, Between
          <6>3. QED
            BY <3>4, <6>1, <6>2, Zenon DEF Walked
        <5>3. sts'.template.image \in Nat
          BY <2>4, RolloutConstants, Zenon DEF StatefulSet, Template
        <5>4. QED
          BY <4>1, <5>1, <5>2, <5>3
      <4>3. CASE ~sts.exists
        <5>1. \A i \in Ordinals : ~pods[i].on /\ vol[i] = 0
          BY <4>3 DEF IInv, Between
        <5>2. sts'.currentRev = sts'.template
          BY <1>3, <3>1, <3>2, <4>3 DEF DesiredSts, Desired
        <5>3. sts'.template.image \in Nat
          BY <2>4, RolloutConstants, ZenonT(30) DEF StatefulSet, Template
        <5>4. QED
          BY <5>1, <5>2, <5>3
      <4>4. QED
        BY <4>2, <4>3
    <3>5. QED
      BY <1>0, <2>5, <3>3, <3>4 DEF Walked
  <2>8. Between'
    BY <2>4, <2>6, <2>7 DEF Between, WellFormed
  <2>9. InPass'
    <3>1. out'.sts = sts' /\ cache'.partition = 0
      BY <1>0, <1>3, <2>5 DEF Outcome
    <3>2. 0 <= sts'.partition
      BY <2>4, RolloutConstants DEF StatefulSet
    <3>3. QED
      BY <1>3, <2>4, <3>1, <3>2, Zenon DEF InPass, Copy, WellFormed
  <2>10. QED
    BY <2>8, <2>9
<1>4. QED
  BY <1>1, <1>2, <1>3 DEF WriteOnce

\* release moves the partition to just below ordinals that all passed the gate,
\* or, read from a stale copy, repeats the move already made.
LEMMA InvRelease ==
  ASSUME Undisturbed, TypeInv, IInv, TypeInv', release
  PROVE  Between' /\ InPass'
<1>. DEFINE next == Lesser(out.sts.partition, out.sts.replicas) - 1
<1>1. /\ out.sts.partition > 0 /\ WellFormed(out.sts) /\ Copy(out.sts)
      /\ cache.partition <= out.sts.partition
      /\ out.sts.partition = sts.partition =>
           /\ inflight = {}
           /\ \A i \in Ordinals : i = sts.partition /\ i < sts.replicas /\ pods[i].on => pods[i].rev = sts.template
  BY DEF release, IInv, InPass
<1>2. /\ sts \in StatefulSet /\ sts' \in StatefulSet /\ cache \in StatefulSet /\ out.sts \in StatefulSet
      /\ spec \in ClusterSpec
  BY DEF TypeInv, TypeOK
<1>3. next = out.sts.partition - 1 /\ next \in Nat
  <2>1. out.sts.partition \in Nat /\ out.sts.replicas \in Nat
    BY <1>2, StsNats
  <2>2. Lesser(out.sts.partition, out.sts.replicas) = out.sts.partition
    BY <1>1, <2>1, LesserFacts, Zenon DEF WellFormed
  <2>3. QED
    BY <1>1, <2>1, <2>2
<1>4. pc' = "status" /\ UNCHANGED <<spec, cache, pods, member, inited, inflight, vol>>
  BY DEF release, Report
<1>5. InPass'
  BY <1>4 DEF InPass
<1>6. CASE out.sts.partition = sts.partition + 1
  <2>1. sts' = sts
    BY <1>2, <1>3, <1>6 DEF release, StatefulSet
  <2>2. QED
    BY <1>4, <1>5, <2>1, BetweenUnchanged DEF IInv, kube
<1>7. CASE out.sts.partition = sts.partition
  <2>1. /\ sts'.exists = sts.exists /\ sts'.template = sts.template /\ sts'.replicas = sts.replicas
        /\ sts'.partition = sts.partition - 1 /\ ~sts'.observed
        /\ sts'.currentRev = sts.currentRev
    BY <1>2, <1>3, <1>7 DEF release, StatefulSet
  <2>2. sts.partition \in Nat /\ sts.partition > 0 /\ sts.exists /\ sts.replicas > 1 /\ sts.replicas \in Nat
        /\ sts.partition <= sts.replicas
    BY <1>1, <1>2, <1>7, NatFacts DEF IInv, Between, WellFormed
  <2>3. WellFormed(sts)' /\ WellFormed(cache)'
    BY <1>4, <2>1, <2>2 DEF IInv, Between, WellFormed
  <2>4. Copy(cache)'
    <3>1. cache.partition \in Nat /\ cache' = cache
      BY <1>2, <1>4, StsNats
    <3>2. cache.partition <= sts.partition
      BY <1>1, <1>7
    <3>3. ASSUME cache.partition > 0
          PROVE  /\ cache.template = sts.template /\ cache.replicas = sts.replicas
                 /\ cache.partition \in {sts.partition, sts.partition + 1}
      BY <3>3, Zenon DEF IInv, Between, Copy
    <3>4. cache.partition > 0 => cache.partition \in {sts'.partition, sts'.partition + 1}
      BY <2>1, <2>2, <3>1, <3>2, <3>3
    <3>5. QED
      BY <2>1, <3>1, <3>3, <3>4 DEF Copy
  <2>5. Applied(spec)'
    <3>. DEFINE u == [spec |-> spec, status |-> NoStatus]
    <3>1. u \in [spec : ClusterSpec, status : Status]
      BY <1>2, ConstantTypes
    <3>2. DesiredSts(u, sts) = sts
      <4>1. sts.partition # 0
        BY <2>2
      <4>2. Applied(spec)
        BY <2>2, <4>1, Zenon DEF IInv, Between, Settled
      <4>3. QED
        BY <4>2, Zenon DEF Applied
    <3>. HIDE DEF u
    <3>3. DesiredSts(u, sts') = sts'
      <4>1. sts'.exists /\ sts'.partition <= sts'.replicas
        BY <2>1, <2>2
      <4>2. QED
        BY <1>2, <2>1, <2>2, <3>1, <3>2, <4>1, AppliedStable
    <3>4. QED
      BY <1>4, <3>3 DEF Applied, u
  <2>6. Walked'
    <3>1. \A i \in Ordinals : i \in Nat
      BY NatFacts DEF IInv
    <3>2. ASSUME NEW i \in Ordinals, sts'.partition < i, i < sts'.replicas, pods[i].on
          PROVE  pods[i].rev = sts.template
      <4>1. i = sts.partition \/ sts.partition < i
        <5>1. i \in Nat /\ sts.partition \in Nat /\ sts.partition > 0 /\ sts.partition - 1 < i
          BY <2>1, <2>2, <3>1, <3>2, Zenon
        <5>2. \A m, n \in Nat : n > 0 /\ n - 1 < m => m = n \/ n < m
          OBVIOUS
        <5>3. QED
          BY <5>1, <5>2, Zenon
      <4>2. QED
        BY <1>1, <1>7, <2>1, <3>2, <4>1 DEF IInv, Between, Walked
    <3>3. ASSUME NEW i \in Ordinals, i < sts'.partition
          PROVE  i < sts.partition
      <4>1. i \in Nat /\ sts.partition \in Nat /\ sts.partition > 0 /\ i < sts.partition - 1
        BY <2>1, <2>2, <3>1, <3>3, Zenon
      <4>2. \A m, n \in Nat : n > 0 /\ m < n - 1 => m < n
        OBVIOUS
      <4>3. QED
        BY <4>1, <4>2, Zenon
    <3>4. inflight' = {}
      BY <1>1, <1>4, <1>7
    <3>5. QED
      BY <1>4, <2>1, <3>2, <3>3, <3>4 DEF IInv, Between, Walked
  <2>7. QED
    BY <1>5, <2>1, <2>2, <2>3, <2>4, <2>5, <2>6 DEF Between
<1>8. QED
  BY <1>1, <1>6, <1>7 DEF Copy

-----------------------------------------------------------------------------
(* The StatefulSet controller, the pods and the user. *)

\* The StatefulSet controller's reports move neither the template nor the walk.
LEMMA InvReport ==
  ASSUME Undisturbed, TypeInv, IInv, TypeInv', StsObserve \/ StsComplete
  PROVE  Between' /\ InPass'
<1>1. /\ sts \in StatefulSet /\ sts' \in StatefulSet /\ spec \in ClusterSpec
      /\ UNCHANGED <<spec, cache, pods, member, inited, inflight, vol, pass>> /\ sts.exists
  BY DEF TypeInv, TypeOK, StsObserve, StsComplete
<1>2. /\ sts'.exists = sts.exists /\ sts'.template = sts.template /\ sts'.replicas = sts.replicas
      /\ sts'.partition = sts.partition /\ sts'.currentRev \in {sts.currentRev, sts.template}
      /\ sts'.observed => sts'.updateRev = sts'.template
  BY <1>1, Zenon DEF StsObserve, StsComplete, IInv, Between, WellFormed, StatefulSet
<1>3. WellFormed(sts)' /\ WellFormed(cache)' /\ Copy(cache)'
  BY <1>1, <1>2 DEF IInv, Between, WellFormed, Copy
<1>4. Settled => Settled'
  BY <1>1, <1>2 DEF Settled
<1>5. ASSUME NEW sp \in ClusterSpec, Applied(sp)
      PROVE  DesiredSts([spec |-> sp, status |-> NoStatus], sts') = sts'
  <2>. DEFINE u == [spec |-> sp, status |-> NoStatus]
  <2>1. u \in [spec : ClusterSpec, status : Status] /\ DesiredSts(u, sts) = sts
    BY <1>5, ConstantTypes DEF Applied
  <2>2. sts'.partition <= sts'.replicas /\ (sts'.partition > 0 => sts'.replicas > 1)
    BY <1>2 DEF IInv, Between, WellFormed
  <2>. HIDE DEF u
  <2>3. DesiredSts(u, sts') = sts'
    BY <1>1, <1>2, <2>1, <2>2, AppliedStable, Zenon
  <2>4. QED
    BY <2>3 DEF u
<1>6. Walked'
  <2>1. ~AllowDowngrade =>
          /\ sts'.currentRev.image <= sts'.template.image
          /\ \A i \in Ordinals : i < sts'.partition => vol[i] <= sts'.currentRev.image
    <3>1. ~AllowDowngrade =>
            /\ sts.currentRev.image <= sts.template.image
            /\ \A i \in Ordinals : vol[i] <= sts.template.image
                                  /\ (i < sts.partition => vol[i] <= sts.currentRev.image)
      BY DEF IInv, Between, Walked
    <3>2. sts.template.image <= sts.template.image
      <4>1. sts.template.image \in Nat
        BY NatFacts DEF IInv
      <4>2. QED
        BY <4>1
    <3>3. CASE sts'.currentRev = sts.currentRev
      BY <1>2, <3>1, <3>3
    <3>4. CASE sts'.currentRev = sts.template
      BY <1>2, <3>1, <3>2, <3>4
    <3>5. QED
      BY <1>2, <3>3, <3>4
  <2>2. QED
    BY <1>1, <1>2, <2>1 DEF IInv, Between, Walked, Back, Up
<1>7. Between'
  BY <1>1, <1>2, <1>3, <1>4, <1>5, <1>6 DEF IInv, Between, Applied
<1>8. InPass'
  <2>1. tc.spec \in ClusterSpec
    BY DEF TypeInv, TypeOK
  <2>2. QED
    BY <1>1, <1>2, <1>5, <2>1 DEF IInv, InPass, pass, WellFormed, Copy, Applied
<1>9. QED
  BY <1>7, <1>8

\* The revision the StatefulSet controller creates the pod of an ordinal on.
CreatedOn(k) == IF k < sts.partition THEN sts.currentRev ELSE sts.template

\* One pod moves: it keeps its revision, goes, or is created; and a node goes in
\* flight only if it is the one at the partition and is off the template.
PodsMove ==
  /\ UNCHANGED <<spec, cache, sts, pass>>
  /\ \A k \in Ordinals :
       \/ vol'[k] = vol[k] /\ (pods'[k].on => pods[k].on /\ pods'[k].rev = pods[k].rev)
       \/ /\ k < sts.replicas /\ pods'[k].rev = CreatedOn(k)
          /\ vol'[k] = IF vol[k] < CreatedOn(k).image THEN CreatedOn(k).image ELSE vol[k]
  /\ \A k \in inflight' :
       /\ k < sts.replicas /\ ~ Back(k)'
       /\ k \in inflight \/ (k >= sts.partition /\ pods[k].on /\ pods[k].rev # sts.template)

\* A move of one pod that respects the partition keeps the invariant.
LEMMA InvPodsMove ==
  ASSUME Undisturbed, TypeInv, IInv, TypeInv', PodsMove
  PROVE  Between' /\ InPass'
<1>1. UNCHANGED <<spec, cache, sts, pass>>
  BY DEF PodsMove
<1>2. /\ \A i \in Ordinals : i \in Nat /\ vol[i] \in Nat /\ pods[i].rev.image \in Nat
      /\ sts.partition \in Nat /\ sts.replicas \in Nat
      /\ sts.template.image \in Nat /\ sts.currentRev.image \in Nat
  BY NatFacts DEF IInv
<1>3. inflight' \subseteq Ordinals
  BY DEF TypeInv, TypeOK
<1>4. WellFormed(sts)' /\ WellFormed(cache)' /\ Copy(cache)'
  BY <1>1 DEF IInv, Between, WellFormed, Copy
<1>5. inflight' \subseteq {sts.partition}
  <2>1. ASSUME NEW k \in inflight', k \notin inflight
        PROVE  k = sts.partition
    <3>1. k \in Ordinals /\ k < sts.replicas /\ k >= sts.partition /\ pods[k].on /\ pods[k].rev # sts.template
      BY <1>3, <2>1 DEF PodsMove
    <3>2. ~(sts.partition < k)
      BY <3>1 DEF IInv, Between, Walked
    <3>3. QED
      BY <1>2, <3>1, <3>2
  <2>2. QED
    BY <2>1 DEF IInv, Between, Walked
<1>6. ASSUME NEW k \in Ordinals, pods'[k].on, k < sts.replicas, k >= sts.partition,
             pods[k].on => pods[k].rev = sts.template
      PROVE  pods'[k].rev = sts.template
  <2>1. ~(k < sts.partition)
    BY <1>2, <1>6, NatOrder, Zenon
  <2>2. CreatedOn(k) = sts.template
    BY <2>1, Zenon DEF CreatedOn
  <2>3. QED
    BY <1>6, <2>2, Zenon DEF PodsMove
<1>7. Settled => Settled'
  <2>. SUFFICES ASSUME Settled PROVE Settled'
    OBVIOUS
  <2>1. \A k \in Ordinals : pods'[k].on => k < sts.replicas /\ pods'[k].rev = sts.template
    BY <1>2 DEF PodsMove, CreatedOn, Settled
  <2>2. inflight' = {}
    BY <1>3 DEF PodsMove, Settled
  <2>3. QED
    BY <1>1, <2>1, <2>2 DEF Settled
<1>8. ~sts.exists => inflight' = {} /\ \A i \in Ordinals : ~pods'[i].on /\ vol'[i] = 0
  <2>. SUFFICES ASSUME ~sts.exists
       PROVE  inflight' = {} /\ \A i \in Ordinals : ~pods'[i].on /\ vol'[i] = 0
    OBVIOUS
  <2>1. sts.replicas = 0 /\ \A i \in Ordinals : ~pods[i].on /\ vol[i] = 0
    BY DEF IInv, Between
  <2>2. \A i \in Ordinals : ~(i < sts.replicas)
    BY <1>2, <2>1
  <2>3. QED
    BY <1>3, <2>1, <2>2 DEF PodsMove
<1>9. ~AllowDowngrade => \A i \in Ordinals :
        /\ vol'[i] <= sts.template.image
        /\ i < sts.partition => vol'[i] <= sts.currentRev.image
        /\ pods'[i].on => vol'[i] <= pods'[i].rev.image
  <2>. SUFFICES ASSUME ~AllowDowngrade, NEW i \in Ordinals
       PROVE  /\ vol'[i] <= sts.template.image
              /\ i < sts.partition => vol'[i] <= sts.currentRev.image
              /\ pods'[i].on => vol'[i] <= pods'[i].rev.image
    OBVIOUS
  <2>1. /\ sts.currentRev.image <= sts.template.image /\ vol[i] <= sts.template.image
        /\ i < sts.partition => vol[i] <= sts.currentRev.image
        /\ pods[i].on => vol[i] <= pods[i].rev.image
    BY DEF IInv, Between, Walked
  <2>2. CASE vol'[i] = vol[i] /\ (pods'[i].on => pods[i].on /\ pods'[i].rev = pods[i].rev)
    BY <2>1, <2>2
  <2>3. CASE /\ pods'[i].rev = CreatedOn(i)
             /\ vol'[i] = IF vol[i] < CreatedOn(i).image THEN CreatedOn(i).image ELSE vol[i]
    <3>. DEFINE image == CreatedOn(i).image
    <3>1. CreatedOn(i) = IF i < sts.partition THEN sts.currentRev ELSE sts.template
      BY DEF CreatedOn
    <3>2. image \in Nat /\ image <= sts.template.image /\ (i < sts.partition => image <= sts.currentRev.image)
      BY <1>2, <2>1, <3>1, NatOrder, Zenon
    <3>3. vol[i] <= image
      BY <2>1, <3>1, Zenon
    <3>4. vol'[i] = image \/ vol'[i] = vol[i]
      BY <2>3, Zenon
    <3>5. pods'[i].rev.image = image
      BY <2>3, Zenon
    <3>. HIDE DEF image
    <3>6. vol'[i] <= image
      BY <3>2, <3>3, <3>4, NatOrder, Zenon
    <3>7. vol'[i] <= sts.template.image /\ (i < sts.partition => vol'[i] <= sts.currentRev.image)
      BY <2>1, <3>2, <3>4, Zenon
    <3>8. QED
      BY <3>5, <3>6, <3>7, Zenon
  <2>4. QED
    BY <2>2, <2>3 DEF PodsMove
<1>10. Walked'
  <2>1. \A i \in Ordinals : sts.partition < i /\ i < sts.replicas /\ pods'[i].on => pods'[i].rev = sts.template
    <3>1. \A i \in Ordinals : sts.partition < i /\ i < sts.replicas /\ pods[i].on => pods[i].rev = sts.template
      BY Zenon DEF IInv, Between, Walked
    <3>2. \A i \in Ordinals : sts.partition < i => i >= sts.partition
      BY <1>2, NatOrder, Zenon
    <3>3. QED
      BY <1>6, <3>1, <3>2, Zenon
  <2>2. \A i \in inflight' : i < sts.replicas /\ ~ Back(i)'
    BY DEF PodsMove
  <2>3. ~AllowDowngrade => sts.currentRev.image <= sts.template.image
    BY DEF IInv, Between, Walked
  <2>4. QED
    BY <1>1, <1>5, <1>9, <2>1, <2>2, <2>3 DEF Walked
<1>11. Between'
  BY <1>1, <1>4, <1>7, <1>8, <1>10 DEF IInv, Between, Applied
<1>12. InPass'
  <2>1. ASSUME pc = "release", out.sts.partition = sts.partition
        PROVE  /\ inflight' = {}
               /\ \A i \in Ordinals : i = sts.partition /\ i < sts.replicas /\ pods'[i].on => pods'[i].rev = sts.template
    <3>1. /\ inflight = {}
          /\ \A i \in Ordinals : i = sts.partition /\ i < sts.replicas /\ pods[i].on => pods[i].rev = sts.template
      BY <2>1 DEF IInv, InPass
    <3>2. inflight' = {}
      BY <1>3, <1>5, <3>1 DEF PodsMove
    <3>3. \A i \in Ordinals : i = sts.partition => i >= sts.partition
      BY <1>2, NatOrder, Zenon
    <3>4. QED
      BY <1>6, <3>1, <3>2, <3>3, Zenon
  <2>2. QED
    BY <1>1, <2>1 DEF IInv, InPass, pass, WellFormed, Copy, Applied
<1>13. QED
  BY <1>11, <1>12

\* Each step of a pod or of its membership is a PodsMove.
LEMMA PodSteps ==
  ASSUME TypeInv, IInv, NEW i \in Ordinals,
         \/ StsCreatePod(i) \/ StsUpdatePod(i) \/ StsScaleDown(i)
         \/ PodReady(i) \/ PodFails(i) \/ Membership(i) \/ NoticeLost(i)
  PROVE  PodsMove
<1>0. /\ pods \in [Ordinals -> [on : BOOLEAN, rev : Template, ready : BOOLEAN]]
      /\ member \in [Ordinals -> [conn : BOOLEAN, ip : BOOLEAN, heard : BOOLEAN]]
      /\ DOMAIN vol = Ordinals /\ inited \in BOOLEAN
      /\ \A k \in inflight : k \in Ordinals /\ k < sts.replicas /\ ~Back(k)
  BY DEF TypeInv, TypeOK, IInv, Between, Walked
<1>1. CASE StsCreatePod(i)
  <2>1. UNCHANGED <<spec, cache, sts, pass, inited, inflight>> /\ i < sts.replicas
    BY <1>1, NatFacts DEF StsCreatePod, Replicas, IInv
  <2>2. /\ \A k \in Ordinals : k # i => pods'[k] = pods[k] /\ vol'[k] = vol[k] /\ member'[k] = member[k]
        /\ pods'[i].rev = CreatedOn(i) /\ ~pods'[i].ready
        /\ vol'[i] = IF vol[i] < CreatedOn(i).image THEN CreatedOn(i).image ELSE vol[i]
    <3>1. PICK ip \in {FALSE, member[i].ip} :
            member' = [member EXCEPT ![i].ip = ip, ![i].heard = FALSE]
      BY <1>1, ZenonT(30) DEF StsCreatePod
    <3>2. QED
      BY <1>0, <1>1, <3>1 DEF StsCreatePod, CreatedOn
  <2>3. \A k \in inflight' : ~ Back(k)'
    BY <1>0, <2>1, <2>2 DEF Back, Up
  <2>4. QED
    BY <1>0, <2>1, <2>2, <2>3 DEF PodsMove
<1>2. CASE StsUpdatePod(i)
  <2>1. UNCHANGED <<spec, cache, sts, pass, vol>>
    BY <1>2 DEF StsUpdatePod
  <2>2. \A k \in Ordinals : pods'[k].on => pods[k].on /\ pods'[k].rev = pods[k].rev
    BY <1>0, <1>2 DEF StsUpdatePod, NoPod
  <2>3. i >= sts.partition /\ pods[i].on /\ pods[i].rev # sts.template
    BY <1>2 DEF StsUpdatePod, Up
  <2>4. \A k \in inflight' : k < sts.replicas /\ ~ Back(k)' /\ k \in inflight \cup {i}
    BY <1>2 DEF StsUpdatePod, Track
  <2>5. QED
    BY <2>1, <2>2, <2>3, <2>4 DEF PodsMove
<1>3. CASE StsScaleDown(i)
  <2>1. UNCHANGED <<spec, cache, sts, pass, vol, member, inited, inflight>>
    BY <1>3 DEF StsScaleDown
  <2>2. \A k \in Ordinals : pods'[k].on => pods'[k] = pods[k]
    BY <1>0, <1>3 DEF StsScaleDown, NoPod
  <2>3. \A k \in inflight' : ~ Back(k)'
    BY <1>0, <2>1, <2>2 DEF Back, Up
  <2>4. QED
    BY <1>0, <2>1, <2>2, <2>3 DEF PodsMove
<1>4. CASE PodReady(i)
  <2>1. UNCHANGED <<spec, cache, sts, pass, vol>>
    BY <1>4 DEF PodReady
  <2>2. \A k \in Ordinals : pods'[k].on = pods[k].on /\ pods'[k].rev = pods[k].rev
    BY <1>0, <1>4 DEF PodReady
  <2>3. \A k \in inflight' : k < sts.replicas /\ ~ Back(k)' /\ k \in inflight
    BY <1>4 DEF PodReady, Track
  <2>4. QED
    BY <2>1, <2>2, <2>3 DEF PodsMove
<1>5. CASE PodFails(i)
  <2>1. UNCHANGED <<spec, cache, sts, pass, vol, member, inited, inflight>>
    BY <1>5 DEF PodFails
  <2>2. \A k \in Ordinals : pods'[k].on => pods[k].on /\ pods'[k].rev = pods[k].rev /\ (pods'[k].ready => pods[k].ready)
    <3>1. CASE pods' = [pods EXCEPT ![i].ready = FALSE]
      BY <1>0, <3>1
    <3>2. CASE pods' = [pods EXCEPT ![i] = NoPod]
      BY <1>0, <3>2 DEF NoPod
    <3>3. QED
      BY <1>5, <3>1, <3>2 DEF PodFails
  <2>3. \A k \in inflight' : ~ Back(k)'
    BY <1>0, <2>1, <2>2 DEF Back, Up
  <2>4. QED
    BY <1>0, <2>1, <2>2, <2>3 DEF PodsMove
<1>6. CASE Membership(i)
  <2>1. UNCHANGED <<spec, cache, sts, pass, vol, pods>>
    BY <1>6 DEF Membership
  <2>2. \A k \in inflight' : k < sts.replicas /\ ~ Back(k)' /\ k \in inflight
    BY <1>6 DEF Membership, Track
  <2>3. QED
    BY <2>1, <2>2 DEF PodsMove
<1>7. CASE NoticeLost(i)
  <2>1. UNCHANGED <<spec, cache, sts, pass, vol, pods, inited, inflight>>
    BY <1>7 DEF NoticeLost
  <2>2. \A k \in Ordinals : member'[k].ip = member[k].ip /\ member'[k].heard = member[k].heard
    BY <1>0, <1>7 DEF NoticeLost
  <2>3. \A k \in inflight' : ~ Back(k)'
    BY <1>0, <2>1, <2>2 DEF Back, Up
  <2>4. QED
    BY <1>0, <2>1, <2>3 DEF PodsMove
<1>8. QED
  BY <1>1, <1>2, <1>3, <1>4, <1>5, <1>6, <1>7

\* An edit lands on a settled StatefulSet that reflects the spec it replaces.
LEMMA InvEdit ==
  ASSUME Undisturbed, TypeInv, IInv, EditSpec
  PROVE  Between' /\ InPass'
<1>1. Quiescent /\ UNCHANGED <<cache, kube, pass>>
  BY DEF EditSpec, Undisturbed
<1>2. Settled
  <2>1. \A i \in Ordinals : pods[i].on => i \in Replicas /\ pods[i].rev = sts.template
    BY <1>1 DEF Quiescent
  <2>2. \A i \in Ordinals : i \in Replicas => i < sts.replicas
    BY NatFacts DEF Replicas, IInv
  <2>3. QED
    BY <1>1, <2>1, <2>2 DEF Quiescent, Settled
<1>3. sts.exists /\ Applied(spec)
  <2>1. [spec |-> spec, status |-> status] \in [spec : ClusterSpec, status : Status]
    BY DEF TypeInv, TypeOK
  <2>2. QED
    BY <1>1, <2>1, DesiredBySpec DEF Quiescent
<1>4. Between'
  BY <1>1, <1>2 DEF IInv, Between, kube, WellFormed, Copy, Settled, Walked, Back, Up
<1>5. InPass'
  BY <1>1, <1>3 DEF IInv, InPass, kube, pass, WellFormed, Copy, Applied
<1>6. QED
  BY <1>4, <1>5

-----------------------------------------------------------------------------
(* What is reported is true. *)

\* Steps that leave the StatefulSet, its copy, the spec and the pods alone keep
\* what does not speak of the pass.
LEMMA TruthUnchanged ==
  ASSUME Truthful, UNCHANGED <<spec, cache, kube>>
  PROVE  /\ Behind(sts)' /\ Behind(cache)'
         /\ (sts.exists /\ sts.currentRev = sts.template => OnTemplate)'
         /\ (cache.exists /\ cache.template # sts.template =>
               DesiredSts([spec |-> spec, status |-> NoStatus], cache).template = sts.template)'
BY DEF Truthful, Behind, OnTemplate, kube

\* The gate found every node done, or the copy of the StatefulSet shows both
\* revisions equal at partition 0: every node runs the template.
LEMMA WalkEnds ==
  ASSUME Undisturbed, TypeInv, IInv, Truthful, pc = "walk", ~out.templateChanged, out.sts.partition = 0,
         \/ out.sts.updateRev = out.sts.currentRev
         \/ out.sts.observed /\ Released \subseteq Gated
  PROVE  sts.partition = 0 /\ OnTemplate
<1>1. /\ out.sts.exists /\ WellFormed(out.sts) /\ Behind(out.sts) /\ out.sts.template = sts.template
      /\ out.sts.replicas > 0
  BY DEF IInv, InPass, Truthful, TypeInv
<1>2. sts.exists /\ sts.partition = 0 /\ out.sts.updateRev = sts.template
      /\ (out.sts.currentRev = sts.template => sts.currentRev = sts.template)
      /\ (sts.currentRev # sts.template => out.sts.replicas = sts.replicas)
  BY <1>1 DEF Behind
<1>3. CASE sts.currentRev = sts.template
  BY <1>2, <1>3 DEF Truthful
<1>4. CASE sts.currentRev # sts.template
  <2>1. out.sts.replicas = sts.replicas /\ Released \subseteq Gated
    BY <1>2, <1>4
  <2>2. ASSUME NEW i \in Ordinals, i < sts.replicas PROVE pods[i].rev = sts.template
    <3>1. i \in Released
      <4>1. i \in Nat /\ sts.replicas \in Nat
        BY NatFacts, Zenon DEF TypeInv
      <4>2. Released = 0 .. sts.replicas - 1
        BY <2>1, <4>1, LesserFacts DEF Released
      <4>3. QED
        BY <2>2, <4>1, <4>2
    <3>2. QED
      BY <2>1, <3>1, <1>2 DEF Gated, check
  <2>3. QED
    BY <1>2, <2>2 DEF OnTemplate
<1>5. QED
  BY <1>3, <1>4

\* Steps of the pass that only read, and the clock.
LEMMA TruthReads ==
  ASSUME Undisturbed, TypeInv, IInv, Truthful,
         Begin \/ ReadDeployed \/ WalkIdle \/ WalkWait \/ Walk \/ WalkUnreadable \/ updateStatus \/ PassFails \/ Tick
  PROVE  Truthful'
<1>1. UNCHANGED <<spec, cache, kube>>
  BY DEF Begin, ReadDeployed, WalkIdle, WalkWait, Walk, WalkUnreadable, Walking, updateStatus, PassFails, Tick
<1>2. UNCHANGED <<sts, pods>> /\ (OnTemplate => OnTemplate')
  BY <1>1 DEF kube, OnTemplate
<1>3. CASE Begin \/ ReadDeployed
  BY <1>1, <1>2, <1>3, TruthUnchanged DEF Begin, ReadDeployed, Truthful
<1>4. CASE updateStatus \/ PassFails
  BY <1>1, <1>4, TruthUnchanged DEF updateStatus, PassFails, EndPass, Truthful
<1>5. CASE Tick
  BY <1>1, <1>2, <1>5, TruthUnchanged DEF Tick, pass, Truthful, Behind
<1>6. ASSUME pc = "walk", pc' = "status",
             result'.reason = "UpToDate" => sts.partition = 0 /\ OnTemplate
      PROVE  Truthful'
  BY <1>1, <1>2, <1>6, TruthUnchanged DEF Truthful
<1>7. CASE WalkIdle
  <2>1. sts.partition = 0 /\ OnTemplate
    BY <1>7, WalkEnds DEF WalkIdle, NothingToRoll
  <2>2. QED
    BY <1>6, <1>7, <2>1 DEF WalkIdle, Report
<1>8. \A node, started : RolloutState("RollingOut", node, started).reason # "UpToDate"
  BY DEF RolloutState
<1>9. CASE WalkWait
  <2>1. result'.reason # "UpToDate"
    BY <1>9 DEF WalkWait, Report, RolloutState
  <2>2. QED
    BY <1>6, <1>9, <2>1 DEF WalkWait, Report
<1>10. ASSUME NEW gated, gated \subseteq Gated, Walking, WalkFrom(gated)
       PROVE  Truthful'
  <2>0. pc = "walk" /\ ~out.templateChanged /\ out.sts.observed
    BY <1>10 DEF Walking
  <2>1. CASE /\ Released \subseteq gated /\ out.sts.partition > 0
             /\ pc' = "release" /\ UNCHANGED <<tc, out, result>>
    <3>1. out.sts.exists /\ WellFormed(out.sts) /\ Behind(out.sts) /\ out.sts.template = sts.template
      BY <2>0 DEF IInv, InPass, Truthful
    <3>2. sts.updateRev = sts.template
      BY <2>0, <3>1 DEF WellFormed, Behind
    <3>3. Behind(out.sts)' /\ out'.sts.template = sts'.template /\ (cache'.exists => cache'.template = sts'.template)
      BY <1>1, <1>2, <2>0, <2>1 DEF Truthful, Behind
    <3>4. QED
      BY <1>1, <1>2, <2>1, <3>2, <3>3, TruthUnchanged DEF Truthful
  <2>2. CASE /\ Released \subseteq gated /\ out.sts.partition = 0
             /\ Report(RolloutState("UpToDate", NoNode, 0))
    <3>1. sts.partition = 0 /\ OnTemplate
      BY <1>10, <2>0, <2>2, WalkEnds
    <3>2. QED
      BY <1>6, <2>0, <2>2, <3>1 DEF Report
  <2>3. CASE \E pending \in Released \ gated :
                Report(RolloutState("RollingOut", pending,
                         IF tc.status.node = pending THEN tc.status.started ELSE now))
    <3>1. pc' = "status" /\ result'.reason # "UpToDate"
      BY <1>8, <2>3 DEF Report
    <3>2. QED
      BY <1>6, <2>0, <3>1
  <2>4. QED
    BY <1>10, <2>1, <2>2, <2>3 DEF WalkFrom
<1>11. CASE Walk \/ WalkUnreadable
  BY <1>10, <1>11 DEF Walk, WalkUnreadable
<1>12. QED
  BY <1>3, <1>4, <1>5, <1>7, <1>9, <1>11

\* A fresher copy of the StatefulSet shows all the progress there is.
LEMMA TruthCacheSync ==
  ASSUME Truthful, CacheSync
  PROVE  Truthful'
<1>1. cache' = sts /\ UNCHANGED <<spec, kube, pass>>
  BY DEF CacheSync
<1>2. QED
  BY <1>1 DEF Truthful, Behind, OnTemplate, kube, pass

\* reconcileStatefulSet goes on only with a copy of the template in place; a new
\* template it parks.
LEMMA TruthWrite ==
  ASSUME Undisturbed, MinReplicas > 1, TypeInv, IInv, Truthful, WriteOnce
  PROVE  Truthful'
<1>. DEFINE want == DesiredSts(tc, cache)
            wanted == [spec |-> spec, status |-> NoStatus]
<1>0. /\ tc \in [spec : ClusterSpec, status : Status] /\ cache \in StatefulSet /\ sts \in StatefulSet
      /\ wanted \in [spec : ClusterSpec, status : Status]
  BY ConstantTypes DEF TypeInv, TypeOK
<1>1. UNCHANGED <<spec, cache, pods, member, inited, vol>> /\ pc \in {"sts", "reread"}
  BY DEF WriteOnce
<1>2. tc.spec = wanted.spec => want.template = DesiredSts(wanted, cache).template
  <2>1. tc.spec = wanted.spec => KeptImage(tc, cache) = KeptImage(wanted, cache)
    BY DEF KeptImage
  <2>2. /\ want.template = podTemplateFor(KeptImage(tc, cache), tc.spec.replicas)
        /\ DesiredSts(wanted, cache).template = podTemplateFor(KeptImage(wanted, cache), wanted.spec.replicas)
    <3>. HIDE DEF wanted
    <3>. QED
      BY <1>0, DesiredFields
  <2>3. QED
    BY <2>1, <2>2
<1>3. cache.exists /\ cache.template # sts.template => tc.spec = spec /\ want.template = sts.template
  <2>. SUFFICES ASSUME cache.exists, cache.template # sts.template
       PROVE  tc.spec = spec /\ want.template = sts.template
    OBVIOUS
  <2>1. sts.partition = sts.replicas /\ sts.exists
    BY DEF Truthful, Behind
  <2>2. ASSUME tc.spec # spec PROVE FALSE
    <3>1. sts.partition = 0 /\ Applied(tc.spec)
      BY <1>1, <2>2 DEF Truthful, IInv, InPass
    <3>2. DesiredSts(tc, sts) = sts
      BY <1>0, <2>1, <3>1, DesiredBySpec
    <3>3. sts.replicas \in Nat \ {0}
      BY <1>0, <3>2, DesiredFields
    <3>4. QED
      BY <2>1, <3>1, <3>3
  <2>3. QED
    BY <1>2, <2>2 DEF Truthful
<1>4. CASE want = cache /\ pc' = "walk" /\ out' = Outcome(cache) /\ UNCHANGED <<status, tc, result, sts, inflight>>
  <2>1. cache.exists /\ cache.template = sts.template /\ out'.sts = cache
    <3>1. want.exists
      BY <1>0, DesiredFields
    <3>2. out'.sts = cache
      BY <1>4 DEF Outcome
    <3>3. cache.exists /\ cache.template = sts.template
      <4>. HIDE DEF want
      <4>. QED
        BY <1>3, <1>4, <3>1
    <3>4. QED
      BY <3>2, <3>3
  <2>2. UNCHANGED <<spec, cache, kube>>
    BY <1>1, <1>4 DEF kube
  <2>3. Behind(out.sts)' /\ out'.sts.template = sts'.template
    BY <1>1, <1>4, <2>1 DEF Truthful, Behind
  <2>4. QED
    BY <1>1, <1>4, <2>1, <2>2, <2>3, TruthUnchanged DEF Truthful
<1>5. CASE markDegraded /\ EndPass /\ UNCHANGED <<sts, inflight>>
  BY <1>1, <1>5, TruthUnchanged DEF EndPass, Truthful, kube
<1>6. CASE /\ want # cache /\ cache = sts
           /\ sts' = [want EXCEPT !.observed = FALSE]
           /\ pc' = "walk" /\ out' = Outcome(sts') /\ UNCHANGED <<status, tc, result>>
  <2>1. ~sts.exists \/ (~Applied(tc.spec) /\ tc.spec = spec)
    BY <1>0, <1>1, <1>6, DesiredBySpec DEF IInv, InPass
  <2>2. tc.spec = spec /\ (~sts.exists \/ Settled)
    BY <1>1, <2>1 DEF IInv, InPass, Between
  <2>3. /\ want \in StatefulSet /\ want.exists /\ want.replicas = tc.spec.replicas
        /\ want.replicas \in Nat \ {0, 1}
        /\ want.partition = IF ~sts.exists THEN 0
                            ELSE IF sts.template # want.template THEN want.replicas
                            ELSE Lesser(sts.partition, want.replicas)
        /\ sts.exists => want.updateRev = sts.updateRev /\ want.currentRev = sts.currentRev
    <3>1. tc.spec.replicas \in Nat /\ tc.spec.replicas > 1
      <4>1. tc.spec.replicas \in MinReplicas .. MaxReplicas
        BY <1>0, Zenon DEF ClusterSpec
      <4>2. QED
        BY <4>1, RolloutConstants
    <3>2. QED
      BY <1>0, <1>6, <3>1, DesiredFields
  <2>4. ~sts.exists => want.updateRev = want.template /\ want.currentRev = want.template
    BY <1>6 DEF DesiredSts, Desired
  <2>. HIDE DEF want
  <2>5. /\ sts' \in StatefulSet /\ sts'.exists /\ sts'.template = want.template /\ sts'.replicas = want.replicas
        /\ sts'.partition = want.partition /\ sts'.updateRev = want.updateRev /\ sts'.currentRev = want.currentRev
    BY <1>6, <2>3, Zenon DEF StatefulSet
  <2>6. sts.exists => /\ sts.partition = 0 /\ sts.currentRev = sts.template /\ sts.updateRev = sts.template
                      /\ OnTemplate /\ \A i \in Ordinals : pods[i].on => pods[i].rev = sts.template
    BY <1>0, <2>2 DEF Settled, Truthful, Behind
  <2>7. sts.exists /\ sts.template = want.template => want.partition = 0
    <3>1. \A n \in Nat : Lesser(0, n) = 0
      BY DEF Lesser
    <3>2. Lesser(0, want.replicas) = 0
      BY <2>3, <3>1
    <3>3. ASSUME sts.exists, sts.template = want.template
          PROVE  want.partition = Lesser(sts.partition, want.replicas) /\ sts.partition = 0
      BY <2>3, <2>6, <3>3
    <3>4. QED
      BY <3>2, <3>3
  <2>8. Behind(sts)' /\ Behind(cache)'
    <3>1. sts'.replicas > 0 /\ (sts'.partition < sts'.replicas => sts'.updateRev = sts'.template)
      <4>1. sts'.replicas \in Nat /\ sts'.replicas > 0
        BY <2>3, <2>5
      <4>2. CASE ~sts.exists
        BY <2>4, <2>5, <4>1, <4>2, Zenon
      <4>3. CASE sts.exists /\ sts.template = want.template
        BY <2>3, <2>5, <2>6, <4>1, <4>3, Zenon
      <4>4. CASE sts.exists /\ sts.template # want.template
        <5>1. sts'.partition = sts'.replicas
          BY <2>3, <2>5, <4>4, Zenon
        <5>2. ~(sts'.partition < sts'.replicas)
          BY <4>1, <5>1
        <5>3. QED
          BY <4>1, <5>2
      <4>5. QED
        BY <4>2, <4>3, <4>4
    <3>2. Behind(sts)'
      BY <3>1 DEF Behind
    <3>3. Behind(cache)'
      BY <1>1, <1>6, <2>3, <2>5, <2>6, <2>7 DEF Behind, Truthful
    <3>4. QED
      BY <3>2, <3>3
  <2>9. sts'.currentRev = sts'.template => OnTemplate'
    <3>1. CASE sts.exists
      BY <1>1, <2>3, <2>5, <2>6, <3>1 DEF OnTemplate
    <3>2. CASE ~sts.exists
      BY <1>1, <3>2 DEF OnTemplate, IInv, Between
    <3>3. QED
      BY <3>1, <3>2
  <2>10. DesiredSts(wanted, cache)'.template = sts'.template
    BY <1>1, <1>2, <2>2, <2>5
  <2>11. out'.sts = sts' /\ (~out'.templateChanged => (cache'.exists => cache'.template = sts'.template))
    BY <1>1, <1>6, Zenon DEF Outcome
  <2>12. Behind(out.sts)'
    BY <2>8, <2>11 DEF Behind
  <2>13. QED
    BY <1>1, <1>6, <2>8, <2>9, <2>10, <2>11, <2>12, Zenon DEF Truthful
<1>7. QED
  BY <1>4, <1>5, <1>6 DEF WriteOnce

\* release only moves the partition of the template it has seen observed.
LEMMA TruthRelease ==
  ASSUME Undisturbed, TypeInv, IInv, Truthful, release
  PROVE  Truthful'
<1>. DEFINE next == Lesser(out.sts.partition, out.sts.replicas) - 1
<1>1. /\ out.sts.partition > 0 /\ WellFormed(out.sts) /\ Copy(out.sts) /\ ~out.templateChanged
      /\ sts.updateRev = sts.template /\ (cache.exists => cache.template = sts.template)
  BY DEF release, IInv, InPass, Truthful
<1>2. sts \in StatefulSet /\ out.sts \in StatefulSet /\ cache \in StatefulSet
  BY DEF TypeInv, TypeOK
<1>3. next = out.sts.partition - 1 /\ next \in Nat
  <2>1. out.sts.partition \in Nat /\ out.sts.replicas \in Nat
    BY <1>2, StsNats
  <2>2. Lesser(out.sts.partition, out.sts.replicas) = out.sts.partition
    BY <1>1, <2>1, LesserFacts, Zenon DEF WellFormed
  <2>3. QED
    BY <1>1, <2>1, <2>2
<1>4. /\ pc' = "status" /\ result'.reason # "UpToDate"
      /\ UNCHANGED <<spec, cache, pods, member, inited, inflight, vol>>
  BY DEF release, Report, RolloutState
<1>5. /\ sts'.exists = sts.exists /\ sts'.template = sts.template /\ sts'.replicas = sts.replicas
      /\ sts'.updateRev = sts.updateRev /\ sts'.currentRev = sts.currentRev
      /\ sts.partition = 0 => sts'.partition = 0
  BY <1>1, <1>2, <1>3 DEF release, StatefulSet, Copy
<1>6. Behind(sts)' /\ Behind(cache)'
  BY <1>1, <1>4, <1>5 DEF Truthful, Behind
<1>7. OnTemplate => OnTemplate'
  BY <1>4, <1>5 DEF OnTemplate
<1>8. QED
  BY <1>1, <1>4, <1>5, <1>6, <1>7 DEF Truthful

\* The controller reports that the pods run the update revision only when they do.
LEMMA TruthReport ==
  ASSUME Undisturbed, TypeInv, IInv, Truthful, StsObserve \/ StsComplete
  PROVE  Truthful'
<1>1. /\ sts \in StatefulSet /\ WellFormed(sts) /\ sts.exists
      /\ UNCHANGED <<spec, cache, pods, pass>>
  BY DEF TypeInv, TypeOK, IInv, Between, StsObserve, StsComplete
<1>2. /\ sts'.exists = sts.exists /\ sts'.template = sts.template /\ sts'.replicas = sts.replicas
      /\ sts'.partition = sts.partition
      /\ sts.updateRev = sts.template => sts'.updateRev = sts.template
      /\ sts.currentRev = sts.template => sts'.currentRev = sts.template
  BY <1>1, Zenon DEF StsObserve, StsComplete, StatefulSet, WellFormed
<1>3. sts'.currentRev = sts.template /\ sts.currentRev # sts.template => OnTemplate
  <2>. SUFFICES ASSUME sts'.currentRev = sts.template, sts.currentRev # sts.template PROVE OnTemplate
    OBVIOUS
  <2>1. StsComplete
    BY <1>1, Zenon DEF StsObserve, StatefulSet
  <2>2. \A i \in Replicas : pods[i].rev = sts.template
    BY <1>1, <2>1 DEF StsComplete, WellFormed
  <2>3. \A i \in Ordinals : i < sts.replicas => i \in Replicas
    BY NatFacts DEF Replicas, TypeInv
  <2>4. QED
    BY <2>2, <2>3 DEF OnTemplate
<1>4. OnTemplate => OnTemplate'
  BY <1>1, <1>2 DEF OnTemplate
<1>5. ASSUME NEW s, Behind(s)
      PROVE  s.exists =>
               /\ sts'.exists /\ s.replicas > 0
               /\ s.partition < s.replicas => s.updateRev = s.template
               /\ s.template # sts'.template => sts'.partition = sts'.replicas
               /\ s.template = sts'.template =>
                    /\ s.partition = 0 => sts'.partition = 0
                    /\ s.updateRev = s.template => sts'.updateRev = sts'.template
                    /\ s.currentRev = s.template => sts'.currentRev = sts'.template
                    /\ sts'.currentRev # sts'.template => s.replicas = sts'.replicas
  BY <1>1, <1>2, <1>5 DEF Behind
<1>6. Behind(cache)'
  BY <1>1, <1>5 DEF Truthful, Behind
<1>7. Behind(out.sts) => Behind(out.sts)'
  BY <1>1, <1>5 DEF Behind, pass
<1>8. Behind(sts)'
  BY <1>1, <1>2 DEF Truthful, Behind
<1>9. QED
  BY <1>1, <1>2, <1>3, <1>4, <1>6, <1>7, <1>8 DEF Truthful, pass

\* A pod is created on the template unless it is below the partition, and then on
\* the current revision.
LEMMA TruthPods ==
  ASSUME TypeInv, Truthful, PodsMove
  PROVE  Truthful'
<1>1. UNCHANGED <<spec, cache, sts, pass>>
  BY DEF PodsMove
<1>2. ASSUME OnTemplate, sts.partition = 0 \/ sts.currentRev = sts.template PROVE OnTemplate'
  <2>. SUFFICES ASSUME NEW i \in Ordinals, i < sts.replicas, pods'[i].on PROVE pods'[i].rev = sts.template
    BY <1>1 DEF OnTemplate
  <2>1. CreatedOn(i) = sts.template
    BY <1>2, NatFacts DEF CreatedOn, TypeInv
  <2>2. QED
    BY <1>2, <2>1 DEF PodsMove, OnTemplate
<1>3. Behind(sts)' /\ Behind(cache)' /\ (Behind(out.sts) => Behind(out.sts)')
  BY <1>1 DEF Truthful, Behind, pass
<1>4. QED
  BY <1>1, <1>2, <1>3 DEF Truthful, pass

\* The spec is edited when every node runs the template and no copy is of another.
LEMMA TruthEdit ==
  ASSUME Undisturbed, TypeInv, Truthful, EditSpec
  PROVE  Truthful'
<1>1. Quiescent /\ UNCHANGED <<cache, kube, pass>>
  BY DEF EditSpec, Undisturbed
<1>2. sts.partition = 0 /\ sts.exists /\ sts.replicas > 0
  BY <1>1 DEF Quiescent, Truthful, Behind
<1>3. cache.exists => cache.template = sts.template
  <2>1. sts.partition # sts.replicas
    BY <1>2
  <2>2. QED
    BY <2>1 DEF Truthful, Behind
<1>4. Behind(sts)' /\ Behind(cache)' /\ (Behind(out.sts) => Behind(out.sts)') /\ (OnTemplate => OnTemplate')
  BY <1>1 DEF Truthful, Behind, OnTemplate, kube, pass
<1>5. UNCHANGED sts
  BY <1>1 DEF kube
<1>6. QED
  BY <1>1, <1>2, <1>3, <1>4, <1>5 DEF Truthful, pass

-----------------------------------------------------------------------------
(* The two reads of a pass. *)

\* What the guard kept, it would keep again.
LEMMA KeptTwice ==
  ASSUME NEW t \in [spec : ClusterSpec, status : Status], NEW s \in StatefulSet, NEW w,
         w.exists, w.template.image = KeptImage(t, s)
  PROVE  KeptImage(t, w) = KeptImage(t, s)
<1>1. t.spec.image \in Nat /\ s.template.image \in Nat
  BY RolloutConstants, Zenon DEF ClusterSpec, StatefulSet, Template
<1>2. QED
  BY <1>1 DEF KeptImage

\* Every step keeps the two reads in agreement: an edit comes when the copy is up
\* to date, and a write changes the image only to the one that is kept.
LEMMA AgreedStep ==
  ASSUME Undisturbed, TypeInv, IInv, [Next]_vars
  PROVE  Agreed'
<1>. DEFINE wanted == [spec |-> spec, status |-> NoStatus]
<1>0. Agreed /\ sts \in StatefulSet
  BY DEF IInv, TypeInv, TypeOK
<1>1. ASSUME UNCHANGED <<spec, cache>>, sts'.exists = sts.exists, sts'.template = sts.template,
             UNCHANGED <<pc, tc, out>> \/ pc' \notin {"sts", "reread"}
      PROVE  Agreed'
  BY <1>0, <1>1 DEF Agreed, KeptImage
<1>2. CASE UNCHANGED vars
  BY <1>1, <1>2 DEF vars, kube, pass
<1>3. CASE Begin
  <2>1. KeptImage(tc', cache) = KeptImage(wanted, cache) /\ KeptImage(tc', sts) = KeptImage(wanted, sts)
    BY <1>3 DEF Begin, KeptImage
  <2>2. UNCHANGED <<spec, cache, sts>> /\ pc' = "sts"
    BY <1>3 DEF Begin, kube
  <2>3. QED
    BY <1>0, <2>1, <2>2 DEF Agreed, KeptImage
<1>4. CASE ReadDeployed
  <2>1. UNCHANGED <<spec, cache, sts, tc>> /\ pc = "sts" /\ out'.sts = cache
    BY <1>4 DEF ReadDeployed, kube, NoOut
  <2>2. QED
    BY <1>0, <2>1 DEF Agreed, KeptImage
<1>5. CASE reconcileStatefulSet
  <2>1. WriteOnce
    BY <1>5, ReadsAgree
  <2>2. CASE UNCHANGED sts
    BY <1>1, <2>1, <2>2 DEF WriteOnce, EndPass
  <2>3. CASE ~UNCHANGED sts
    <3>. DEFINE want == DesiredSts(tc, cache)
    <3>1. /\ pc' = "walk" /\ want # cache /\ cache = sts /\ sts' = [want EXCEPT !.observed = FALSE]
          /\ UNCHANGED <<spec, cache>> /\ pc \in {"sts", "reread"}
      BY <2>1, <2>3 DEF WriteOnce
    <3>2. tc \in [spec : ClusterSpec, status : Status] /\ wanted \in [spec : ClusterSpec, status : Status]
      BY ConstantTypes DEF TypeInv, TypeOK
    <3>3. tc.spec = spec
      BY <1>0, <3>1, <3>2, DesiredBySpec DEF IInv, InPass, TypeInv
    <3>4. want \in StatefulSet /\ want.exists /\ want.template = podTemplateFor(KeptImage(tc, sts), tc.spec.replicas)
      BY <1>0, <3>1, <3>2, DesiredFields
    <3>. HIDE DEF want
    <3>5. sts'.exists /\ sts'.template.image = KeptImage(tc, sts)
      BY <3>1, <3>4 DEF podTemplateFor, StatefulSet
    <3>6. KeptImage(wanted, sts) = KeptImage(tc, sts)
      BY <3>3 DEF KeptImage
    <3>7. KeptImage(wanted, sts') = KeptImage(wanted, sts)
      BY <1>0, <3>2, <3>5, <3>6, KeptTwice
    <3>8. QED
      BY <3>1, <3>7 DEF Agreed, KeptImage
  <2>4. QED
    BY <2>2, <2>3
<1>6. CASE CacheSync
  BY <1>0, <1>6 DEF CacheSync, kube, pass, Agreed, KeptImage
<1>7. CASE release
  <2>1. sts'.exists = sts.exists /\ sts'.template = sts.template
    BY <1>0, <1>7 DEF release, StatefulSet
  <2>2. QED
    BY <1>1, <1>7, <2>1 DEF release, Report
<1>8. CASE WalkIdle \/ WalkWait \/ Walk \/ WalkUnreadable \/ updateStatus \/ PassFails
  <2>1. UNCHANGED <<spec, cache, sts>>
    BY <1>8 DEF WalkIdle, WalkWait, Walk, WalkUnreadable, Walking, updateStatus, PassFails, kube
  <2>2. pc' \notin {"sts", "reread"}
    BY <1>8 DEF WalkIdle, WalkWait, Walk, WalkUnreadable, WalkFrom, Report, updateStatus, PassFails, EndPass
  <2>3. QED
    BY <1>1, <2>1, <2>2
<1>9. CASE StsObserve \/ StsComplete
  <2>1. sts'.exists = sts.exists /\ sts'.template = sts.template
    BY <1>0, <1>9, Zenon DEF StsObserve, StsComplete, StatefulSet
  <2>2. QED
    BY <1>1, <1>9, <2>1 DEF StsObserve, StsComplete, pass
<1>10. CASE EditSpec
  <2>1. cache = sts /\ UNCHANGED <<cache, sts, pc, tc, out>>
    BY <1>10 DEF EditSpec, Undisturbed, Quiescent, kube, pass
  <2>2. QED
    BY <1>0, <2>1 DEF Agreed, KeptImage
<1>11. CASE Tick
  BY <1>1, <1>11 DEF Tick, kube, pass
<1>12. ASSUME NEW i \in Ordinals,
              \/ StsCreatePod(i) \/ StsUpdatePod(i) \/ StsScaleDown(i)
              \/ PodReady(i) \/ PodFails(i) \/ Membership(i) \/ NoticeLost(i)
       PROVE  Agreed'
  <2>1. UNCHANGED <<spec, cache, sts, pass>>
    BY <1>12 DEF StsCreatePod, StsUpdatePod, StsScaleDown, PodReady, PodFails, Membership, NoticeLost
  <2>2. QED
    BY <1>1, <2>1 DEF pass
<1>13. QED
  BY <1>2, <1>3, <1>4, <1>5, <1>6, <1>7, <1>8, <1>9, <1>10, <1>11, <1>12 DEF Next, Operator, World

-----------------------------------------------------------------------------
\* Every step keeps Truthful, when every TechnitiumCluster has several replicas.
LEMMA TruthStep ==
  ASSUME Undisturbed, MinReplicas > 1, TypeInv, IInv, [Next]_vars
  PROVE  Truthful'
<1>1. Truthful
  BY DEF IInv
<1>2. CASE UNCHANGED vars
  BY <1>1, <1>2, ZenonT(30) DEF vars, kube, pass, Truthful, Behind, OnTemplate
<1>3. CASE Operator
  BY <1>1, <1>3, TruthReads, TruthCacheSync, ReadsAgree, TruthWrite, TruthRelease DEF Operator
<1>4. CASE World
  BY <1>1, <1>4, TruthReads, TruthReport, TruthEdit, PodSteps, TruthPods DEF World
<1>5. QED
  BY <1>2, <1>3, <1>4 DEF Next

\* Every step keeps the invariant.
LEMMA InvStep ==
  ASSUME Undisturbed, TypeInv, IInv, [Next]_vars
  PROVE  IInv'
<1>1. TypeInv' /\ (MinReplicas > 1 => Truthful') /\ Agreed'
  BY TypeStep, TruthStep, AgreedStep
<1>2. CASE UNCHANGED vars
  <2>1. Between'
    BY <1>2, BetweenUnchanged DEF vars, IInv
  <2>2. InPass'
    BY <1>2 DEF vars, kube, pass, IInv, InPass, WellFormed, Copy, Applied
  <2>3. QED
    BY <1>1, <2>1, <2>2 DEF IInv, TypeInv
<1>3. CASE Operator
  BY <1>1, <1>3, InvReads, InvCacheSync, ReadsAgree, InvWrite, InvRelease DEF Operator, IInv, TypeInv
<1>4. CASE World
  BY <1>1, <1>4, InvReads, InvReport, InvEdit, PodSteps, InvPodsMove DEF World, IInv, TypeInv
<1>5. QED
  BY <1>2, <1>3, <1>4 DEF Next

\* The invariant holds in every reachable state.
LEMMA InvAlways == Undisturbed => (Spec => [](TypeInv /\ IInv))
<1>. SUFFICES ASSUME Undisturbed PROVE Spec => [](TypeInv /\ IInv)
  OBVIOUS
<1>1. Init => TypeInv /\ IInv
  BY TypeInit, InvInit
<1>2. (TypeInv /\ IInv) /\ [Next]_vars => (TypeInv /\ IInv)'
  BY TypeStep, InvStep
<1>3. QED
  BY <1>1, <1>2, PTL DEF Spec

\* For any number of replicas, edits, operator crashes, failed reads and pod
\* failures: a pass acts on a StatefulSet that is at most one move of the
\* partition behind, no node above the partition is off the template, the only
\* node in flight is the one at the partition, and no volume is ahead of its pod
\* (reconcileStatefulSet, walkRollout and release).
THEOREM WalkInvariant == Undisturbed => (Spec => []IInv)
BY InvAlways, PTL

\* For any number of replicas, edits, operator crashes, failed reads and pod
\* failures, the gated walk has at most one node down at a time.
THEOREM OneAtATime == Undisturbed => (Spec => []OneRestartAtATime)
<1>1. TypeInv /\ IInv => OneRestartAtATime
  BY DEF IInv, Between, Walked, OneRestartAtATime
<1>2. QED
  BY <1>1, InvAlways, PTL

\* Without the annotation no pod ever starts on an older version than its
\* volume has seen, whatever is evicted in the middle of a rollout.
THEOREM VolumesMoveForward == Undisturbed => (Spec => []VolumeNeverDowngraded)
<1>1. TypeInv /\ IInv => VolumeNeverDowngraded
  <2>. SUFFICES ASSUME TypeInv, IInv, ~AllowDowngrade, NEW i \in Ordinals, pods[i].on
       PROVE  pods[i].rev.image >= vol[i]
    BY DEF VolumeNeverDowngraded
  <2>1. vol[i] <= pods[i].rev.image /\ vol[i] \in Nat /\ pods[i].rev.image \in Nat
    BY NatFacts DEF IInv, Between, Walked
  <2>2. QED
    BY <2>1
<1>2. QED
  BY <1>1, InvAlways, PTL

\* For any number of replicas, edits and failures: a step of release moves the
\* partition down by one, also when it was decided on a stale StatefulSet, and
\* nothing else moves it while the template and the replicas stay.
THEOREM WalksDownByOne == Undisturbed => (Spec => PartitionWalksDown)
<1>. SUFFICES ASSUME Undisturbed PROVE Spec => PartitionWalksDown
  OBVIOUS
<1>1. ASSUME TypeInv, IInv, [Next]_vars, sts.exists, sts'.template = sts.template,
             sts'.replicas = sts.replicas, sts'.partition # sts.partition
      PROVE  sts'.partition = sts.partition - 1
  <2>0. /\ sts \in StatefulSet /\ cache \in StatefulSet /\ out.sts \in StatefulSet
        /\ tc \in [spec : ClusterSpec, status : Status] /\ WellFormed(sts)
    BY <1>1 DEF TypeInv, TypeOK, IInv, Between
  <2>1. CASE reconcileStatefulSet
    <3>. DEFINE want == DesiredSts(tc, cache)
    <3>1. cache = sts /\ sts' = [want EXCEPT !.observed = FALSE]
      BY <1>1, <2>1, ReadsAgree DEF WriteOnce
    <3>2. /\ want \in StatefulSet /\ want.replicas = tc.spec.replicas
          /\ want.partition = IF tc.spec.replicas <= 1 THEN 0
                              ELSE IF sts.template # want.template THEN tc.spec.replicas
                              ELSE Lesser(sts.partition, tc.spec.replicas)
      BY <1>1, <2>0, <3>1, DesiredFields
    <3>. HIDE DEF want
    <3>3. sts'.template = want.template /\ sts'.replicas = want.replicas /\ sts'.partition = want.partition
      BY <3>1, <3>2 DEF StatefulSet
    <3>4. /\ sts.partition \in Nat /\ sts.replicas \in Nat
          /\ sts.partition <= sts.replicas /\ (sts.partition > 0 => sts.replicas > 1)
      BY <1>1, <2>0, NatFacts DEF TypeInv, WellFormed
    <3>5. sts'.partition = sts.partition
      <4>1. want.template = sts.template /\ tc.spec.replicas = sts.replicas /\ sts'.partition = want.partition
        BY <1>1, <3>2, <3>3
      <4>2. want.partition = IF sts.replicas <= 1 THEN 0 ELSE Lesser(sts.partition, sts.replicas)
        BY <3>2, <4>1
      <4>3. want.partition = sts.partition
        BY <3>4, <4>2 DEF Lesser
      <4>4. QED
        BY <4>1, <4>3
    <3>6. QED
      BY <1>1, <3>5
  <2>2. CASE release
    <3>1. out.sts.partition > 0 /\ WellFormed(out.sts) /\ Copy(out.sts)
      BY <1>1, <2>2 DEF release, IInv, InPass
    <3>2. Lesser(out.sts.partition, out.sts.replicas) = out.sts.partition
      BY <2>0, <3>1, StsNats, LesserFacts, Zenon DEF WellFormed
    <3>3. sts'.partition = out.sts.partition - 1
      BY <1>1, <2>0, <2>2, <3>2 DEF release, StatefulSet
    <3>4. out.sts.partition \in {sts.partition, sts.partition + 1} /\ sts.partition \in Nat
      BY <2>0, <3>1, StsNats DEF Copy
    <3>5. sts'.partition \in {sts.partition, sts.partition - 1}
      BY <3>3, <3>4
    <3>6. QED
      BY <1>1, <3>4, <3>5
  <2>3. CASE StsObserve \/ StsComplete
    BY <1>1, <2>0, <2>3 DEF StsObserve, StsComplete, StatefulSet
  <2>4. CASE UNCHANGED sts
    BY <1>1, <2>4
  <2>5. UNCHANGED sts \/ reconcileStatefulSet \/ release \/ StsObserve \/ StsComplete
    BY <1>1 DEF Next, Operator, World, Begin, ReadDeployed, WalkIdle, WalkWait, Walk, WalkUnreadable, Walking, updateStatus,
       PassFails, CacheSync, StsCreatePod, StsUpdatePod, StsScaleDown, PodReady, PodFails, Membership,
       NoticeLost, EditSpec, Tick, vars, kube
  <2>6. QED
    BY <2>1, <2>2, <2>3, <2>4, <2>5
<1>2. QED
  BY <1>1, InvAlways, PTL DEF PartitionWalksDown, Spec

\* With several replicas, for any number of them and of edits and failures:
\* "UpToDate" is written only when every pod runs the template, however stale
\* the StatefulSet the pass read and whichever status writes were lost before
\* (walkRollout's two ways to that outcome, and updateStatus).
THEOREM UpToDateOnlyWhenTrue == Undisturbed /\ MinReplicas > 1 => (Spec => UpToDateIsTrue)
<1>. SUFFICES ASSUME Undisturbed, MinReplicas > 1 PROVE Spec => UpToDateIsTrue
  OBVIOUS
<1>1. ASSUME TypeInv, IInv, pc = "status", result.reason = "UpToDate"
      PROVE  \A i \in Replicas : pods[i].on => pods[i].rev = sts.template
  <2>1. OnTemplate
    BY <1>1 DEF IInv, Truthful
  <2>2. \A i \in Replicas : i \in Ordinals /\ i < sts.replicas
    <3>1. sts.replicas \in 0 .. MaxReplicas
      BY <1>1 DEF TypeInv, TypeOK, StatefulSet
    <3>2. QED
      BY <3>1, RolloutConstants DEF Replicas, Ordinals
  <2>3. QED
    BY <2>1, <2>2 DEF OnTemplate
<1>2. QED
  BY <1>1, InvAlways, PTL DEF UpToDateIsTrue, Spec
=============================================================================
