----------------------------- MODULE RolloutInv -----------------------------
(***************************************************************************)
(* The inductive invariant behind OneRestartAtATime, VolumeNeverDowngraded *)
(* and UpToDateIsTrue, for rollouts that are not edited while they run     *)
(* (MidRollout = FALSE) and images whose version can be parsed.            *)
(***************************************************************************)
EXTENDS Rollout

\* No edit lands while a rollout runs, and every image names its version.
Undisturbed == ~MidRollout /\ Unparseable = {}

\* The spec sp asks for the StatefulSet as it is.
Applied(sp) == DesiredSts([spec |-> sp, status |-> NoStatus], sts) = sts

\* No walk is under way on the StatefulSet.
Settled ==
  /\ sts.exists /\ sts.partition = 0 /\ sts.currentRev = sts.template
  /\ \A i \in Ordinals : pods[i].on => i < sts.replicas /\ pods[i].rev = sts.template
  /\ inflight = {}

\* A StatefulSet as the operator may write it and the controller report on it.
WellFormed(s) ==
  /\ s.partition <= s.replicas
  /\ s.partition > 0 => s.exists /\ s.replicas > 1
  /\ s.observed => s.updateRev = s.template

\* s is a possibly outdated copy of the StatefulSet: it misses at most the last
\* move of the partition.
Copy(s) ==
  s.partition > 0 =>
    /\ s.template = sts.template /\ s.replicas = sts.replicas
    /\ s.partition \in {sts.partition, sts.partition + 1}

\* Everything above the partition runs the template, the node in flight is the
\* one at the partition, and no volume is ahead of what its pod may come back on.
Walked ==
  /\ \A i \in Ordinals : sts.partition < i /\ i < sts.replicas /\ pods[i].on => pods[i].rev = sts.template
  /\ inflight \subseteq {sts.partition} /\ \A i \in inflight : i < sts.replicas /\ ~Back(i)
  /\ ~AllowDowngrade =>
       /\ sts.currentRev.image <= sts.template.image
       /\ \A i \in Ordinals :
            /\ vol[i] <= sts.template.image
            /\ i < sts.partition => vol[i] <= sts.currentRev.image
            /\ pods[i].on => vol[i] <= pods[i].rev.image

\* The image after the downgrade guard: the deployed one when spec.image is older.
KeptImage(t, s) ==
  IF ~AllowDowngrade /\ s.exists /\ t.spec.image < s.template.image
  THEN s.template.image ELSE t.spec.image

\* Whichever copy of the StatefulSet the downgrade guard looks at, it keeps the
\* image that the StatefulSet itself would make it keep.
Agreed ==
  LET wanted == [spec |-> spec, status |-> NoStatus]
  IN  /\ KeptImage(wanted, cache) = KeptImage(wanted, sts)
      /\ pc \in {"sts", "reread"} => KeptImage(tc, cache) = KeptImage(tc, sts)
      /\ pc = "reread" => KeptImage(tc, out.sts) = KeptImage(tc, sts)

\* What the running pass relies on.
InPass ==
  /\ pc \in {"sts", "reread"} /\ tc.spec # spec => sts.exists /\ Applied(tc.spec)
  /\ pc \in {"walk", "release"} =>
       /\ out.sts.exists /\ WellFormed(out.sts)
       /\ ~out.templateChanged => Copy(out.sts) /\ (out.sts.partition > 0 => cache.partition <= out.sts.partition)
  /\ pc = "release" =>
       /\ ~out.templateChanged /\ out.sts.partition > 0
       /\ out.sts.partition = sts.partition =>
            /\ inflight = {}
            /\ \A i \in Ordinals : i = sts.partition /\ i < sts.replicas /\ pods[i].on => pods[i].rev = sts.template

\* What holds between passes as well.
Between ==
  /\ WellFormed(sts) /\ WellFormed(cache) /\ Copy(cache)
  /\ ~sts.exists => sts.replicas = 0 /\ inflight = {} /\ \A i \in Ordinals : ~pods[i].on /\ vol[i] = 0
  /\ ~sts.exists \/ Settled \/ Applied(spec)
  /\ Walked

\* Every node that runs, runs the template.
OnTemplate == \A i \in Ordinals : i < sts.replicas /\ pods[i].on => pods[i].rev = sts.template

\* s is what the StatefulSet was at some time: if it is another template's, that
\* of the StatefulSet is parked and untouched, and otherwise whatever progress s
\* shows has been made.
Behind(s) ==
  s.exists =>
    /\ sts.exists /\ s.replicas > 0
    /\ s.partition < s.replicas => s.updateRev = s.template
    /\ s.template # sts.template => sts.partition = sts.replicas
    /\ s.template = sts.template =>
         /\ s.partition = 0 => sts.partition = 0
         /\ s.updateRev = s.template => sts.updateRev = sts.template
         /\ s.currentRev = s.template => sts.currentRev = sts.template
         /\ sts.currentRev # sts.template => s.replicas = sts.replicas

\* What makes "every node runs this version" true when the operator, which sees
\* copies of the StatefulSet, says so.
Truthful ==
  /\ Behind(sts) /\ Behind(cache)
  /\ sts.exists /\ sts.currentRev = sts.template => OnTemplate
  /\ cache.exists /\ cache.template # sts.template =>
       DesiredSts([spec |-> spec, status |-> NoStatus], cache).template = sts.template
  /\ pc \in {"sts", "reread"} /\ tc.spec # spec => sts.partition = 0
  /\ pc \in {"walk", "release"} /\ ~out.templateChanged =>
       /\ Behind(out.sts) /\ out.sts.template = sts.template
       /\ cache.exists => cache.template = sts.template
  /\ pc = "release" => sts.updateRev = sts.template
  /\ pc = "status" /\ result.reason = "UpToDate" => sts.partition = 0 /\ OnTemplate

\* The inductive invariant: a pass only ever acts on a StatefulSet that is at
\* most one move of the partition behind, the walk is where it says it is and,
\* when rollouts are gated, its end is reported only once it is reached.
IInv == TypeOK /\ Between /\ InPass /\ Agreed /\ (MinReplicas > 1 => Truthful)
=============================================================================
