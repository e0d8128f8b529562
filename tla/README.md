# TLA+ models of the Technitium Kubernetes operator

The operator runs Technitium DNS servers on Kubernetes (`TechnitiumCluster`) and
keeps what they serve in line with custom resources (`Record`, `Zone`,
`DHCPScope`, `Blocklist`, `DNSApp`, `DNSSEC`, `ServerSettings`). This directory
holds TLA+ models of its controllers, translated from the Go code, the TLC
configurations that check them on small instances, and TLAPS proofs about the
rolling upgrade, the life of a cluster, the finalizers, what Records, Blocklists,
DHCPScopes and ServerSettings do to the server, and the ExternalDNS webhook. Paths
below are relative to `src/`.

## 1. The system

| Part | Code | Shared state, concurrency, failures |
|---|---|---|
| TechnitiumCluster: workload and rolling upgrade | `internal/controller/technitiumcluster_{controller,rollout}.go` | StatefulSet (spec and status), pods, status bookmark; runs against the StatefulSet controller, kubelets and the Primary's member table; cached reads, unlocked patch, stall clock |
| TechnitiumCluster: bootstrap, clustering, teardown | `technitiumcluster_controller.go` | admin Secret and token, PVCs, member tables of every node; init, join, IP refresh; best-effort teardown |
| Services, PodDisruptionBudget | `technitiumcluster_{services,pdb}.go` | Kubernetes objects, ownership |
| Seven server-side controllers | `internal/controller/*_controller.go` | the custom resource (spec, finalizer, status), the server's state; one worker each; lost calls, crashes, outages, edits and foreign changes at any point |
| serverRef resolution | `serverref.go` | cluster and Secret reads decide between "gone" and "retry" |
| API client | `internal/technitium/` | error classes are read off message texts |
| ExternalDNS webhook | `internal/externaldns/` | turns change sets into Record creates, patches and deletes |
| Admission webhooks | `internal/webhook/v1alpha1/` | stateless validation |
| Stats poller | `technitium_stats.go` | read-only polling |
| Start-up, configuration | `cmd/main.go`, `internal/config/` | wiring |

A controller-runtime controller has one worker: passes of one controller do not
overlap, but everything else happens between any two calls of a pass. Resources
are read from an informer cache that may lag; a write on an outdated copy is a
conflict. A pass that fails is retried, one that succeeds is requeued. What a
pass did is known to later passes only through `status`, written at its end.
These facts are where the hazards in `PROJECT.json` come from.

## 2. Modules

| Module | Models | State | Actions |
|---|---|---|---|
| `Rollout` | `reconcileStatefulSet`, `reconcileRollout`, `updateStatus` and their surroundings | `spec`, `status`, `sts`, `cache`, `pods`, `member`, the pass (`pc`, `tc`, `out`, `result`) | one per write or batch of reads of a pass, one per step of the StatefulSet controller, the pods and the members |
| `RolloutInv` | the inductive invariant `IInv` | | |
| `RolloutProofs` | the proofs about `Rollout` | | |
| `Cluster` | the rest of a TechnitiumCluster's life: `reconcileWorkload`, `ensureToken`, `reconcileClustering`, `updateStatus`, `finalizeCluster`, and a cluster created again under the same name | `tc`, `owner` (of each object), `secret`, `scale`, `pods`, `vol` (data volumes: password of the first boot, cluster, address), `table` (the Primary's entries), the pass (`pc`, `t`, `seen`), history (`wiped`, `lost`, `stray`) | one per object or node a pass calls; garbage collection, pods, volumes, heartbeats, users |
| `ClusterProofs` | the proofs about `Cluster` | | |
| `Resource` | what the seven controllers share: `Reconcile`, the finalizer, `resolve`, `markReady`, `markDegraded`, outages | `obj` (API server), `cached`/`fresh` (informer), `loc`/`current` (the pass's copy), `cluster` | `Reconcile`, `AddFinalizer`, `Unresolved`, `FinalizeUnresolved`, `DropFinalizer`, `PassFails`; users: `Create`, `Edit`, `Delete` |
| `ResourceProofs` | what those steps preserve, for the proofs about each controller | | |
| `Claim` | what a finalizer promises, in two variables | `held`, `owns` | `Take`, `Put`, `Clean`, `Release` |
| `ControllerProofs` | that `DNSApp`, `Zone` and `DNSSEC` implement `Claim`; the types of `DNSApp` and `ServerSettings`, and what `ServerSettings` changes | | |
| `DHCPScopeProofs` | that `DHCPScope` implements `Claim`, its types and the order of its calls | | |
| `RecordProofs`, `BlocklistProofs` | the proofs about `Record` and `Blocklist` | | |
| `ExternalDNS` | the webhook's requests, from `Endpoints` to the last delete of a plan | `rec` (Records), `desired`, the synchronisation (`pc`, `current`, `wanted`, `plan`), history (`before`, `doomed`, `torn`) | `records`, `adjust`, `applyChanges`, one per Record created, patched or deleted; `Desire`, `DeleteByHand`, `finalizeRecord` |
| `ExternalDNSProofs` | the proofs about `ExternalDNS` | | |
| `Errors` | `classifyStatus` | | |
| `Record`, `Zone`, `DHCPScope`, `Blocklist`, `DNSApp`, `DNSSEC`, `ServerSettings` | one controller each, and the server calls it makes | `server`, what the pass read (`reads`, `todo`, `catalog`), history (`wrote`, `made`, `moved`, `reverted`, `asked`) | one per server call, in the order of the code |
| `MC*` | instances for TLC | | |

Conventions:

- A pass is a sequence of steps with a program counter, cut at every call whose
  effect others can see. Edits, outages, drift, failed calls and crashes
  (`PassFails`) fall between any two of them. A lost reply is a step that took
  effect followed by `PassFails`.
- `fresh` and `current` stand for `resourceVersion`: a write on a copy that is
  not the latest is rejected. The release patch of the rollout carries no
  version and is not.
- `markReady` is one step: it re-fetches, stamps the re-fetched generation and
  writes only a change. A write between its read and its update is a conflict, which
  is a failed pass.
- Users edit resources and clusters that are being deleted too: the API server lets
  them, and the finalizer sees the edited spec.
- A pass of `Rollout` reads the StatefulSet from the cache. `reconcileStatefulSet` reads
  it twice, once for the downgrade guard and once in `CreateOrUpdate`; that the cache
  moves between the two is a step of its own (`ReadDeployed`), counted as a fault.
- `updateStatus` of `Rollout` keeps the version in status or sets it to what the nodes
  may be reported to run (`Reports`), an over-approximation of the member table.
- The teardown of `Cluster` is a step per call (`teardownClusterState`,
  `RemoveSecondary`, `DeletePrimaryCluster`), each of which may fail or find a node down;
  the code logs it and goes on.
- Data are small sets. A zone name is the set of telling words it contains
  (`Errors`), a DHCP scope's parameters are `core` (always sent) and `extra`
  (optional), an image tag is the version it runs.
- History variables record what the code does not keep: the values a Record put
  on the server (`wrote`), the resources that created or signed something
  (`made`), the IP addresses a hardware address was ever to have (`asked`), the
  nodes a rollout took down (`inflight`), the newest version a volume has run
  (`vol`), the Secondaries a teardown missed (`stray`).
- `PROJECT.json` maps every definition to its lines; what Kubernetes and the
  server do is marked external and modelled from how the code uses it.

Modules of one controller extend `Resource` and compose its steps with their own
(`WorkerStep /\ Shared`). `Claim` is their abstract specification: something of a
resource's may appear on the server only while the API server holds that resource
with its finalizer, and the resource is released only when nothing of it is left;
what is orphaned, or gone by other hands, is its no longer (`Clean`). `Zone`,
`DHCPScope`, `DNSApp` and `DNSSEC` instantiate it (`held <- Held`, `owns <- made`)
and state `Claimed == C!Spec`. `Zone` includes the cluster's size and
initialization, on which the wanted catalog depends; `ServerSettings` runs two
resources on one server. `Cluster` and `Rollout` share the code of one controller
and split its state: `Rollout` has revisions and the partition and takes the nodes'
membership as given, `Cluster` has ownership, credentials and membership and takes
the pods' template as given.

## 3. Runs

Passing runs. Deadlock is checked in the rollout runs. It is not in the other
runs, where the system may come to rest: no resource exists and the budget of edits is used
up.

| Run | Instance | States | Shows |
|---|---|---|---|
| `rollout` | 2..3 replicas, 2 versions, 1 edit, 1 fault | 1,057,025 | `OneRestartAtATime`, `VolumeNeverDowngraded`, `UpToDateIsTrue`, `PartitionWalksDown`, and `IInv` for the proofs |
| `cluster` | 1..2 replicas, both policies of each kind, with and without a budget, 3 edits, 2 faults | 1,135,706 | `CredentialsKept`, `OneCluster`, `Settles` |
| `externaldns` | an A and an MX key, one that is not served, 3 targets, 3 edits, 1 fault | 268,171 | `NeverFewer`, `Converges` |
| `rollout_live` | 1..2 replicas, a plain, an unparseable and a never-Ready image, 1 edit, clock 0..1 | 346,931 | `RolloutCompletes`, `StallReported` |
| `record` | A and CNAME RRsets, 2 values, 2 TTLs, 3 edits, 1 fault, 1 outage, 1 drift | 851,556 | `NoValueForgotten`, `KnownUntilRemoved`, `NameKeepsResolving`, `RemovesOnlyItsOwn`, `Converges` |
| `blocklist` | 2 URL lists, one domain in both override lists, 3 edits, 1 fault, 1 outage | 802,265 | `NoOverrideForgotten`, `RefreshStaysOwed`, `Converges` |
| `dhcpscope` | 2 core values, one hardware address with 2 IP addresses, 3 edits, 1 fault, 1 outage, 1 drift | 878,200 | `Claimed`, `EnabledLast`, `Converges`, `LeasesConverge` |
| `zone` | 2 types, a plain name and one with "app", 3 edits (scalings included), 1 fault, 1 outage, 1 drift | 475,305 | `Claimed`, `Converges` |
| `dnsapp` | 2 packages, a good and a rejected configuration, 3 edits, 1 fault, 1 outage, 1 drift | 811,631 | `Claimed`, `Converges`, `DownloadsCease` |
| `dnssec` | lagging cache, both NSEC types, 3 edits, 1 fault, 1 outage, 1 drift | 441,728 | `Claimed`, `Converges` |
| `serversettings` | 2 resources on disjoint groups, 2 edits, 1 outage (Secret or cluster), 1 drift | 579,694 | `ChangesOnlyItsOwn`, `Converges` |

The other runs than `zone`, `dnsapp`, `dnssec` and `rollout_live` also check their
module's type invariant. `Claimed` is checked as a refinement: every step of the controller is a
step of `Claim` or leaves `held` and `owns` alone.

One run ends in a violation, a disagreement between a comment and the code:

| Run | Property | The code does |
|---|---|---|
| `rollout_mid_edit` | `OneRestartAtATime` | an edit in mid-rollout re-parks the partition; the gate loop is then empty and another node is released while the one in flight is not yet back |

Two further disagreements are excluded from the passing runs by name, and TLC finds
them when the exclusion is lifted:

- `SecretLoss = TRUE` in `MCRecord.cfg` violates `NoValueForgotten`: a missing admin
  Secret is taken for a missing cluster (`serverref.go:63`), and the finalizer drops
  without deleting. The comment at `serverref.go:44` says that finalizers tell
  "server is gone" apart from any other failure.
- `LeasesConverge` claims a reservation's IP address only for a hardware address that is
  never asked for with two. Without that hypothesis it is violated: reservations are
  compared by hardware address, so an edited `ipAddress`, also one that is removed
  and added again between two passes, is never sent. The comment at
  `dhcpscope_controller.go:237` says that it is removed and re-added.

### Bounds

Three edits allow create, edit, delete and also create, edit, edit back, which are
the histories that separate spec, status and server. One fault at any step of any
pass, one outage and one foreign change in any order cover a pass cut short together
with what may happen before the next one. Two values per field tell "old" from
"new"; with one IP address per hardware address, an edited one could not happen.
Three replicas give a Primary, a Secondary in flight and a Secondary waiting; the
theorems cover every size. In `cluster`, two replicas are a Primary and a Secondary,
three edits allow create, delete, create again, and two faults a pass cut short in
each life or two failed calls of one teardown; passwords, volumes, clusters and addresses are compared for equality
only, and `Ids` has more of them than can be in use at once, so that `Fresh` always
finds one (`FreshIds` in `ClusterProofs`). In `externaldns` two targets are the
least for which an update keeps one and replaces the other, and a largest TTL of 2
has one below and one above it. A tick of the clock stands for minutes, long against
a pass, so a stall timeout of 0 and one tick reach the stall.

### Fairness

`WF` on every step of a running pass and on `Begin` (failed passes are retried with
backoff, successful ones carry `RequeueAfter`); `SF` on each resource's `Reconcile`,
which competes with the others for the one worker of the queue and gets its turn
there; `WF` on cache synchronisation (watches), on the garbage collector, on
ExternalDNS's synchronisation (it runs at an interval) and the Record controller's
finalizer, on the StatefulSet controller, on pods that can become Ready and on the
members' heartbeats, and `SF` on the clock, which runs between passes. The recovery
of an outage is assumed where a property needs the server; `ServerSettings` does not
assume it. Edits, faults, outages and drift are never forced. Their budgets are
finite, so "eventually always" means once they are over.

## 4. Proofs

Eight modules hold proofs, for every value of the constants their assumptions allow.
The theorems:

| Module | Theorem | Statement |
|---|---|---|
| `RolloutProofs` | `TypeCorrect` | `Spec => []TypeOK`, edits in mid-rollout included |
| | `WalkInvariant` | `Undisturbed => (Spec => []IInv)` |
| | `OneAtATime` | `Undisturbed => (Spec => []OneRestartAtATime)` |
| | `VolumesMoveForward` | `Undisturbed => (Spec => []VolumeNeverDowngraded)` |
| | `WalksDownByOne` | `Undisturbed => (Spec => PartitionWalksDown)` |
| | `UpToDateOnlyWhenTrue` | `Undisturbed /\ MinReplicas > 1 => (Spec => UpToDateIsTrue)` |
| `ClusterProofs` | `ClusterTypes` | `Spec => []TypeOK` |
| | `CredentialsSurvive` | `Spec => []CredentialsKept` |
| | `NeverSplit` | `Spec => []OneCluster` |
| `ControllerProofs` | `DNSAppTypeCorrect` | `Spec => []TypeOK` of `DNSApp`, assuming `DNSAppTypes` |
| | `DNSAppClaims` | `Spec => Claimed` of `DNSApp`, assuming `DNSAppTypes` and `~SecretLoss` |
| | `ZoneClaims` | `Zones!Spec => Zones!Claimed`, assuming `~SecretLoss` |
| | `DNSSECClaims` | `Signing!Spec => Signing!Claimed`, assuming `Signing!DNSSECConstants` and `~SecretLoss` |
| | `SettingsTypeCorrect` | `Settings!Spec => []Settings!TypeOK`, assuming `Settings!SettingsConstants` |
| | `SettingsOwnOnly` | `Settings!Spec => Settings!ChangesOnlyItsOwn`, assuming `Settings!SettingsConstants` |
| `DHCPScopeProofs` | `DHCPScopeClaims` | `Spec => Claimed`, assuming `~SecretLoss` |
| | `DHCPScopeTypes` | `Spec => []TypeOK` |
| | `SwitchedOnLast` | `Spec => EnabledLast`, assuming `Sole` |
| `RecordProofs` | `RecordTypes` | `Spec => []TypeOK` |
| | `OnlyItsOwn` | `Spec => RemovesOnlyItsOwn` |
| | `KeepsResolving` | `Spec => NameKeepsResolving` |
| | `NothingForgotten` | `Spec => []NoValueForgotten`, assuming `~SecretLoss` and `~EditRRSet` |
| | `StatusKnows` | `Spec => KnownUntilRemoved`, assuming `~SecretLoss` and `~EditRRSet` |
| `BlocklistProofs` | `BlocklistTypes` | `Spec => []TypeOK` |
| | `OverridesRemembered` | `Spec => []NoOverrideForgotten` |
| | `RefreshOwed` | `Spec => []RefreshStaysOwed`, assuming `Sole` |
| `ExternalDNSProofs` | `WebhookTypes` | `Spec => []TypeOK` |
| | `UpdatesNeverShrink` | `Spec => []NeverFewer` |

The constants are those of the code (numbers of replicas, sets of values, bounds on
edits and faults), with the assumptions the modules name (`RolloutConstants`,
`ResourceConstants`, ...). The further hypotheses are:

- `Undisturbed` (of `Rollout`): the spec is not edited while a rollout is running, and
  image tags can be parsed. `rollout_mid_edit` violates `OneRestartAtATime` without it;
- `MinReplicas > 1`: with one replica there is nothing to park, and a failed pass is
  followed by a false "UpToDate" (section 5);
- `~SecretLoss`: the admin Secret is not deleted on its own. The finalizers' promise fails
  with it (section 3);
- `~EditRRSet`: a Record's zone, name and type are not edited. The code leaves the record
  under the old name (section 5);
- `DNSAppTypes`, `Signing!DNSSECConstants`, `Settings!SettingsConstants`: the specs and
  the reports in status are those of the controller in question. They are hypotheses of
  theorems because `ControllerProofs` is about four controllers with the same variables:
  it extends `DNSApp` and instantiates the others (`Zones`, `Signing`, `Settings`), and
  an assumption about all of them at once could not be met. `MCDNSApp`, `DNSSEC` and
  `ServerSettings` assume them, so the runs evaluate them;
- `Sole`: one resource owns the server's URL lists, or names the DHCP scope.
  `api/v1alpha1/blocklist_types.go` says that a Blocklist "owns the blocking surface";
  two that take turns with the list or the scope overwrite each other's work, and
  neither property holds of them. The runs have one as well.

### The rolling upgrade

None of the properties is inductive. That two nodes are not down together depends
on the release being made by a pass whose gate looked at *all* released nodes;
but the pass reads the StatefulSet from a cache that may be behind, and patches it
later, unlocked. `IInv` is
`TypeOK /\ Between /\ InPass /\ Agreed /\ (MinReplicas > 1 => Truthful)`:

- `Copy`: a cached StatefulSet with a raised partition has the template and size of the
  real one and lags by at most one move of the partition. So a stale release repeats
  the last one instead of making a new one;
- `Walked`: nodes above the partition run the template, the only node in flight is
  the one at the partition, and no volume is ahead of what its pod may come
  back on: the template at and above the partition, `currentRev` below it;
- `~sts.exists \/ Settled \/ Applied(spec)`: an edit meets a finished walk, so
  parking starts from one revision everywhere;
- `InPass`: what a pass found at the gate still holds when it releases, if the
  partition has not moved since;
- `Agreed`: the two reads of `reconcileStatefulSet` lead to the same image (`KeptImage`),
  so that the guard's answer holds of the StatefulSet `CreateOrUpdate` changes;
- `Truthful`: whatever progress a copy of the StatefulSet shows has been made (`Behind`),
  so that "UpToDate", concluded from a copy, is true of the StatefulSet itself.

The proof has one lemma per group of actions, and one step per conjunct an action can
disturb: first the operator's steps, then those of the StatefulSet controller, the pods
and the user. `rollout` checks `IInv` with TLC.

### The life of a cluster

`CredentialsKept` is not inductive: whether the Secret outlives the cluster is
decided passes before the finalizer goes. The `IInv` of `ClusterProofs` adds
`Living` (what a pass knows of the cluster it works for), `VolumesKept` and
`SecretSafe` (while volumes are to stay, so is the Secret: it is released from its
owner before the finalizer is removed, so the garbage collector cannot take it) and
`Mounted` (a node that runs or is initialized has a volume). `FreshIds` counts the
identifiers in use, so that a new one is never an old one. Most steps are `Quiet`:
they touch none of this, and one lemma covers them.

### The finalizers

`ResourceProofs` proves once that a pass at work on a resource works on one that is
held, however old its cached copy: the cache never shows an undisturbed resource after
the API server let it go, because only a pass that saw the deletion in the cache
lets it go. `ControllerProofs` and `DHCPScopeProofs` add what the controllers' own steps
do to `made` and conclude that every step is one of `Claim`. In `ControllerProofs` that
conclusion is drawn once (`SharedKeeps`, `OwnStep`, `ForeignStep`), and for an instance
five lemmas show first that its life cycle is the one of `Resource` (`ZonesInit`,
`ZonesWorker`, `ZonesUser`, `ZonesCluster`, `ZonesEnds` and their likes). `SecretLoss` is assumed away
because the promise fails with it (section 3).

### What a resource leaves on the server

`ResourceProofs` also says what each shared step does to the two copies of a resource,
the API server's and the cache's: it leaves them as they are but for a
synchronisation (`Calm`), begins a new life (`Renewed`) or changes the spec
(`Respecified`); and that a pass works on the latest copy if the cache does not lag and
nobody writes in between (`Prompt`). The controllers' proofs differ in what they add:

- `RecordProofs`. `KeepsResolving` needs that the desired value is on the server
  when `deleteStaleRecord` runs (`Reads`). `NothingForgotten` has two
  arguments. A Record whose data was never edited has one value, which every copy of its
  spec that can still be acted on names (`StoredCopies`, `PassCopy`, `Unmoved`); this holds
  through failures, drift and lag. For one whose data moved, `status.appliedData` and
  the running pass name the old and the new value between them (`Smooth`).
  `StatusKnows` needs neither: `markReady` is reached only behind `deleteStaleRecord`,
  so at that point status names nothing of the Record's that is still there
  (`PassTracks`), and what status names belongs to a Record that is held (`AppliedHeld`).
  It covers failed passes and foreign writes, which the second argument does not.
- `BlocklistProofs`. `OverridesRemembered` is the second of these arguments.
  `RefreshOwed` has to cover failed passes on outdated copies: as long as the spec goes
  forward only (`reverted` is false), the list in status, the one the cache shows, the
  one the pass works with and the one in the spec are ordered (`Order`), and a list on
  the server that was not downloaded lies strictly after the applied one (`Forward`).
  When no pass fails the spec may go anywhere, and the pass's own steps show it (`Direct`).
- `ControllerProofs`. `DNSAppTypeCorrect` needs that `SetAppConfig` is reached only with
  a configuration in the spec. `SettingsTypeCorrect` rests on what
  `setDNSSettingsOptionsFromSpec` yields for each field (`SettingsDesired`: left out, or a
  value the field can have), and `SettingsOwnOnly` on `SetDNSSettings` being the only step
  of the operator that changes a setting and sending none that the spec leaves out.
- `DHCPScopeProofs`. `SwitchedOnLast` needs that what status says is reserved is
  reserved, since `reconcileReservations` skips it, and that the rest is in the pass's
  list of work (`InPlace`).

The invariants of `BlocklistProofs` and `DHCPScopeProofs` were checked with TLC before
they were proved, the former also with a lagging cache and the latter with two hardware
addresses.

### The webhook

Until the last create of a plan nothing that was there is missing; from then on all that
is wanted is there, and no delete of the plan names one of those.

### Only model-checked

Every invariant, action property and refinement that a passing run checks has a theorem.
What is left to TLC:

- Liveness (`RolloutCompletes`, `StallReported`, `Settles`, `Converges`,
  `LeasesConverge`, `DownloadsCease`): the prover has no rules for fairness and `ENABLED`.
- `Errors` is a table of message words; the runs that use it evaluate it.

## 5. Limits of the code the models reproduce

Properties are stated so that they hold; these histories are excluded by name.

| History | Consequence | Where |
|---|---|---|
| An upgraded node is evicted after a second edit re-parked the walk | it restarts on the version before the first edit, on a newer volume | `technitiumcluster_controller.go:1292` |
| One replica; the pass that wrote the template fails before status | the next pass reports "Every node runs" the new version | `technitiumcluster_rollout.go:267` |
| Record data edited around a pass that was cut short | the value of the cut pass stays on the server | `record_controller.go:153` |
| Zone, name or type of a Record edited | the record under the old name stays | `record_controller.go:294` |
| Override added by a cut pass, then dropped | it stays on the server | `blocklist_controller.go:234` |
| URL edit reverted after a failed refresh | no refresh of the reverted list | `blocklist_controller.go:171` |
| Blocklist with an empty list takes over a server with one | the list is cleared and not refreshed | `blocklist_controller.go:177` |
| DHCP scope deleted behind the operator | recreated without its applied reservations | `dhcpscope_controller.go:253` |
| Zone whose name contains "app" or "record" | "no such zone" is misread and the zone is not created | `internal/technitium/errors.go:100` |
| Zone type or DNSSEC `nsecType` edited | not applied, still Ready | `zone_controller.go:232`, `dnssec_controller.go:138` |
| DNS app package without the version the spec names | downloaded at every interval | `dnsapp_controller.go:165` |
| IP address of an applied reservation edited, at once or in two edits | never sent | `dhcpscope_controller.go:253` |
| Admin Secret deleted while resources are being deleted | their finalizers drop, the server keeps what they made | `serverref.go:63` |
| A call of the teardown fails or misses a Secondary, volumes are retained, the cluster is created again | the Secondary stays in the dead cluster; the phase stays Clustering | `technitiumcluster_controller.go:882` |
| Volumes deleted, or a PVC created after they were listed | an old volume rejects the new password; a Secondary alone does so silently | `technitiumcluster_controller.go:530` |
| Spec edited during a pass | `updateStatus` stamps the older spec's results | `technitiumcluster_controller.go:1491` |
| Endpoint updated from A to B and back while A's Record is terminating | a window without a record | `internal/externaldns/server.go:101` |
| Plan cut short between TTL patches | some Records keep the old TTL, hidden by the first one's | `internal/externaldns/translate.go:145` |
| MX target not in canonical form | listed back in another form: deletes miss it, patches fail | `internal/externaldns/translate.go` |
| One malformed MX target | every change set that holds it is refused whole | `internal/externaldns/translate.go:201` |

## 6. Not modelled, and the plan

Not modelled: the Services per replica and for the Primary and their annotations
(functions of the spec and the object read; `Cluster` has the Services as one
owned object), the stats poller (reads only), admission webhooks (pure), start-up and
configuration, generated code. The HTTP layer is abstracted to "the call takes
effect" or "the pass fails". The client cache of `serverref.go` is left out: its
key (endpoint and Secret version) makes a hit equal to a miss. `serverRef`
edits are not modelled; nothing then refers to the old server. Repeated
`AddReservedLease` calls are taken to overwrite, which the code leaves
unconfirmed, and none is refused. A deleted cluster is not created again under the
resources that refer to it (`ClusterGone`): the life of a cluster is in `Cluster`. A
value of an MX record stands for exchange and priority together: the admission webhook
requires the priority. `Cluster` reads the cluster and the Secret without a lagging cache: an update
on an old copy is a conflict and a create of what exists a failed pass, which it
has. A Secret of the user's own (`adminSecretRef`) is only read and left out. `Rollout`
reads the cluster and the pods without lag as well, and the StatefulSet with it; the
case of a StatefulSet without the operator's hash annotation
(`technitiumcluster_controller.go:1284`) does not arise, as the operator writes it when
it creates one.

Remaining work, in order:

1. `Cluster` composed with `Rollout`, in place of the external action `Membership`: what
   a clustering error does to a waiting rollout.
2. DHCP range validation and version order as operators against reference
   definitions.
