-------------------------- MODULE ControllerProofs --------------------------
(***************************************************************************)
(* The controllers of one thing each on the server: DNSApp, Zone, DNSSEC   *)
(* and ServerSettings, for any number of resources and any bounds.         *)
(*                                                                         *)
(* DNSApp, Zone and DNSSEC implement Claim, as long as the cluster's admin *)
(* Secret is never missing (finalize* takes a missing Secret for a cluster *)
(* that is gone).  DNSApp and ServerSettings are type-correct, and         *)
(* ServerSettings changes no setting but those a resource sets.            *)
(*                                                                         *)
(* DNSApp is extended, the others are instances that share its resources,  *)
(* cluster and server; what they require of the constants is assumed where *)
(* it is needed.  A lemma for each shows that its life cycle is Resource's.*)
(***************************************************************************)
EXTENDS DNSApp, ResourceProofs

CONSTANTS
  Types, Joinable, Catalogs, Validations, NoCatalog, ClusterCatalog, Names,   \* of Zone,
  Keys,                                                                       \* of DNSSEC,
  Values, Empty                                                               \* and of ServerSettings

VARIABLES catalog, replicas, inited, zone   \* of Zone

Zones == INSTANCE Zone
Signing == INSTANCE DNSSEC
Settings == INSTANCE ServerSettings

-----------------------------------------------------------------------------
(* The finalizer's promise. *)

\* Who put the thing on the server is held, has not been cleaned up after, and
\* loses it with the cluster.
ClaimInv ==
  /\ RInv /\ made \subseteq Held /\ (pc = "drop" => cur \notin made)
  /\ (cluster = "gone" => made = {}) /\ cluster # "noSecret"

\* The steps that leave who put it there as it is.
LEMMA SharedKeeps ==
  ASSUME ClaimInv, ~SecretLoss, made' = made, NEW calls, WorkerStep(calls) \/ UserStep \/ ClusterStep
  PROVE  ClaimInv' /\ [C!Next]_<<Held, made>>
  <1>1. /\ RInv' /\ cluster' # "noSecret" /\ (cluster' = "gone" <=> cluster = "gone")
        /\ Held' \in {Held, Held \cup {cur}} \/ (pc = "drop" /\ Held' = Held \ {cur})
        /\ pc' = "drop" => cur' = cur /\ (pc = "drop" \/ cluster = "gone")
    BY SharedStep DEF ClaimInv
  <1>2. ClaimInv'
    BY <1>1 DEF ClaimInv
  <1>3. cur \in Objects
    BY DEF ClaimInv, RInv, PassTypes
  <1>4. [C!Next]_<<Held, made>>
    <2>1. CASE Held' = Held
      BY <2>1
    <2>2. CASE Held' = Held \cup {cur}
      BY <1>3, <2>2 DEF C!Next, C!Take
    <2>3. CASE pc = "drop" /\ Held' = Held \ {cur}
      BY <1>3, <2>3 DEF ClaimInv, C!Next, C!Release
    <2> QED BY <1>1, <2>1, <2>2, <2>3
  <1> QED BY <1>2, <1>4

\* A step of the pass that does not touch who is held: the thing is put on the
\* server while that is up and the pass is at work, and the pass goes to its last
\* step only when the resource has nothing on the server.
LEMMA OwnStep ==
  ASSUME ClaimInv, RInv', Held' = Held, UNCHANGED cluster,
         made' \in SUBSET made \/ (made' = made \cup {cur} /\ Working(pc) /\ ServerUp),
         pc' = "drop" => cur' = cur /\ cur \notin made'
  PROVE  ClaimInv' /\ [C!Next]_<<Held, made>>
  <1>1. CASE made' \in SUBSET made
    BY <1>1 DEF ClaimInv, C!Next, C!Clean
  <1>2. CASE made' = made \cup {cur} /\ Working(pc) /\ ServerUp
    <2>1. cur \in Held /\ cluster # "gone" /\ cur \in Objects
      BY <1>2 DEF ClaimInv, RInv, PassInv, PassTypes, ServerUp
    <2> QED BY <1>2, <2>1 DEF ClaimInv, C!Next, C!Put
  <1> QED BY <1>1, <1>2

\* The cluster goes and takes the thing along, or somebody else changes it.
LEMMA ForeignStep ==
  ASSUME ClaimInv, UNCHANGED <<stored, worker>>,
         \/ cluster' = "gone" /\ made' = {}
         \/ UNCHANGED cluster /\ made' \in SUBSET made
  PROVE  ClaimInv' /\ [C!Next]_<<Held, made>>
  <1>1. RInv' /\ Held' = Held /\ UNCHANGED <<pc, cur>>
    BY IdleStep DEF ClaimInv, worker
  <1>2. CASE cluster' = "gone" /\ made' = {}
    BY <1>1, <1>2 DEF ClaimInv, C!Next, C!Clean
  <1>3. CASE UNCHANGED cluster /\ made' \in SUBSET made
    BY <1>1, <1>3, OwnStep DEF ClaimInv
  <1> QED BY <1>2, <1>3

\* A step in which nothing happens.
LEMMA ClaimStutters ==
  ASSUME ClaimInv, UNCHANGED <<stored, worker, cluster, made>>
  PROVE  ClaimInv' /\ [C!Next]_<<Held, made>>
  BY ForeignStep

-----------------------------------------------------------------------------
(* DNSApp. *)

Steps == {"idle", "finalizer", "reconcile", "install", "update", "relist", "config", "set", "ready"} \cup Finalizing
DataTypes == server \in App /\ reads \in App /\ drifts \in 0 .. MaxDrifts /\ made \subseteq Objects
\* A configuration is set only if the spec has one.
Typed == RInv /\ Counted /\ pc \in Steps /\ DataTypes /\ (pc = "set" => loc.spec.config # Unset)

\* An app that is not there, and the parts of a spec, are well-typed.
LEMMA AppSpecTypes ==
  ASSUME DNSAppTypes, RInv
  PROVE  /\ NoApp \in App /\ cur \in Objects /\ Contents[loc.spec.url] \in Versions
         /\ loc.spec.config \in Configs \cup {Unset} /\ Versions \subseteq Applied
  <1>1. loc.spec \in DNSAppSpec /\ cur \in Objects /\ Versions \subseteq Applied
    BY DEF DNSAppTypes, RInv, PassTypes, ObjectType
  <1>2. loc.spec.url \in URLs /\ loc.spec.config \in Configs \cup {Unset}
    BY <1>1 DEF DNSAppSpec
  <1>3. Contents[loc.spec.url] \in Versions
    BY <1>2, DNSAppConstants
  <1>4. NoApp \in App
    BY <1>3 DEF NoApp, App
  <1> QED BY <1>1, <1>2, <1>3, <1>4

\* The types of the app, of what was listed and of the history.
LEMMA AppData == ASSUME DNSAppTypes, Typed, Next PROVE DataTypes'
  <1>0. /\ RInv /\ NoApp \in App /\ cur \in Objects /\ Contents[loc.spec.url] \in Versions
        /\ loc.spec.config \in Configs \cup {Unset} /\ DataTypes
    BY AppSpecTypes DEF Typed
  <1>1. CASE Shared \/ ListApps \/ GetAppConfig \/ markAppReady \/ ClusterGone
    BY <1>0, <1>1 DEF Shared, ListApps, GetAppConfig, markAppReady, ClusterGone, DataTypes
  <1>2. CASE DownloadAndInstallApp
    <2>1. UNCHANGED <<reads, drifts>> /\ made' \subseteq made \cup {cur}
      BY <1>2 DEF DownloadAndInstallApp
    <2>2. [installed |-> TRUE, version |-> Contents[loc.spec.url], config |-> Default] \in App
      BY <1>0 DEF App
    <2>3. server' \in App
      BY <1>0, <1>2, <2>2, Zenon DEF DownloadAndInstallApp, DataTypes
    <2> QED BY <1>0, <2>1, <2>3 DEF DataTypes
  <1>3. CASE DownloadAndUpdateApp
    <2>1. server' \in App
      BY <1>0, <1>3 DEF DownloadAndUpdateApp, DataTypes, App
    <2> QED BY <1>0, <1>3, <2>1 DEF DownloadAndUpdateApp, DataTypes
  <1>4. ASSUME pc = "set", server' = [server EXCEPT !.config = loc.spec.config] PROVE server' \in App
    <2>1. loc.spec.config \in Configs
      BY <1>0, <1>4 DEF Typed
    <2> QED BY <1>0, <1>4, <2>1 DEF DataTypes, App
  <1>5. CASE SetAppConfig
    BY <1>0, <1>4, <1>5 DEF SetAppConfig, DataTypes
  <1>6. CASE Refused
    BY <1>0, <1>4, <1>6 DEF Refused, DataTypes
  <1>7. CASE finalizeDNSApp
    BY <1>0, <1>7 DEF finalizeDNSApp, DataTypes
  <1>8. CASE Drift
    <2>1. drifts' \in 0 .. MaxDrifts
      <3>1. drifts \in 0 .. MaxDrifts /\ drifts < MaxDrifts /\ drifts' = drifts + 1
        BY <1>0, <1>8, Zenon DEF Drift, DataTypes
      <3> QED BY <3>1, DNSAppConstants
    <2>2. ASSUME NEW v \in Versions PROVE [NoApp EXCEPT !.installed = TRUE, !.version = v] \in App
      BY <1>0 DEF App
    <2>3. server' \in App /\ made' = {} /\ UNCHANGED reads
      BY <1>0, <1>8, <2>2 DEF Drift
    <2> QED BY <1>0, <2>1, <2>3 DEF DataTypes
  <1> QED BY <1>1, <1>2, <1>3, <1>5, <1>6, <1>7, <1>8 DEF Next, Operator, World

\* The controller's own steps of the pass.
AppAdvance == ListApps \/ DownloadAndInstallApp \/ DownloadAndUpdateApp \/ GetAppConfig \/ SetAppConfig

\* They are at work and stay so, and a configuration is set only if there is one.
LEMMA AppPass ==
  ASSUME AppAdvance
  PROVE  /\ Advance /\ Working(pc) /\ pc' \in Steps /\ pc' # "drop" /\ UNCHANGED <<loc, cluster, limits>>
         /\ pc' = "set" => loc.spec.config # Unset
         /\ made' \in SUBSET made \/ (made' = made \cup {cur} /\ ServerUp)
  <1>1. CASE ListApps
    BY <1>1 DEF ListApps, AfterList, Advance, Working, Finalizing, Steps
  <1>2. CASE DownloadAndInstallApp
    BY <1>2 DEF DownloadAndInstallApp, Advance, Working, Finalizing, Steps
  <1>3. CASE DownloadAndUpdateApp
    BY <1>3 DEF DownloadAndUpdateApp, Advance, Working, Finalizing, Steps
  <1>4. CASE GetAppConfig
    BY <1>4 DEF GetAppConfig, Advance, Working, Finalizing, Steps
  <1>5. CASE SetAppConfig
    BY <1>5 DEF SetAppConfig, Advance, Working, Finalizing, Steps
  <1> QED BY <1>1, <1>2, <1>3, <1>4, <1>5 DEF AppAdvance

\* Every step keeps the types.
LEMMA AppStep == ASSUME DNSAppTypes, Typed, [Next]_vars PROVE Typed'
  <1>0. RInv /\ Counted /\ pc \in Steps /\ (pc = "set" => loc.spec.config # Unset)
    BY DEF Typed
  <1>1. ASSUME WorkerStep(Calls) \/ UserStep \/ ClusterStep
        PROVE  RInv' /\ Counted' /\ pc' \in Steps /\ (pc' = "set" => loc'.spec.config # Unset)
    <2>1. RInv' /\ Counted' /\ pc' \in SharedPc \cup {pc}
      BY <1>0, <1>1, LifeTypes
    <2>2. CASE WorkerStep(Calls)
      <3>1. pc' # "set"
        BY <2>2, WorkerMoves DEF SharedPc
      <3> QED BY <1>0, <2>1, <3>1 DEF SharedPc, Steps, Finalizing
    <2>3. CASE UserStep \/ ClusterStep
      BY <1>0, <2>1, <2>3, WorldStays
    <2> QED BY <1>1, <2>2, <2>3
  <1>2. CASE AppAdvance
    <2>1. RInv' /\ Counted'
      BY <1>0, <1>2, AppPass, AdvanceStep, CountedAdvance DEF Advance
    <2> QED BY <1>2, <2>1, AppPass, AppData DEF Typed, AppAdvance, Next, Operator
  <1>3. CASE Refused
    <2>1. Fails /\ UNCHANGED <<cluster, limits>> /\ pc' = "idle"
      BY <1>3 DEF Refused, Fails, EndPass
    <2>2. RInv' /\ Counted'
      BY <1>0, <2>1, FailsStep, CountedFails DEF Counted, limits
    <2> QED BY <1>3, <2>1, <2>2, AppData DEF Typed, Steps, Next, Operator
  <1>4. CASE markAppReady
    <2>1. reads.version \in Applied /\ markReady(reads.version) /\ pc' = "idle"
      BY <1>0, <1>4, AppSpecTypes DEF markAppReady, markReady, EndPass, Typed, DataTypes, App
    <2>2. RInv' /\ Counted'
      BY <1>0, <2>1, MarkReadyStep, CountedReady
    <2> QED BY <1>4, <2>1, <2>2, AppData DEF Typed, Steps, Next, Operator
  <1>5. CASE finalizeDNSApp
    <2>1. Advance /\ UNCHANGED <<cluster, limits>> /\ pc' = "drop"
      BY <1>5 DEF finalizeDNSApp, Advance, Finalizing
    <2>2. RInv' /\ Counted'
      BY <1>0, <2>1, AdvanceStep, CountedAdvance DEF Advance
    <2> QED BY <1>5, <2>1, <2>2, AppData DEF Typed, Steps, Finalizing, Next, Operator
  <1>6. CASE ClusterGone
    <2>1. UNCHANGED <<stored, worker, edits, faults>> /\ cluster' = "gone" /\ outages' \in 0 .. MaxOutages
      BY <1>0, <1>6, ResourceConstants DEF ClusterGone, Outage, Counted
    <2>2. RInv' /\ Counted' /\ UNCHANGED <<pc, loc>>
      BY <1>0, <2>1, IdleStep, CountedSame DEF Counted, worker, Young
    <2> QED BY <1>0, <1>6, <2>2, AppData DEF Typed, Next, World
  <1>7. CASE Drift \/ UNCHANGED vars
    <2>1. UNCHANGED resource
      BY <1>7 DEF Drift, vars
    <2>2. RInv' /\ Counted' /\ UNCHANGED <<pc, loc>>
      BY <1>0, <2>1, IdleStep, CountedAdvance DEF resource, worker
    <2>3. CASE Drift
      BY <1>0, <2>2, <2>3, AppData DEF Typed, Next, World
    <2>4. CASE UNCHANGED vars
      BY <1>0, <2>2, <2>4 DEF Typed, DataTypes, vars
    <2> QED BY <1>7, <2>3, <2>4
  <1>8. CASE (WorkerStep(Calls) \/ UserStep \/ ClusterStep) /\ Shared
    <2>1. DataTypes'
      BY <1>8, AppSpecTypes DEF Typed, Shared, DataTypes
    <2> QED BY <1>1, <1>8, <2>1 DEF Typed
  <1>9. (\E r \in Objects, s \in Specs : (Create(r, s) \/ Edit(r, s)) /\ Shared) => UserStep /\ Shared
    BY DEF UserStep
  <1> QED BY <1>2, <1>3, <1>4, <1>5, <1>6, <1>7, <1>8, <1>9 DEF Next, Operator, World, AppAdvance

\* So is the initial state.
LEMMA AppTyped == ASSUME DNSAppTypes, Init PROVE Typed
  <1>1. RInv /\ Counted
    BY RInvInit, CountedInit DEF Init
  <1> QED BY <1>1, AppSpecTypes, DNSAppConstants DEF Init, ResourceInit, Typed, Steps, DataTypes

\* The DNSApp controller is type-correct: what it lists, what it installs, updates
\* and configures and what it reports are apps of the given versions and
\* configurations, whatever others install or remove in between.
THEOREM DNSAppTypeCorrect == ASSUME DNSAppTypes PROVE Spec => []TypeOK
  <1>1. Init => Typed
    BY AppTyped
  <1>2. Typed /\ [Next]_vars => Typed'
    BY AppStep
  <1>3. Typed => TypeOK
    BY CountedTypes DEF Typed, DataTypes, Steps, TypeOK
  <1> QED BY <1>1, <1>2, <1>3, PTL DEF Spec

\* Every step of the DNSApp controller is a step of Claim, or none.
LEMMA AppClaimStep ==
  ASSUME DNSAppTypes, ~SecretLoss, Typed, ClaimInv, [Next]_vars
  PROVE  ClaimInv' /\ [C!Next]_<<Held, made>>
  <1>0. RInv
    BY DEF ClaimInv
  <1>1. CASE (WorkerStep(Calls) \/ UserStep \/ ClusterStep) /\ Shared
    BY <1>1, SharedKeeps DEF Shared
  <1>2. CASE AppAdvance
    BY <1>0, <1>2, AppPass, AdvanceStep, OwnStep
  <1>3. CASE Refused
    <2>1. Fails /\ pc' # "drop" /\ UNCHANGED <<cluster, made>>
      BY <1>3 DEF Refused, Fails, EndPass
    <2> QED BY <1>0, <2>1, FailsStep, OwnStep
  <1>4. CASE markAppReady
    <2>1. reads.version \in Applied
      BY <1>0, AppSpecTypes DEF Typed, DataTypes, App
    <2>2. markReady(reads.version) /\ pc' # "drop" /\ UNCHANGED <<cluster, made>>
      BY <1>4 DEF markAppReady, markReady, EndPass
    <2> QED BY <1>0, <2>1, <2>2, MarkReadyStep, OwnStep
  <1>5. CASE finalizeDNSApp
    <2>1. /\ Advance /\ UNCHANGED <<cur, cluster>>
          /\ made' \in SUBSET made /\ cur \notin made'
      BY <1>5 DEF finalizeDNSApp, Advance, Finalizing
    <2> QED BY <1>0, <2>1, AdvanceStep, OwnStep
  <1>6. CASE ClusterGone \/ Drift \/ UNCHANGED vars
    BY <1>6, ForeignStep DEF ClusterGone, Outage, Drift, vars, resource
  <1>7. (\E r \in Objects, s \in Specs : (Create(r, s) \/ Edit(r, s)) /\ Shared) => UserStep /\ Shared
    BY DEF UserStep
  <1> QED BY <1>1, <1>2, <1>3, <1>4, <1>5, <1>6, <1>7 DEF Next, Operator, World, AppAdvance

\* The DNSApp controller keeps the finalizer's promise: no step of
\* reconcileDNSApp, finalizeDNSApp, a user, the cluster or anybody else installs
\* the app for a resource that may go away, or lets one go whose app is there.
THEOREM DNSAppClaims == ASSUME DNSAppTypes, ~SecretLoss PROVE Spec => Claimed
  <1>1. Init => Typed /\ ClaimInv /\ C!Init
    <2> SUFFICES ASSUME Init PROVE Typed /\ ClaimInv /\ C!Init
      OBVIOUS
    <2>1. RInv /\ Held = {} /\ made = {} /\ pc = "idle" /\ cluster = "up"
      BY RInvInit DEF Init, ResourceInit
    <2> QED BY <2>1, AppTyped DEF ClaimInv, C!Init
  <1>2. Typed /\ ClaimInv /\ [Next]_vars => Typed' /\ ClaimInv' /\ [C!Next]_<<Held, made>>
    BY AppStep, AppClaimStep
  <1> QED BY <1>1, <1>2, PTL DEF Spec, Claimed, C!Spec

-----------------------------------------------------------------------------
(* Zone. *)

\* The life cycle of Zone resources is that of Resource: it starts the same,
LEMMA ZonesInit == Zones!ResourceInit => ResourceInit
  BY Zenon DEF Zones!ResourceInit, ResourceInit, Zones!NoObj, NoObj, Zones!AnyObject, AnyObject, Zones!AnySpec, AnySpec

\* the worker takes the same steps,
LEMMA ZonesWorker == Zones!WorkerStep(Zones!Calls) => WorkerStep(Zones!Calls)
  BY Zenon DEF Zones!WorkerStep, WorkerStep, Zones!Reconcile, Reconcile, Zones!AddFinalizer, AddFinalizer,
     Zones!Unresolved, Unresolved, Zones!FinalizeUnresolved, FinalizeUnresolved, Zones!DropFinalizer, DropFinalizer,
     Zones!PassFails, PassFails, Zones!Write, Write, Zones!EndPass, EndPass, Zones!markDegraded, markDegraded,
     Zones!resolve, resolve, Zones!ServerUp, ServerUp, Zones!Finalizing, Finalizing, Zones!stored, stored, Zones!limits, limits,
     Zones!NoObj, NoObj, Zones!AnyObject, AnyObject, Zones!AnySpec, AnySpec

\* so do the users
LEMMA ZonesUser == (\E r \in Objects, s \in Specs : Zones!Create(r, s) \/ Zones!Edit(r, s)) => UserStep
  BY Zenon DEF UserStep, Zones!Create, Create, Zones!Edit, Edit, Zones!Edited, Edited, Zones!Write, Write, Zones!Touched, Touched,
     Zones!NoObj, NoObj, Zones!AnySpec, AnySpec

\* and the cluster,
LEMMA ZonesCluster == (Zones!ClusterStep => ClusterStep) /\ (Zones!Outage("gone") => Outage("gone"))
  BY Zenon DEF Zones!ClusterStep, ClusterStep, Zones!Delete, Delete, Zones!Edited, Edited, Zones!Write, Write, Zones!Touched, Touched,
     Zones!CacheSync, CacheSync, Zones!Outage, Outage, Zones!Recover, Recover, Zones!stored, stored, Zones!worker, worker,
     Zones!limits, limits, Zones!NoObj, NoObj, Zones!AnySpec, AnySpec

\* and a pass ends the same way.
LEMMA ZonesEnds ==
  /\ \A applied : Zones!markReady(applied) => markReady(applied)
  /\ Zones!markDegraded /\ Zones!EndPass => Fails
  /\ UNCHANGED Zones!stored /\ Zones!EndPass => Fails
  BY Zenon DEF Zones!markReady, markReady, Zones!markDegraded, markDegraded, Zones!Write, Write, Zones!EndPass, EndPass, Fails,
     Zones!stored, stored, Zones!limits, limits, Zones!NoObj, NoObj, Zones!AnyObject, AnyObject, Zones!AnySpec, AnySpec

\* The controller's own steps of the pass are at work and stay so.
LEMMA ZonePass ==
  ASSUME Zones!GetZoneOptions \/ Zones!CreateZone \/ Zones!reconcileOptions
  PROVE  /\ Advance /\ Working(pc) /\ pc' # "drop" /\ UNCHANGED cluster
         /\ made' \in SUBSET made \/ (made' = made \cup {cur} /\ ServerUp)
  <1>1. CASE Zones!GetZoneOptions
    BY <1>1 DEF Zones!GetZoneOptions, Zones!stored, Advance, Working, Finalizing, stored
  <1>2. CASE Zones!CreateZone
    BY <1>2 DEF Zones!CreateZone, Zones!stored, Zones!ServerUp, ServerUp, Advance, Working, Finalizing, stored
  <1>3. CASE Zones!reconcileOptions
    BY <1>3 DEF Zones!reconcileOptions, Zones!stored, Advance, Working, Finalizing, stored
  <1> QED BY <1>1, <1>2, <1>3

\* Every step of the Zone controller is a step of Claim, or none.
LEMMA ZoneClaimStep ==
  ASSUME ~SecretLoss, ClaimInv, [Zones!Next]_Zones!vars
  PROVE  ClaimInv' /\ [C!Next]_<<Held, made>>
  <1>0. RInv
    BY DEF ClaimInv
  <1>1. CASE (Zones!WorkerStep(Zones!Calls) \/ UserStep \/ Zones!ClusterStep) /\ Zones!Shared
    <2>1. (WorkerStep(Zones!Calls) \/ UserStep \/ ClusterStep) /\ made' = made
      BY <1>1, ZonesWorker, ZonesCluster, Zenon DEF Zones!Shared
    <2> QED BY <2>1, SharedKeeps
  <1>2. CASE Zones!GetZoneOptions \/ Zones!CreateZone \/ Zones!reconcileOptions
    BY <1>0, <1>2, ZonePass, AdvanceStep, OwnStep
  <1>3. CASE Zones!Refused \/ Zones!FinalizeRefused
    <2>1. /\ UNCHANGED <<cluster, made>> /\ Zones!EndPass
          /\ Zones!markDegraded \/ UNCHANGED Zones!stored
      BY <1>3, Zenon DEF Zones!Refused, Zones!FinalizeRefused
    <2>2. Fails /\ pc' # "drop"
      BY <2>1, ZonesEnds DEF Zones!EndPass
    <2> QED BY <1>0, <2>1, <2>2, FailsStep, OwnStep
  <1>4. CASE Zones!markZoneReady
    <2>1. markReady(NotApplied) /\ UNCHANGED made
      BY <1>4, ZonesEnds, Zenon DEF Zones!markZoneReady
    <2>2. pc' # "drop" /\ UNCHANGED cluster
      BY <2>1 DEF markReady, EndPass
    <2> QED BY <1>0, <2>1, <2>2, MarkReadyStep, OwnStep, ResourceConstants
  <1>5. CASE Zones!finalizeZone
    <2>1. /\ Advance /\ UNCHANGED <<cur, cluster>>
          /\ made' = {} \/ made' = made \ {cur}
      BY <1>5, Zenon DEF Zones!finalizeZone, Zones!stored, stored, Advance, Finalizing
    <2>2. made' \in SUBSET made /\ cur \notin made'
      BY <2>1
    <2> QED BY <1>0, <2>1, <2>2, AdvanceStep, OwnStep
  <1>6. CASE Zones!ClusterGone
    <2>1. Outage("gone") /\ made' = {}
      BY <1>6, ZonesCluster, Zenon DEF Zones!ClusterGone
    <2> QED BY <2>1, ForeignStep DEF Outage
  <1>7. CASE Zones!Drift \/ Zones!Scale \/ UNCHANGED Zones!vars
    <2>1. Zones!Drift => UNCHANGED Zones!resource /\ (made' = {} \/ made' = made)
      BY Zenon DEF Zones!Drift
    <2>2. Zones!Scale => UNCHANGED <<Zones!stored, Zones!worker, cluster, made>>
      BY DEF Zones!Scale, Zones!Edited, Zones!resource
    <2>3. UNCHANGED <<stored, worker, cluster>> /\ made' \in SUBSET made
      BY <1>7, <2>1, <2>2 DEF Zones!vars, Zones!resource, Zones!stored, Zones!worker, stored, worker
    <2> QED BY <2>3, ForeignStep
  <1>8. CASE \E r \in Objects, s \in Specs :
               (Zones!Create(r, s) \/ Zones!Edit(r, s)) /\ Zones!Shared
    <2>1. UserStep /\ Zones!Shared
      BY <1>8, ZonesUser, Zenon
    <2> QED BY <1>1, <2>1
  <1> QED BY <1>1, <1>2, <1>3, <1>4, <1>5, <1>6, <1>7, <1>8, Zenon DEF Zones!Next, Zones!Operator, Zones!World

\* The Zone controller keeps the finalizer's promise: no step of reconcileZone,
\* finalizeZone, a user, the cluster or anybody else creates the zone for a
\* resource that may go away, or lets one go whose zone is still there.
THEOREM ZoneClaims == ASSUME ~SecretLoss PROVE Zones!Spec => Zones!Claimed
  <1>1. Zones!Init => ClaimInv /\ Zones!C!Init
    <2> SUFFICES ASSUME Zones!Init PROVE ClaimInv /\ Zones!C!Init
      OBVIOUS
    <2>1. ResourceInit /\ made = {}
      BY ZonesInit DEF Zones!Init
    <2>2. RInv /\ Held = {} /\ pc = "idle" /\ cluster = "up"
      BY <2>1, RInvInit DEF ResourceInit
    <2> QED BY <2>1, <2>2 DEF ClaimInv, Zones!C!Init, Zones!Held, Held
  <1>2. ClaimInv /\ [Zones!Next]_Zones!vars => ClaimInv' /\ [Zones!C!Next]_<<Zones!Held, made>>
    <2> SUFFICES ASSUME ClaimInv, [Zones!Next]_Zones!vars
                 PROVE  ClaimInv' /\ [Zones!C!Next]_<<Zones!Held, made>>
      OBVIOUS
    <2>1. ClaimInv' /\ [C!Next]_<<Held, made>>
      BY ZoneClaimStep
    <2>2. [C!Next]_<<Held, made>> => [Zones!C!Next]_<<Zones!Held, made>>
      BY Zenon DEF C!Next, C!Take, C!Put, C!Clean, C!Release, Held,
         Zones!C!Next, Zones!C!Take, Zones!C!Put, Zones!C!Clean, Zones!C!Release, Zones!Held
    <2> QED BY <2>1, <2>2
  <1> QED BY <1>1, <1>2, PTL DEF Zones!Spec, Zones!Claimed, Zones!C!Spec

-----------------------------------------------------------------------------
(* DNSSEC. *)

\* The life cycle of DNSSEC resources is that of Resource: it starts the same,
LEMMA SigningInit == Signing!ResourceInit => ResourceInit
  BY Zenon DEF Signing!ResourceInit, ResourceInit, Signing!NoObj, NoObj, Signing!AnyObject, AnyObject, Signing!AnySpec, AnySpec

\* the worker takes the same steps,
LEMMA SigningWorker == Signing!WorkerStep(Signing!Calls) => WorkerStep(Signing!Calls)
  BY Zenon DEF Signing!WorkerStep, WorkerStep, Signing!Reconcile, Reconcile, Signing!AddFinalizer, AddFinalizer,
     Signing!Unresolved, Unresolved, Signing!FinalizeUnresolved, FinalizeUnresolved, Signing!DropFinalizer, DropFinalizer,
     Signing!PassFails, PassFails, Signing!Write, Write, Signing!EndPass, EndPass, Signing!markDegraded, markDegraded,
     Signing!resolve, resolve, Signing!ServerUp, ServerUp, Signing!Finalizing, Finalizing, Signing!stored, stored, Signing!limits, limits,
     Signing!NoObj, NoObj, Signing!AnyObject, AnyObject, Signing!AnySpec, AnySpec

\* so do the users
LEMMA SigningUser == (\E r \in Objects, s \in Specs : Signing!Create(r, s) \/ Signing!Edit(r, s)) => UserStep
  BY Zenon DEF UserStep, Signing!Create, Create, Signing!Edit, Edit, Signing!Edited, Edited, Signing!Write, Write, Signing!Touched, Touched,
     Signing!NoObj, NoObj, Signing!AnySpec, AnySpec

\* and the cluster,
LEMMA SigningCluster == (Signing!ClusterStep => ClusterStep) /\ (Signing!Outage("gone") => Outage("gone"))
  BY Zenon DEF Signing!ClusterStep, ClusterStep, Signing!Delete, Delete, Signing!Edited, Edited, Signing!Write, Write, Signing!Touched, Touched,
     Signing!CacheSync, CacheSync, Signing!Outage, Outage, Signing!Recover, Recover, Signing!stored, stored, Signing!worker, worker,
     Signing!limits, limits, Signing!NoObj, NoObj, Signing!AnySpec, AnySpec

\* and a pass ends the same way.
LEMMA SigningEnds ==
  /\ \A applied : Signing!markReady(applied) => markReady(applied)
  /\ Signing!markDegraded /\ Signing!EndPass => Fails
  /\ UNCHANGED Signing!stored /\ Signing!EndPass => Fails
  BY Zenon DEF Signing!markReady, markReady, Signing!markDegraded, markDegraded, Signing!Write, Write, Signing!EndPass, EndPass, Fails,
     Signing!stored, stored, Signing!limits, limits, Signing!NoObj, NoObj, Signing!AnyObject, AnyObject, Signing!AnySpec, AnySpec

\* The controller's own steps of the pass are at work and stay so.
LEMMA SigningPass ==
  ASSUME Signing!GetDNSSECProperties \/ Signing!SignZone
  PROVE  /\ Advance /\ Working(pc) /\ pc' # "drop" /\ UNCHANGED cluster
         /\ made' \in SUBSET made \/ (made' = made \cup {cur} /\ ServerUp)
  <1>1. CASE Signing!GetDNSSECProperties
    BY <1>1 DEF Signing!GetDNSSECProperties, Signing!stored, Advance, Working, Finalizing, stored
  <1>2. CASE Signing!SignZone
    BY <1>2 DEF Signing!SignZone, Signing!stored, Signing!ServerUp, ServerUp, Advance, Working, Finalizing, stored
  <1> QED BY <1>1, <1>2

\* Every step of the DNSSEC controller is a step of Claim, or none.
LEMMA SigningClaimStep ==
  ASSUME Signing!DNSSECConstants, ~SecretLoss, ClaimInv, [Signing!Next]_Signing!vars
  PROVE  ClaimInv' /\ [C!Next]_<<Held, made>>
  <1>0. RInv
    BY DEF ClaimInv
  <1>1. CASE (Signing!WorkerStep(Signing!Calls) \/ UserStep \/ Signing!ClusterStep) /\ Signing!Shared
    <2>1. (WorkerStep(Signing!Calls) \/ UserStep \/ ClusterStep) /\ made' = made
      BY <1>1, SigningWorker, SigningCluster, Zenon DEF Signing!Shared
    <2> QED BY <2>1, SharedKeeps
  <1>2. CASE Signing!GetDNSSECProperties \/ Signing!SignZone
    BY <1>0, <1>2, SigningPass, AdvanceStep, OwnStep
  <1>3. CASE Signing!Refused \/ Signing!FinalizeRefused
    <2>1. UNCHANGED <<cluster, made>> /\ Signing!EndPass /\ (Signing!markDegraded \/ UNCHANGED Signing!stored)
      BY <1>3, Zenon DEF Signing!Refused, Signing!FinalizeRefused
    <2>2. Fails /\ pc' # "drop"
      BY <2>1, SigningEnds DEF Signing!EndPass
    <2> QED BY <1>0, <2>1, <2>2, FailsStep, OwnStep
  <1>4. CASE Signing!markSigned
    <2>1. markReady(TRUE) /\ UNCHANGED made
      BY <1>4, SigningEnds, Zenon DEF Signing!markSigned
    <2>2. pc' # "drop" /\ UNCHANGED cluster
      BY <2>1 DEF markReady, EndPass
    <2>3. TRUE \in Applied
      BY DEF Signing!DNSSECConstants
    <2> QED BY <1>0, <2>1, <2>2, <2>3, MarkReadyStep, OwnStep
  <1>5. CASE Signing!finalizeDNSSEC
    <2>1. /\ Advance /\ UNCHANGED <<cur, cluster>>
          /\ made' = {} \/ made' = made \ {cur}
      BY <1>5, Zenon DEF Signing!finalizeDNSSEC, Signing!stored, stored, Advance, Finalizing
    <2>2. made' \in SUBSET made /\ cur \notin made'
      BY <2>1
    <2> QED BY <1>0, <2>1, <2>2, AdvanceStep, OwnStep
  <1>6. CASE Signing!ClusterGone
    <2>1. Outage("gone") /\ made' = {}
      BY <1>6, SigningCluster, Zenon DEF Signing!ClusterGone
    <2> QED BY <2>1, ForeignStep DEF Outage
  <1>7. CASE Signing!Drift \/ UNCHANGED Signing!vars
    <2>1. UNCHANGED <<stored, worker, cluster>> /\ made' \in SUBSET made
      BY <1>7 DEF Signing!Drift, Signing!vars, Signing!resource, Signing!stored, Signing!worker, stored, worker
    <2> QED BY <2>1, ForeignStep
  <1>8. CASE \E r \in Objects, s \in Specs : (Signing!Create(r, s) \/ Signing!Edit(r, s)) /\ Signing!Shared
    <2>1. UserStep /\ Signing!Shared
      BY <1>8, SigningUser, Zenon
    <2> QED BY <1>1, <2>1
  <1> QED BY <1>1, <1>2, <1>3, <1>4, <1>5, <1>6, <1>7, <1>8, Zenon DEF Signing!Next, Signing!Operator, Signing!World

\* The DNSSEC controller keeps the finalizer's promise: no step of
\* reconcileDNSSEC, finalizeDNSSEC, a user, the cluster or anybody else signs the
\* zone for a resource that may go away, or lets one go whose signature is there.
THEOREM DNSSECClaims == ASSUME Signing!DNSSECConstants, ~SecretLoss PROVE Signing!Spec => Signing!Claimed
  <1>1. Signing!Init => ClaimInv /\ Signing!C!Init
    <2> SUFFICES ASSUME Signing!Init PROVE ClaimInv /\ Signing!C!Init
      OBVIOUS
    <2>1. ResourceInit /\ made = {}
      BY SigningInit DEF Signing!Init
    <2>2. RInv /\ Held = {} /\ pc = "idle" /\ cluster = "up"
      BY <2>1, RInvInit DEF ResourceInit
    <2> QED BY <2>1, <2>2 DEF ClaimInv, Signing!C!Init, Signing!Held, Held
  <1>2. ClaimInv /\ [Signing!Next]_Signing!vars => ClaimInv' /\ [Signing!C!Next]_<<Signing!Held, made>>
    <2> SUFFICES ASSUME ClaimInv, [Signing!Next]_Signing!vars
                 PROVE  ClaimInv' /\ [Signing!C!Next]_<<Signing!Held, made>>
      OBVIOUS
    <2>1. ClaimInv' /\ [C!Next]_<<Held, made>>
      BY SigningClaimStep
    <2>2. [C!Next]_<<Held, made>> => [Signing!C!Next]_<<Signing!Held, made>>
      BY Zenon DEF C!Next, C!Take, C!Put, C!Clean, C!Release, Held,
         Signing!C!Next, Signing!C!Take, Signing!C!Put, Signing!C!Clean, Signing!C!Release, Signing!Held
    <2> QED BY <2>1, <2>2
  <1> QED BY <1>1, <1>2, PTL DEF Signing!Spec, Signing!Claimed, Signing!C!Spec

-----------------------------------------------------------------------------
(* ServerSettings. *)

\* The life cycle of ServerSettings resources is that of Resource: it starts the same,
LEMMA SettingsInit == Settings!ResourceInit => ResourceInit
  BY Zenon DEF Settings!ResourceInit, ResourceInit, Settings!NoObj, NoObj, Settings!AnyObject, AnyObject, Settings!AnySpec, AnySpec

\* the worker takes the same steps,
LEMMA SettingsWorker == Settings!WorkerStep(Settings!Calls) => WorkerStep(Settings!Calls)
  BY Zenon DEF Settings!WorkerStep, WorkerStep, Settings!Reconcile, Reconcile, Settings!AddFinalizer, AddFinalizer,
     Settings!Unresolved, Unresolved, Settings!FinalizeUnresolved, FinalizeUnresolved, Settings!DropFinalizer, DropFinalizer,
     Settings!PassFails, PassFails, Settings!Write, Write, Settings!EndPass, EndPass, Settings!markDegraded, markDegraded,
     Settings!resolve, resolve, Settings!ServerUp, ServerUp, Settings!Finalizing, Finalizing, Settings!stored, stored, Settings!limits, limits,
     Settings!NoObj, NoObj, Settings!AnyObject, AnyObject, Settings!AnySpec, AnySpec

\* so do the users
LEMMA SettingsUser == (\E r \in Objects, s \in Specs : Settings!Create(r, s) \/ Settings!Edit(r, s)) => UserStep
  BY Zenon DEF UserStep, Settings!Create, Create, Settings!Edit, Edit, Settings!Edited, Edited, Settings!Write, Write, Settings!Touched, Touched,
     Settings!NoObj, NoObj, Settings!AnySpec, AnySpec

\* and the cluster,
LEMMA SettingsCluster == (Settings!ClusterStep => ClusterStep) /\ (Settings!Outage("gone") => Outage("gone"))
  BY Zenon DEF Settings!ClusterStep, ClusterStep, Settings!Delete, Delete, Settings!Edited, Edited, Settings!Write, Write, Settings!Touched, Touched,
     Settings!CacheSync, CacheSync, Settings!Outage, Outage, Settings!Recover, Recover, Settings!stored, stored, Settings!worker, worker,
     Settings!limits, limits, Settings!NoObj, NoObj, Settings!AnySpec, AnySpec

\* and a pass ends the same way.
LEMMA SettingsEnds ==
  /\ \A applied : Settings!markReady(applied) => markReady(applied)
  /\ Settings!markDegraded /\ Settings!EndPass => Fails
  /\ UNCHANGED Settings!stored /\ Settings!EndPass => Fails
  BY Zenon DEF Settings!markReady, markReady, Settings!markDegraded, markDegraded, Settings!Write, Write, Settings!EndPass, EndPass, Fails,
     Settings!stored, stored, Settings!limits, limits, Settings!NoObj, NoObj, Settings!AnyObject, AnyObject, Settings!AnySpec, AnySpec

SettingsSteps == {"idle", "finalizer", "reconcile", "set", "get", "ready", "finalize", "drop"}
SettingsData == server \in Settings!DNSSettings /\ reads \in Settings!DNSSettings /\ drifts \in 0 .. MaxDrifts
SettingsTyped == RInv /\ Counted /\ pc \in SettingsSteps /\ SettingsData

\* The settings of a fresh server are settings, and so are reported ones.
LEMMA SettingsFresh ==
  ASSUME Settings!SettingsConstants
  PROVE  /\ Settings!Fresh \in Settings!DNSSettings /\ Settings!DNSSettings \subseteq Applied
         /\ MaxDrifts \in Nat
  <1>1. (CHOOSE v \in Values : TRUE) \in Values
    BY DEF Settings!SettingsConstants
  <1>2. \A f \in Settings!Fields : Settings!Fresh[f] \in Settings!Addresses
    BY <1>1 DEF Settings!Fresh, Settings!Addresses
  <1>3. \A f \in Settings!Fields \ Settings!Lists : Settings!Fresh[f] # Empty
    BY <1>1 DEF Settings!Fresh, Settings!SettingsConstants
  <1>4. Settings!Fresh \in [Settings!Fields -> Settings!Addresses]
    BY <1>2 DEF Settings!Fresh
  <1> QED BY <1>3, <1>4 DEF Settings!DNSSettings, Settings!SettingsConstants

\* What a spec asks for in a field is Unset or a value that the field can have.
LEMMA SettingsDesired ==
  ASSUME Settings!SettingsConstants, NEW s \in Specs, NEW f \in Settings!Fields
  PROVE  LET d == Settings!setDNSSettingsOptionsFromSpec(s)[f] IN
         d = Unset \/ (d \in Settings!Addresses /\ (f \notin Settings!Lists => d # Empty))
  <1> DEFINE d == Settings!setDNSSettingsOptionsFromSpec(s)[f]
  <1>0. s \in Settings!ServerSettingsSpec /\ Empty \notin Values
    BY DEF Settings!SettingsConstants
  <1>1. /\ s.forwarders = Unset \/ (s.forwarders.addresses \in Settings!Addresses /\ s.forwarders.protocol \in Settings!Optional)
        /\ s.recursion = Unset \/ (s.recursion.policy \in Values /\ s.recursion.networkACL \in Settings!Addresses)
        /\ s["cache"] \in Settings!Optional /\ s["logging"] \in Settings!Optional
    BY <1>0 DEF Settings!ServerSettingsSpec
  <1>2. CASE f = "forwarders"
    <2>1. d = IF s.forwarders = Unset THEN Unset ELSE s.forwarders.addresses
      BY <1>2 DEF Settings!setDNSSettingsOptionsFromSpec
    <2> QED BY <1>1, <1>2, <2>1 DEF Settings!Lists
  <1>3. CASE f = "forwarderProtocol"
    <2>1. d = IF s.forwarders = Unset THEN Unset ELSE s.forwarders.protocol
      BY <1>3 DEF Settings!setDNSSettingsOptionsFromSpec
    <2> QED BY <1>0, <1>1, <2>1 DEF Settings!Optional, Settings!Addresses
  <1>4. CASE f = "recursion"
    <2>1. d = IF s.recursion = Unset THEN Unset ELSE s.recursion.policy
      BY <1>4 DEF Settings!setDNSSettingsOptionsFromSpec
    <2> QED BY <1>0, <1>1, <2>1 DEF Settings!Addresses
  <1>5. CASE f = "recursionNetworkACL"
    <2>1. d = IF s.recursion = Unset THEN Unset ELSE s.recursion.networkACL
      BY <1>5 DEF Settings!setDNSSettingsOptionsFromSpec
    <2> QED BY <1>1, <1>5, <2>1 DEF Settings!Lists
  <1>6. CASE f \in {"cache", "logging"}
    <2>1. d = s[f]
      BY <1>6 DEF Settings!setDNSSettingsOptionsFromSpec
    <2> QED BY <1>0, <1>1, <1>6, <2>1 DEF Settings!Optional, Settings!Addresses
  <1> QED BY <1>2, <1>3, <1>4, <1>5, <1>6 DEF Settings!Fields, Settings!Lists

\* What is sent, over what the server has, are settings.
LEMMA SettingsSent ==
  ASSUME Settings!SettingsConstants, NEW s \in Specs, server \in Settings!DNSSettings,
         server' = [f \in Settings!Fields |-> IF Settings!setDNSSettingsOptionsFromSpec(s)[f] = Unset
                                              THEN server[f] ELSE Settings!setDNSSettingsOptionsFromSpec(s)[f]]
  PROVE  server' \in Settings!DNSSettings
  <1>1. ASSUME NEW f \in Settings!Fields
        PROVE  server'[f] \in Settings!Addresses /\ (f \notin Settings!Lists => server'[f] # Empty)
    <2>1. server[f] \in Settings!Addresses /\ (f \notin Settings!Lists => server[f] # Empty)
      BY DEF Settings!DNSSettings
    <2> QED BY <2>1, SettingsDesired
  <1>2. server' \in [Settings!Fields -> Settings!Addresses]
    BY <1>1
  <1> QED BY <1>1, <1>2 DEF Settings!DNSSettings

\* The types of the settings, of what was got and of the number of changes.
LEMMA SettingsTypes ==
  ASSUME Settings!SettingsConstants, SettingsTyped, Settings!Next PROVE SettingsData'
  <1>0. SettingsData /\ loc.spec \in Specs
    BY DEF SettingsTyped, RInv, PassTypes, ObjectType
  <1>1. CASE Settings!Shared
    BY <1>0, <1>1, SettingsFresh DEF Settings!Shared, SettingsData
  <1>2. CASE Settings!GetDNSSettings \/ Settings!finalizeServerSettings
    BY <1>0, <1>2 DEF Settings!GetDNSSettings, Settings!finalizeServerSettings, SettingsData
  <1>3. CASE Settings!SetDNSSettings
    <2>1. UNCHANGED <<reads, drifts>>
      BY <1>3, Zenon DEF Settings!SetDNSSettings
    <2>2. server' \in Settings!DNSSettings
      BY <1>0, <1>3, SettingsSent, Zenon DEF Settings!SetDNSSettings, SettingsData
    <2> QED BY <1>0, <2>1, <2>2 DEF SettingsData
  <1>4. CASE Settings!markSettingsReady \/ Settings!ClusterGone
    BY <1>0, <1>4, SettingsFresh, Zenon DEF Settings!markSettingsReady, Settings!ClusterGone, SettingsData
  <1>5. CASE Settings!Drift
    <2>1. /\ drifts \in 0 .. MaxDrifts /\ drifts < MaxDrifts /\ drifts' = drifts + 1
          /\ UNCHANGED reads /\ server' \in Settings!DNSSettings
      BY <1>0, <1>5, Zenon DEF Settings!Drift, SettingsData
    <2>2. drifts' \in 0 .. MaxDrifts
      BY <2>1, SettingsFresh
    <2> QED BY <1>0, <2>1, <2>2 DEF SettingsData
  <1> QED BY <1>1, <1>2, <1>3, <1>4, <1>5, Zenon DEF Settings!Next, Settings!Operator, Settings!World

\* Every step keeps the types.
LEMMA SettingsStep ==
  ASSUME Settings!SettingsConstants, SettingsTyped, [Settings!Next]_Settings!vars PROVE SettingsTyped'
  <1>0. RInv /\ Counted /\ pc \in SettingsSteps
    BY DEF SettingsTyped
  <1>1. CASE Settings!Next
    <2>0. SettingsData'
      BY <1>1, SettingsTypes
    <2>1. CASE (Settings!WorkerStep(Settings!Calls) \/ UserStep \/ Settings!ClusterStep) /\ Settings!Shared
      <3>1. WorkerStep(Settings!Calls) \/ UserStep \/ ClusterStep
        BY <2>1, SettingsWorker, SettingsCluster, Zenon
      <3>2. RInv' /\ Counted' /\ pc' \in SharedPc \cup {pc}
        BY <1>0, <3>1, LifeTypes
      <3> QED BY <1>0, <2>0, <3>2 DEF SettingsTyped, SharedPc, SettingsSteps
    <2>2. CASE Settings!GetDNSSettings \/ Settings!SetDNSSettings \/ Settings!finalizeServerSettings
      <3>1. UNCHANGED <<stored, cur, loc, current, cluster, limits>>
        BY <2>2 DEF Settings!GetDNSSettings, Settings!SetDNSSettings, Settings!finalizeServerSettings,
           Settings!stored, stored, Settings!limits, limits
      <3>2. \/ pc \in {"reconcile", "set", "get"} /\ pc' \in {"set", "get", "ready"}
            \/ pc = "finalize" /\ pc' = "drop"
        BY <2>2 DEF Settings!GetDNSSettings, Settings!SetDNSSettings, Settings!finalizeServerSettings
      <3>3. Advance /\ pc' \in SettingsSteps
        BY <3>1, <3>2 DEF Advance, Working, Finalizing, SettingsSteps
      <3>4. RInv' /\ Counted'
        BY <1>0, <3>1, <3>3, AdvanceStep, CountedAdvance
      <3> QED BY <2>0, <3>3, <3>4 DEF SettingsTyped
    <2>3. CASE Settings!markSettingsReady
      <3>1. markReady(reads) /\ reads \in Applied
        BY <2>3, SettingsEnds, SettingsFresh, Zenon DEF Settings!markSettingsReady, SettingsTyped, SettingsData
      <3>2. RInv' /\ Counted'
        BY <1>0, <3>1, MarkReadyStep, CountedReady
      <3>3. pc' \in SettingsSteps
        BY <3>1 DEF markReady, EndPass, SettingsSteps
      <3> QED BY <2>0, <3>2, <3>3 DEF SettingsTyped
    <2>4. CASE Settings!ClusterGone
      <3>1. Outage("gone")
        BY <2>4, SettingsCluster, Zenon DEF Settings!ClusterGone
      <3>2. UNCHANGED <<stored, worker, edits, faults>> /\ cluster' = "gone" /\ outages' \in 0 .. MaxOutages
        BY <1>0, <3>1, ResourceConstants DEF Outage, Counted
      <3>3. RInv' /\ Counted' /\ UNCHANGED pc
        BY <1>0, <3>2, IdleStep, CountedSame DEF Counted, worker, Young
      <3> QED BY <1>0, <2>0, <3>3 DEF SettingsTyped
    <2>5. CASE Settings!Drift
      <3>1. UNCHANGED resource
        BY <2>5 DEF Settings!Drift, Settings!resource, Settings!stored, Settings!worker, Settings!limits,
           resource, stored, worker, limits
      <3>2. RInv' /\ Counted' /\ UNCHANGED pc
        BY <1>0, <3>1, IdleStep, CountedAdvance DEF resource, worker
      <3> QED BY <1>0, <2>0, <3>2 DEF SettingsTyped
    <2>6. CASE \E r \in Objects, s \in Specs :
                 Settings!Disjoint(r, s) /\ (Settings!Create(r, s) \/ Settings!Edit(r, s)) /\ Settings!Shared
      <3>1. UserStep /\ Settings!Shared
        BY <2>6, SettingsUser, Zenon
      <3> QED BY <2>1, <3>1
    <2> QED BY <1>1, <2>1, <2>2, <2>3, <2>4, <2>5, <2>6, Zenon DEF Settings!Next, Settings!Operator, Settings!World
  <1>2. CASE UNCHANGED Settings!vars
    <2>1. UNCHANGED <<resource, server, reads, drifts>>
      BY <1>2 DEF Settings!vars, Settings!resource, Settings!stored, Settings!worker, Settings!limits,
         resource, stored, worker, limits
    <2>2. RInv' /\ Counted' /\ UNCHANGED pc
      BY <1>0, <2>1, IdleStep, CountedAdvance DEF resource, worker
    <2> QED BY <1>0, <2>1, <2>2 DEF SettingsTyped, SettingsData
  <1> QED BY <1>1, <1>2

\* So is the initial state.
LEMMA SettingsStart == ASSUME Settings!SettingsConstants, Settings!Init PROVE SettingsTyped
  <1>1. ResourceInit /\ server = Settings!Fresh /\ reads = Settings!Fresh /\ drifts = 0
    BY SettingsInit, Zenon DEF Settings!Init
  <1>2. RInv /\ Counted /\ pc = "idle"
    BY <1>1, RInvInit, CountedInit DEF ResourceInit
  <1> QED BY <1>1, <1>2, SettingsFresh DEF SettingsTyped, SettingsSteps, SettingsData

\* The ServerSettings controller is type-correct: what it gets, sends and reports
\* are settings a server can have, so an empty value is sent for lists only, and
\* never a field the spec leaves out (setDNSSettingsOptionsFromSpec).
THEOREM SettingsTypeCorrect ==
  ASSUME Settings!SettingsConstants PROVE Settings!Spec => []Settings!TypeOK
  <1>1. Settings!Init => SettingsTyped
    BY SettingsStart
  <1>2. SettingsTyped /\ [Settings!Next]_Settings!vars => SettingsTyped'
    BY SettingsStep
  <1>3. SettingsTyped => Settings!TypeOK
    <2>1. ResourceTypeOK => Settings!ResourceTypeOK
      BY Zenon DEF Settings!ResourceTypeOK, ResourceTypeOK, Settings!Object, Object
    <2> QED BY <2>1, CountedTypes DEF SettingsTyped, SettingsData, SettingsSteps, Settings!TypeOK
  <1> QED BY <1>1, <1>2, <1>3, PTL DEF Settings!Spec

\* What a step that is nobody else's changes belongs to the pass's resource.
LEMMA SettingsOwn ==
  ASSUME Settings!SettingsConstants, SettingsTyped, [Settings!Next]_Settings!vars,
         drifts' = drifts, cluster' = cluster, NEW f \in Settings!Fields, server'[f] # server[f]
  PROVE  f \in Settings!Sets(loc.spec)
  <1>1. ~Settings!Drift
    <2>1. drifts \in Nat
      BY SettingsFresh DEF SettingsTyped, SettingsData
    <2>2. drifts + 1 # drifts
      BY <2>1
    <2> QED BY <2>2, Zenon DEF Settings!Drift
  <1>2. ~Settings!ClusterGone
    BY DEF Settings!ClusterGone, Settings!Outage
  <1>3. ASSUME Settings!SetDNSSettings PROVE f \in Settings!Sets(loc.spec)
    <2>1. server' = [g \in Settings!Fields |-> IF Settings!setDNSSettingsOptionsFromSpec(loc.spec)[g] = Unset
                                              THEN server[g] ELSE Settings!setDNSSettingsOptionsFromSpec(loc.spec)[g]]
      BY <1>3, Zenon DEF Settings!SetDNSSettings
    <2>2. Settings!setDNSSettingsOptionsFromSpec(loc.spec)[f] # Unset
      BY <2>1, Zenon
    <2> QED BY <2>2, Zenon DEF Settings!Sets
  <1>4. Settings!SetDNSSettings \/ UNCHANGED server
    BY <1>1, <1>2, Zenon DEF Settings!Next, Settings!Operator, Settings!World, Settings!Shared, Settings!vars,
       Settings!GetDNSSettings, Settings!markSettingsReady, Settings!finalizeServerSettings
  <1> QED BY <1>3, <1>4

\* A pass of the ServerSettings controller changes no setting but those its
\* resource sets, whatever others changed between its GetDNSSettings and its
\* SetDNSSettings: the spec's fields are sent, never what was read.
THEOREM SettingsOwnOnly ==
  ASSUME Settings!SettingsConstants PROVE Settings!Spec => Settings!ChangesOnlyItsOwn
  <1>1. Settings!Init => SettingsTyped
    BY SettingsStart
  <1>2. SettingsTyped /\ [Settings!Next]_Settings!vars => SettingsTyped'
    BY SettingsStep
  <1>3. SettingsTyped /\ [Settings!Next]_Settings!vars =>
          [(drifts' = drifts /\ cluster' = cluster) =>
             \A f \in Settings!Fields : server'[f] # server[f] => f \in Settings!Sets(loc.spec)]_Settings!vars
    BY SettingsOwn
  <1> QED BY <1>1, <1>2, <1>3, PTL DEF Settings!Spec, Settings!ChangesOnlyItsOwn
=============================================================================
