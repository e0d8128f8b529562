------------------------------- MODULE DNSApp -------------------------------
(***************************************************************************)
(* The DNSApp controller: one DNS App of the server (appName is            *)
(* immutable), installed when absent, updated when its version is not the  *)
(* spec's, and configured.  Contents is the version of the package a URL   *)
(* serves.  made is a history variable: the resources that installed the   *)
(* app that is on the server.                                              *)
(***************************************************************************)
EXTENDS Resource

CONSTANTS
  URLs, Versions, Contents,
  Configs, Rejected,   \* configurations, and those the app refuses
  Default,             \* the configuration of a fresh install
  Unset,               \* a spec without version or configuration
  MaxDrifts            \* bound of changes made behind the operator's back

DNSAppSpec == [url : URLs, version : Versions \cup {Unset}, config : Configs \cup {Unset},
               policy : {"Delete", "Orphan"}]

ASSUME DNSAppConstants ==
  /\ Contents \in [URLs -> Versions] /\ Rejected \subseteq Configs /\ Default \notin Configs
  /\ Unset \notin Versions \cup Configs /\ MaxDrifts \in Nat

\* What the resources ask for, and what their status says was applied.
DNSAppTypes == Specs \subseteq DNSAppSpec /\ Applied = Versions \cup {NotApplied} /\ NotApplied \notin Versions

VARIABLES
  server,   \* the app on the server
  reads,    \* the app as the pass last listed it
  drifts,
  made

vars == <<resource, server, reads, drifts, made>>

NoApp == [installed |-> FALSE, version |-> CHOOSE v \in Versions : TRUE, config |-> Default]

Init ==
  /\ ResourceInit
  /\ server = NoApp /\ reads = NoApp /\ drifts = 0 /\ made = {}

-----------------------------------------------------------------------------
(* reconcileDNSApp. *)

Calls == pc \in {"install", "update", "relist", "set"} \/ (pc = "config" /\ loc.spec.config # Unset)

\* Mutant: an app that is there is never updated.
AfterListInstallsOnly(app) == IF ~app.installed THEN "install" ELSE "config"

\* Mutant: an app with a version is downloaded in every pass.
AfterListRepeats(app) ==
  IF ~app.installed THEN "install" ELSE IF loc.spec.version # Unset THEN "update" ELSE "config"

\* What the first list calls for.
AfterList(app) ==
  IF ~app.installed THEN "install"
  ELSE IF loc.spec.version \notin {Unset, app.version} THEN "update" ELSE "config"

ListApps ==
  /\ \/ pc = "reconcile" /\ resolve = "client" /\ pc' = AfterList(server)
     \/ pc = "relist" /\ ServerUp /\ pc' = "config"
  /\ reads' = server
  /\ UNCHANGED <<stored, cur, loc, current, cluster, limits, server, drifts, made>>

\* An app that somebody else installed in the meantime is taken as it is.
DownloadAndInstallApp ==
  /\ pc = "install" /\ ServerUp
  /\ IF server.installed THEN UNCHANGED <<server, made>>
     ELSE /\ server' = [installed |-> TRUE, version |-> Contents[loc.spec.url], config |-> Default]
          /\ made' = made \cup {cur}
  /\ pc' = "relist"
  /\ UNCHANGED <<stored, cur, loc, current, cluster, limits, reads, drifts>>

DownloadAndUpdateApp ==
  /\ pc = "update" /\ ServerUp /\ server.installed
  /\ server' = [server EXCEPT !.version = Contents[loc.spec.url]]
  /\ pc' = "relist"
  /\ UNCHANGED <<stored, cur, loc, current, cluster, limits, reads, drifts, made>>

\* reconcileConfig's GetAppConfig, when a configuration is given; the pass ends
\* well only if it has seen the app in a list.
GetAppConfig ==
  /\ pc = "config" /\ (Calls => ServerUp /\ server.installed)
  /\ \/ loc.spec.config \in {Unset, server.config} /\ reads.installed /\ pc' = "ready"
     \/ loc.spec.config \notin {Unset, server.config} /\ pc' = "set"
  /\ UNCHANGED <<stored, cur, loc, current, cluster, limits, server, reads, drifts, made>>

SetAppConfig ==
  /\ pc = "set" /\ ServerUp /\ server.installed /\ loc.spec.config \notin Rejected /\ reads.installed
  /\ server' = [server EXCEPT !.config = loc.spec.config]
  /\ pc' = "ready"
  /\ UNCHANGED <<stored, cur, loc, current, cluster, limits, reads, drifts, made>>

\* A call on an app that is no longer there, a configuration the app refuses, or
\* an app missing from the second list (its configuration is set nonetheless).
Refused ==
  /\ \/ pc \in {"update", "config", "set"} /\ Calls /\ ServerUp /\ ~server.installed /\ UNCHANGED server
     \/ pc = "set" /\ ServerUp /\ server.installed /\ loc.spec.config \in Rejected /\ UNCHANGED server
     \/ /\ pc = "config" /\ ~reads.installed /\ (Calls => ServerUp /\ server.installed)
        /\ loc.spec.config \in {Unset, server.config} /\ UNCHANGED server
     \/ /\ pc = "set" /\ ~reads.installed /\ ServerUp /\ server.installed /\ loc.spec.config \notin Rejected
        /\ server' = [server EXCEPT !.config = loc.spec.config]
  /\ markDegraded /\ EndPass /\ reads' = NoApp
  /\ UNCHANGED <<cluster, limits, drifts, made>>

markAppReady == markReady(reads.version) /\ reads' = NoApp /\ UNCHANGED <<server, drifts, made>>

\* Mutant: whatever resolve says, the finalizer is dropped.
finalizeDNSAppEager ==
  /\ pc = "finalize" /\ pc' = "drop"
  /\ IF resolve = "client" THEN server' = NoApp /\ made' = {} ELSE UNCHANGED <<server, made>>
  /\ UNCHANGED <<stored, cur, loc, current, cluster, limits, reads, drifts>>

\* An orphaned app stays; any other is uninstalled, and one that is gone is fine.
finalizeDNSApp ==
  /\ pc = "finalize"
  /\ \/ /\ loc.spec.policy = "Orphan"
        /\ made' = made \ {cur} /\ UNCHANGED server
     \/ /\ loc.spec.policy = "Delete" /\ resolve = "client"
        /\ server' = NoApp /\ made' = {}
  /\ pc' = "drop"
  /\ UNCHANGED <<stored, cur, loc, current, cluster, limits, reads, drifts>>

\* A step of Resource: what was listed is forgotten when the pass ends.
Shared ==
  /\ reads' = IF pc' = "idle" THEN NoApp ELSE reads
  /\ UNCHANGED <<server, drifts, made>>

Operator ==
  \/ WorkerStep(Calls) /\ Shared
  \/ ListApps \/ DownloadAndInstallApp \/ DownloadAndUpdateApp \/ GetAppConfig \/ SetAppConfig
  \/ Refused \/ markAppReady \/ finalizeDNSApp

-----------------------------------------------------------------------------
(* Users, and whoever else manages apps on the server (external). *)

Drift ==
  /\ drifts < MaxDrifts /\ drifts' = drifts + 1 /\ ServerUp
  /\ \/ server.installed /\ server' = NoApp /\ made' = {}
     \/ \E v \in Versions : server' = [NoApp EXCEPT !.installed = TRUE, !.version = v] /\ made' = {}
  /\ UNCHANGED <<resource, reads>>

ClusterGone ==
  /\ Outage("gone")
  /\ server' = NoApp /\ made' = {} /\ UNCHANGED <<reads, drifts>>

World ==
  \/ \E r \in Objects, s \in Specs : (Create(r, s) \/ Edit(r, s)) /\ Shared
  \/ ClusterStep /\ Shared
  \/ ClusterGone \/ Drift

Next == Operator \/ World

\* As for every controller: requeues, a pass that goes on, watches, a server
\* that comes back.
Fairness ==
  /\ \A r \in Objects : SF_vars(Reconcile(r) /\ Shared) /\ WF_vars(CacheSync(r) /\ Shared)
  /\ WF_vars(Operator /\ pc # "idle" /\ faults' = faults) /\ WF_vars(Recover /\ Shared)

Spec == Init /\ [][Next]_vars /\ Fairness

-----------------------------------------------------------------------------
(* Properties. *)

App == [installed : BOOLEAN, version : Versions, config : Configs \cup {Default}]

\* Type correctness of the whole state.
TypeOK ==
  /\ ResourceTypeOK
  /\ pc \in {"idle", "finalizer", "reconcile", "install", "update", "relist", "config", "set", "ready"} \cup Finalizing
  /\ server \in App /\ reads \in App /\ drifts \in 0 .. MaxDrifts /\ made \subseteq Objects

C == INSTANCE Claim WITH held <- Held, owns <- made

\* The controller keeps the finalizer's promise: an app is installed only by a
\* resource that is held at that moment, and a resource is let go only when its
\* app is gone or is to stay, whatever fails in between (reconcileDNSApp adds the
\* finalizer before it installs, finalizeDNSApp removes it last).
Claimed == C!Spec

\* Once edits, faults and drift are over, deleted resources are gone, the app is
\* installed with the version and the configuration of the spec, status names the
\* version that runs, and an app that refuses its configuration is reported
\* (reconcileDNSApp and its requeues).
Converges ==
  <>[](\A r \in Objects : LET o == obj[r] IN
         /\ ~o.deleting
         /\ (o.exists /\ cluster = "up") =>
              /\ server.installed /\ o.spec.version \in {Unset, server.version}
              /\ IF o.spec.config \in Rejected THEN o.ready = "False"
                 ELSE /\ o.spec.config \in {Unset, server.config}
                      /\ o.ready = "True" /\ o.observed = o.gen /\ o.applied = server.version)

\* The controller stops downloading once the app is as the spec wants it: the
\* update is made when the versions differ, and never again.
DownloadsCease == <>[](pc \notin {"install", "update"})
=============================================================================
